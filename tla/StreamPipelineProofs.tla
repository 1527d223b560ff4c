-------------------------- MODULE StreamPipelineProofs --------------------------
(***************************************************************************)
(* Proofs about the way from a Chat Completions or Responses stream to the *)
(* client, for any number of chunks, events and tool calls: the adapter's  *)
(* items are bracketed (StreamInv), the encoder's blocks are well formed   *)
(* (ShowInv), the two never contradict each other and the message ends as  *)
(* the stream did (HandInv), and it carries all the stream brought         *)
(* (CarryInv).                                                             *)
(***************************************************************************)
EXTENDS StreamPipeline, FiniteSetTheorems, SequenceTheorems, WellFoundedInduction, TLAPS

-----------------------------------------------------------------------------
(* Induction.                                                              *)

(* Every set of natural numbers has a least element: the library's order   *)
(* theorem, without the operator that none of the provers can instantiate. *)
LEMMA LeastNumber ==
  ASSUME NEW T \in SUBSET Nat, T # {}
  PROVE  \E n \in T : \A m \in T : n <= m
<1>1. PICK R : IsWellFoundedOn(R, Nat) /\ \A n, m \in Nat : <<m, n>> \in R <=> m < n
  <2>1. IsWellFoundedOn(OpToRel(<, Nat), Nat)
    BY NatLessThanWellFounded
  <2>2. \A n, m \in Nat : <<m, n>> \in OpToRel(<, Nat) <=> m < n
    BY DEF OpToRel
  <2> QED BY <2>1, <2>2, Zenon
<1>2. PICK n \in T : \A m \in T : ~(<<m, n>> \in R)
  BY <1>1, WFMin
<1>3. ASSUME NEW m \in T PROVE n <= m
  <2>1. n \in Nat /\ m \in Nat
    OBVIOUS
  <2>2. ~(m < n)
    BY <1>1, <1>2, <2>1
  <2> QED BY <2>1, <2>2
<1> QED BY <1>3

(* Induction over the natural numbers, with a set in the place of the      *)
(* predicate.                                                              *)
LEMMA NumberInduction ==
  ASSUME NEW T \in SUBSET Nat, 0 \in T, \A n \in T : n + 1 \in T
  PROVE  T = Nat
<1> DEFINE C == Nat \ T
<1>1. SUFFICES ASSUME C # {} PROVE FALSE
  OBVIOUS
<1>2. PICK n \in C : \A m \in C : n <= m
  BY <1>1, LeastNumber
<1>3. n # 0 /\ n - 1 \in Nat /\ n - 1 \notin C
  BY <1>2
<1> QED BY <1>3

-----------------------------------------------------------------------------
(* The orders in which the tools are closed.                               *)

(* A finite set whose elements have different keys can be put in order. *)
LEMMA InOrder ==
  ASSUME NEW S, IsFiniteSet(S), NEW key \in [S -> Nat],
         \A x, y \in S : key[x] = key[y] => x = y
  PROVE  \E s \in [1 .. Cardinality(S) -> S] :
            \A j, k \in DOMAIN s : j < k => key[s[j]] < key[s[k]]
<1> DEFINE Ordered(s, n) == \A j, k \in 1 .. n : j < k => key[s[j]] < key[s[k]]
           T == {n \in Nat : \A U \in SUBSET S :
                   Cardinality(U) = n => \E s \in [1 .. n -> U] : Ordered(s, n)}
<1>1. 0 \in T
  <2> SUFFICES ASSUME NEW U \in SUBSET S PROVE \E s \in [1 .. 0 -> U] : Ordered(s, 0)
    OBVIOUS
  <2>1. [j \in 1 .. 0 |-> 0] \in [1 .. 0 -> U]
    OBVIOUS
  <2>2. Ordered([j \in 1 .. 0 |-> 0], 0)
    OBVIOUS
  <2> QED BY <2>1, <2>2
<1>2. ASSUME NEW n \in T PROVE n + 1 \in T
  <2> SUFFICES ASSUME NEW U \in SUBSET S, Cardinality(U) = n + 1
               PROVE  \E s \in [1 .. n + 1 -> U] : Ordered(s, n + 1)
    OBVIOUS
  <2>1. IsFiniteSet(U) /\ n \in Nat
    BY FS_Subset
  <2>2. U # {}
    BY <2>1, FS_EmptySet
  <2> DEFINE K == {key[x] : x \in U}
  <2>3. K \in SUBSET Nat /\ K # {}
    BY <2>2
  <2>4. PICK a \in K : \A b \in K : a <= b
    <3> HIDE DEF K
    <3> QED BY <2>3, LeastNumber
  <2>5. PICK x \in U : key[x] = a
    OBVIOUS
  <2>6. Cardinality(U \ {x}) = n
    <3> HIDE DEF T, K
    <3>1. Cardinality(U \ {x}) = Cardinality(U) - 1
      BY <2>1, FS_RemoveElement
    <3> QED BY <2>1, <3>1
  <2>7. PICK s \in [1 .. n -> U \ {x}] : Ordered(s, n)
    BY <2>6
  <2>8. \A y \in U \ {x} : key[x] < key[y]
    <3> TAKE y \in U \ {x}
    <3>1. key[x] <= key[y] /\ key[x] # key[y] /\ key[x] \in Nat /\ key[y] \in Nat
      BY <2>4, <2>5
    <3> QED BY <3>1
  <2> DEFINE t == [j \in 1 .. n + 1 |-> IF j = 1 THEN x ELSE s[j - 1]]
  <2>9. t \in [1 .. n + 1 -> U]
    BY <2>1
  <2>10. Ordered(t, n + 1)
    <3> SUFFICES ASSUME NEW j \in 1 .. n + 1, NEW k \in 1 .. n + 1, j < k
                 PROVE  key[t[j]] < key[t[k]]
      OBVIOUS
    <3>1. k # 1 /\ k - 1 \in 1 .. n /\ t[k] = s[k - 1]
      BY <2>1
    <3>2. CASE j = 1
      BY <2>8, <3>1, <3>2
    <3>3. CASE j # 1
      <4>1. j - 1 \in 1 .. n /\ t[j] = s[j - 1] /\ j - 1 < k - 1
        BY <2>1, <3>3
      <4> QED BY <2>7, <3>1, <4>1
    <3> QED BY <3>2, <3>3
  <2> QED BY <2>9, <2>10
<1>3. T = Nat
  <2>1. T \in SUBSET Nat
    OBVIOUS
  <2> HIDE DEF T
  <2> QED BY <1>1, <1>2, <2>1, NumberInduction
<1>4. Cardinality(S) \in Nat
  BY FS_CardinalityType
<1>5. PICK s \in [1 .. Cardinality(S) -> S] : Ordered(s, Cardinality(S))
  BY <1>3, <1>4
<1> QED BY <1>5

(* In such an order every element has one place. *)
LEMMA OrderReachesAll ==
  ASSUME NEW S, IsFiniteSet(S), NEW key \in [S -> Nat],
         NEW s \in [1 .. Cardinality(S) -> S],
         \A j, k \in DOMAIN s : j < k => key[s[j]] < key[s[k]]
  PROVE  /\ \A j, k \in DOMAIN s : s[j] = s[k] => j = k
         /\ \A x \in S : \E j \in DOMAIN s : s[j] = x
<1>1. Cardinality(S) \in Nat
  BY FS_CardinalityType
<1>2. ASSUME NEW j \in DOMAIN s, NEW k \in DOMAIN s, s[j] = s[k] PROVE j = k
  <2>1. ~(j < k) /\ ~(k < j)
    BY <1>2
  <2> QED BY <1>1, <2>1
<1>3. s \in Injection(1 .. Cardinality(S), S)
  BY <1>2 DEF Injection, IsInjective
<1>4. Cardinality(1 .. Cardinality(S)) = Cardinality(S)
  BY <1>1, FS_Interval
<1>5. s \in Surjection(1 .. Cardinality(S), S)
  BY <1>3, <1>4, FS_Injection
<1> QED BY <1>2, <1>5 DEF Surjection

(* FlattenSeq joins its arguments one after the other. *)
LEMMA Flattening ==
  ASSUME NEW X, NEW q \in Seq(Seq(X))
  PROVE  \E fl \in [0 .. Len(q) -> Seq(X)] :
           /\ fl[0] = <<>>
           /\ \A i \in 1 .. Len(q) : fl[i] = fl[i - 1] \o q[i]
           /\ FlattenSeq(q) = fl[Len(q)]
<1> DEFINE N == Len(q)
           Joins(f, n) == /\ f \in [0 .. n -> Seq(X)]
                          /\ f[0] = <<>>
                          /\ \A i \in 1 .. n : f[i] = f[i - 1] \o q[i]
           T == {n \in Nat : n <= N => \E f : Joins(f, n)}
<1>0. N \in Nat /\ \A i \in 1 .. N : q[i] \in Seq(X)
  OBVIOUS
<1>1. 0 \in T
  <2>1. Joins([i \in 0 .. 0 |-> <<>>], 0)
    OBVIOUS
  <2> HIDE DEF Joins
  <2> QED BY <2>1
<1>2. ASSUME NEW n \in T PROVE n + 1 \in T
  <2> HIDE DEF Joins, N
  <2> SUFFICES ASSUME n + 1 <= N PROVE \E f : Joins(f, n + 1)
    OBVIOUS
  <2>1. n \in Nat /\ n <= N
    BY <1>0
  <2>2. PICK f : Joins(f, n)
    BY <2>1
  <2> USE DEF Joins, N
  <2> HIDE DEF T
  <2> DEFINE g == [i \in 0 .. n + 1 |-> IF i = n + 1 THEN f[n] \o q[n + 1] ELSE f[i]]
  <2>3. f[n] \o q[n + 1] \in Seq(X)
    BY <1>0, <2>1, <2>2
  <2>4. g \in [0 .. n + 1 -> Seq(X)]
    BY <2>1, <2>2, <2>3
  <2>5. g[0] = <<>>
    BY <2>1, <2>2
  <2>6. \A i \in 1 .. n + 1 : g[i] = g[i - 1] \o q[i]
    <3> TAKE i \in 1 .. n + 1
    <3>1. CASE i = n + 1
      <4>1. i \in 0 .. n + 1 /\ i - 1 \in 0 .. n + 1 /\ i - 1 = n /\ i - 1 # n + 1
        BY <2>1, <3>1
      <4>2. g[i] = f[n] \o q[n + 1] /\ g[i - 1] = f[i - 1]
        BY <3>1, <4>1
      <4> QED BY <3>1, <4>1, <4>2
    <3>2. CASE i # n + 1
      <4>1. i \in 1 .. n /\ i - 1 \in 0 .. n /\ g[i] = f[i] /\ g[i - 1] = f[i - 1]
        BY <2>1, <3>2
      <4> QED BY <2>2, <4>1
    <3> QED BY <3>1, <3>2
  <2> HIDE DEF g
  <2>7. Joins(g, n + 1)
    BY <2>4, <2>5, <2>6
  <2> QED BY <2>7
<1>3. T = Nat
  <2>1. T \in SUBSET Nat
    OBVIOUS
  <2> HIDE DEF T
  <2> QED BY <1>1, <1>2, <2>1, NumberInduction
<1>4. PICK fl : Joins(fl, N)
  <2> HIDE DEF Joins
  <2> QED BY <1>0, <1>3
<1> HIDE DEF T
<1>5. FlattenSeq(q) = fl[N]
  <2>1. CASE N = 0
    <3>1. q = <<>>
      BY <2>1
    <3> QED BY <1>4, <2>1, <3>1 DEF FlattenSeq
  <2>2. CASE N # 0
    <3> DEFINE Fits(f) == f = [i \in 1 .. N |-> IF i = 1 THEN q[i] ELSE f[i - 1] \o q[i]]
               c == CHOOSE f : Fits(f)
               g == [i \in 1 .. N |-> fl[i]]
    <3>1. FlattenSeq(q) = c[N]
      BY <2>2 DEF FlattenSeq
    <3>2. Fits(g)
      <4>1. \A i \in 1 .. N : fl[i] = IF i = 1 THEN q[i] ELSE g[i - 1] \o q[i]
        <5> TAKE i \in 1 .. N
        <5>1. fl[i] = fl[i - 1] \o q[i]
          BY <1>4
        <5>2. CASE i = 1
          <6>1. fl[0] \o q[i] = q[i]
            BY <1>0, <1>4, ConcatEmptySeq
          <6>2. i - 1 = 0
            BY <5>2
          <6> QED BY <5>1, <5>2, <6>1, <6>2
        <5>3. CASE i # 1
          <6>1. i - 1 \in 1 .. N
            BY <1>0, <5>3
          <6> QED BY <5>1, <5>3, <6>1
        <5> QED BY <5>2, <5>3
      <4> QED BY <4>1
    <3> HIDE DEF g
    <3>3. Fits(c)
      BY <3>2, Zenon
    <3> DEFINE V == {n \in Nat : n + 1 <= N => c[n + 1] = fl[n + 1]}
    <3> HIDE DEF c
    <3>4. 0 \in V
      <4>1. 1 \in 1 .. N
        BY <1>0, <2>2
      <4>2. c[1] = q[1]
        BY <3>3, <4>1
      <4>3. fl[1] = <<>> \o q[1]
        <5>1. fl[0] = <<>> /\ \A i \in 1 .. N : fl[i] = fl[i - 1] \o q[i]
          BY <1>4
        <5>2. 1 - 1 = 0
          OBVIOUS
        <5> HIDE DEF Joins, V, N, Fits
        <5> QED BY <4>1, <5>1, <5>2
      <4>4. <<>> \o q[1] = q[1]
        BY <1>0, <4>1, ConcatEmptySeq
      <4>5. c[0 + 1] = fl[0 + 1]
        BY <4>2, <4>3, <4>4
      <4> HIDE DEF Joins, N, Fits
      <4> QED BY <4>5
    <3>5. ASSUME NEW n \in V PROVE n + 1 \in V
      <4> SUFFICES ASSUME n + 2 <= N PROVE c[n + 2] = fl[n + 2]
        BY <1>0
      <4>1. n + 2 \in 1 .. N /\ n + 2 # 1 /\ (n + 2) - 1 = n + 1 /\ n + 1 <= N
        BY <1>0
      <4>2. c[n + 2] = c[n + 1] \o q[n + 2]
        BY <3>3, <4>1
      <4>3. fl[n + 2] = fl[n + 1] \o q[n + 2]
        BY <1>4, <4>1
      <4> QED BY <4>1, <4>2, <4>3
    <3>6. V = Nat
      <4>1. V \in SUBSET Nat
        OBVIOUS
      <4> HIDE DEF V
      <4> QED BY <3>4, <3>5, <4>1, NumberInduction
    <3>7. N - 1 \in V /\ (N - 1) + 1 = N
      <4> HIDE DEF V, N, Joins
      <4> QED BY <1>0, <2>2, <3>6
    <3> QED BY <1>0, <3>1, <3>7 DEF V
  <2> QED BY <2>1, <2>2
<1> QED BY <1>4, <1>5

-----------------------------------------------------------------------------
(* The client's view of a stream s of encoder events.                      *)

Sse == [type : {"content_block_start", "content_block_delta", "content_block_stop",
                "message_delta", "message_stop", "error"},
        index : Int, size : Nat]

Starts(s, n) == {m \in 1 .. n : s[m].type = "content_block_start"}

Opened(s, n) ==
  {i \in Nat : (\E j \in 1 .. n : s[j] = BlockStart(i)) /\ (\A j \in 1 .. n : s[j] # BlockStop(i))}

(* Event j fits the events before it. *)
Proper(s, j) ==
  /\ s[j].type = "content_block_start" => s[j].index = Cardinality(Starts(s, j - 1))
  /\ s[j].type \in {"content_block_delta", "content_block_stop"} => s[j].index \in Opened(s, j - 1)
  /\ s[j].type = "message_stop" => Opened(s, j - 1) = {}

(* An unfinished message with n blocks, of which those in O are open. *)
Running(s, n, O) ==
  /\ s \in Seq(Sse)
  /\ n \in Nat
  /\ \A j \in DOMAIN s : Proper(s, j)
  /\ \A j \in DOMAIN s : s[j].type \notin {"message_stop", "error"}
  /\ \A j \in DOMAIN s : s[j].index < n
  /\ Cardinality(Starts(s, Len(s))) = n
  /\ Opened(s, Len(s)) = O

(* A message that is over. *)
Over(s) ==
  /\ s \in Seq(Sse)
  /\ \A j \in DOMAIN s : Proper(s, j)
  /\ \A j \in DOMAIN s : s[j].type \in {"message_stop", "error"} => j = Len(s)

(* What is appended leaves the past alone. *)
LEMMA Past ==
  ASSUME NEW s \in Seq(Sse), NEW ev \in Sse
  PROVE  /\ Append(s, ev) \in Seq(Sse)
         /\ Len(Append(s, ev)) = Len(s) + 1
         /\ DOMAIN Append(s, ev) = 1 .. Len(s) + 1
         /\ DOMAIN s = 1 .. Len(s)
         /\ Len(s) \in Nat
         /\ \A j \in 1 .. Len(s) : Append(s, ev)[j] = s[j]
         /\ Append(s, ev)[Len(s) + 1] = ev
         /\ \A n \in 0 .. Len(s) : Starts(Append(s, ev), n) = Starts(s, n)
         /\ \A n \in 0 .. Len(s) : Opened(Append(s, ev), n) = Opened(s, n)
         /\ \A j \in DOMAIN s : Proper(Append(s, ev), j) <=> Proper(s, j)
<1> DEFINE t == Append(s, ev)
<1>1. /\ t \in Seq(Sse)
      /\ Len(t) = Len(s) + 1
      /\ DOMAIN t = 1 .. Len(s) + 1
      /\ DOMAIN s = 1 .. Len(s)
      /\ Len(s) \in Nat
      /\ \A j \in 1 .. Len(s) : t[j] = s[j]
      /\ t[Len(s) + 1] = ev
  OBVIOUS
<1> HIDE DEF t
<1>2. \A n \in 0 .. Len(s) : \A j \in 1 .. n : t[j] = s[j]
  BY <1>1
<1>3. \A n \in 0 .. Len(s) : Starts(t, n) = Starts(s, n)
  BY <1>2 DEF Starts
<1>4. \A n \in 0 .. Len(s) : Opened(t, n) = Opened(s, n)
  BY <1>2 DEF Opened
<1>5. \A j \in DOMAIN s : Proper(t, j) <=> Proper(s, j)
  <2> TAKE j \in DOMAIN s
  <2>1. j - 1 \in 0 .. Len(s)
    BY <1>1
  <2>2. Starts(t, j - 1) = Starts(s, j - 1) /\ Opened(t, j - 1) = Opened(s, j - 1) /\ t[j] = s[j]
    BY <1>1, <1>3, <1>4, <2>1
  <2> QED BY <2>2 DEF Proper
<1> QED BY <1>1, <1>3, <1>4, <1>5 DEF t

LEMMA AppendStart ==
  ASSUME NEW s, NEW n, NEW O, Running(s, n, O)
  PROVE  Running(Append(s, BlockStart(n)), n + 1, O \cup {n})
<1> DEFINE ev == BlockStart(n)
           t == Append(s, ev)
<1>1. s \in Seq(Sse) /\ n \in Nat /\ ev \in Sse
  BY DEF Running, BlockStart, Sse
<1> USE <1>1
<1>2. ev.type = "content_block_start" /\ ev.index = n
  BY DEF BlockStart
<1> HIDE DEF ev
<1>3. /\ t \in Seq(Sse)
      /\ Len(t) = Len(s) + 1
      /\ DOMAIN t = 1 .. Len(s) + 1
      /\ DOMAIN s = 1 .. Len(s)
      /\ Len(s) \in Nat
      /\ \A j \in 1 .. Len(s) : t[j] = s[j]
      /\ t[Len(s) + 1] = ev
      /\ Starts(t, Len(s)) = Starts(s, Len(s))
      /\ \A j \in DOMAIN s : Proper(t, j) <=> Proper(s, j)
  BY Past
<1> HIDE DEF t
<1>4. Proper(t, Len(s) + 1)
  BY <1>2, <1>3 DEF Proper, Running
<1>5. \A j \in DOMAIN t : Proper(t, j)
  BY <1>3, <1>4 DEF Running
<1>6. \A j \in DOMAIN t : t[j].type \notin {"message_stop", "error"}
  BY <1>2, <1>3 DEF Running
<1>7. \A j \in DOMAIN t : t[j].index < n + 1
  <2> TAKE j \in DOMAIN t
  <2>1. CASE j = Len(s) + 1
    BY <1>2, <1>3, <2>1
  <2>2. CASE j # Len(s) + 1
    <3>1. j \in DOMAIN s /\ t[j] = s[j]
      BY <1>3, <2>2
    <3>2. s[j] \in Sse
      BY <3>1
    <3>3. s[j].index \in Int
      BY <3>2 DEF Sse
    <3> QED BY <3>1, <3>3 DEF Running
  <2> QED BY <2>1, <2>2
<1>8. Cardinality(Starts(t, Len(t))) = n + 1
  <2>1. Starts(t, Len(t)) = Starts(s, Len(s)) \cup {Len(s) + 1}
    BY <1>2, <1>3 DEF Starts
  <2>2. IsFiniteSet(Starts(s, Len(s)))
    <3>1. IsFiniteSet(1 .. Len(s)) /\ Starts(s, Len(s)) \in SUBSET (1 .. Len(s))
      BY <1>3, FS_Interval DEF Starts
    <3> QED BY <3>1, FS_Subset
  <2>3. Len(s) + 1 \notin Starts(s, Len(s))
    BY <1>3 DEF Starts
  <2> QED BY <2>1, <2>2, <2>3, FS_AddElement DEF Running
<1>9. Opened(t, Len(t)) = O \cup {n}
  <2>1. \A j \in DOMAIN s : s[j] # BlockStop(n)
    <3> SUFFICES ASSUME NEW j \in DOMAIN s, s[j] = BlockStop(n) PROVE FALSE
      OBVIOUS
    <3>1. s[j].index = n
      BY DEF BlockStop
    <3>2. n < n
      BY <3>1 DEF Running
    <3> QED BY <3>2
  <2>2. \A i \in Nat : ev # BlockStop(i)
    BY <1>2 DEF BlockStop
  <2>3. \A i \in Nat : ev = BlockStart(i) <=> i = n
    BY DEF ev, BlockStart
  <2>4. \A i \in Nat : i \in Opened(t, Len(t)) <=> i \in Opened(s, Len(s)) \/ i = n
    BY <1>3, <2>1, <2>2, <2>3 DEF Opened
  <2>5. Opened(t, Len(t)) \subseteq Nat /\ Opened(s, Len(s)) \subseteq Nat
    BY DEF Opened
  <2>6. Opened(s, Len(s)) = O
    BY DEF Running
  <2> QED BY <2>4, <2>5, <2>6
<1>10. n + 1 \in Nat
  OBVIOUS
<1>11. Running(t, n + 1, O \cup {n})
  BY <1>3, <1>5, <1>6, <1>7, <1>8, <1>9, <1>10 DEF Running
<1> QED BY <1>11 DEF t, ev

LEMMA AppendDelta ==
  ASSUME NEW s, NEW n, NEW O, Running(s, n, O), NEW i \in O, NEW k \in Nat
  PROVE  Running(Append(s, BlockDelta(i, k)), n, O)
<1> DEFINE ev == BlockDelta(i, k)
           t == Append(s, ev)
<1>0. Opened(s, Len(s)) = O
  BY DEF Running
<1>1. s \in Seq(Sse) /\ n \in Nat /\ i \in Nat /\ ev \in Sse
  <2>1. i \in Nat
    BY <1>0 DEF Opened
  <2> QED BY <2>1 DEF Running, BlockDelta, Sse
<1> USE <1>1
<1>2. ev.type = "content_block_delta" /\ ev.index = i
  BY DEF BlockDelta
<1> HIDE DEF ev
<1>3. /\ t \in Seq(Sse)
      /\ Len(t) = Len(s) + 1
      /\ DOMAIN t = 1 .. Len(s) + 1
      /\ DOMAIN s = 1 .. Len(s)
      /\ Len(s) \in Nat
      /\ \A j \in 1 .. Len(s) : t[j] = s[j]
      /\ t[Len(s) + 1] = ev
      /\ Opened(t, Len(s)) = Opened(s, Len(s))
      /\ \A j \in DOMAIN s : Proper(t, j) <=> Proper(s, j)
  BY Past
<1> HIDE DEF t
<1>4. Proper(t, Len(s) + 1)
  BY <1>0, <1>2, <1>3 DEF Proper
<1>5. \A j \in DOMAIN t : Proper(t, j)
  BY <1>3, <1>4 DEF Running
<1>6. \A j \in DOMAIN t : t[j].type \notin {"message_stop", "error"}
  BY <1>2, <1>3 DEF Running
<1>7. \A j \in DOMAIN t : t[j].index < n
  <2>1. PICK j \in DOMAIN s : s[j] = BlockStart(i)
    BY <1>0, <1>3 DEF Opened
  <2>2. i < n
    BY <2>1 DEF Running, BlockStart
  <2> QED BY <1>2, <1>3, <2>2 DEF Running
<1>8. Cardinality(Starts(t, Len(t))) = n
  <2>1. Starts(t, Len(t)) = Starts(s, Len(s))
    BY <1>2, <1>3 DEF Starts
  <2> QED BY <2>1 DEF Running
<1>9. Opened(t, Len(t)) = O
  <2>1. \A m \in Nat : ev # BlockStop(m) /\ ev # BlockStart(m)
    BY <1>2 DEF BlockStop, BlockStart
  <2>2. \A m \in Nat : m \in Opened(t, Len(t)) <=> m \in Opened(s, Len(s))
    <3> TAKE m \in Nat
    <3>1. \A j : j \in 1 .. Len(t) <=> j \in 1 .. Len(s) \/ j = Len(s) + 1
      BY <1>3
    <3>2. (\E j \in 1 .. Len(t) : t[j] = BlockStart(m)) <=> \E j \in 1 .. Len(s) : s[j] = BlockStart(m)
      BY <1>3, <2>1, <3>1
    <3>3. (\A j \in 1 .. Len(t) : t[j] # BlockStop(m)) <=>
            (\A j \in 1 .. Len(s) : s[j] # BlockStop(m)) /\ ev # BlockStop(m)
      BY <1>3, <2>1, <3>1
    <3> QED BY <2>1, <3>2, <3>3 DEF Opened
  <2>3. Opened(t, Len(t)) \subseteq Nat /\ Opened(s, Len(s)) \subseteq Nat
    BY DEF Opened
  <2> QED BY <1>0, <2>2, <2>3
<1>10. Running(t, n, O)
  BY <1>3, <1>5, <1>6, <1>7, <1>8, <1>9 DEF Running
<1> QED BY <1>10 DEF t, ev

LEMMA AppendStop ==
  ASSUME NEW s, NEW n, NEW O, Running(s, n, O), NEW i \in O
  PROVE  Running(Append(s, BlockStop(i)), n, O \ {i})
<1> DEFINE ev == BlockStop(i)
           t == Append(s, ev)
<1>0. Opened(s, Len(s)) = O
  BY DEF Running
<1>1. s \in Seq(Sse) /\ n \in Nat /\ i \in Nat /\ ev \in Sse
  <2>1. i \in Nat
    BY <1>0 DEF Opened
  <2> QED BY <2>1 DEF Running, BlockStop, Sse
<1> USE <1>1
<1>2. ev.type = "content_block_stop" /\ ev.index = i
  BY DEF BlockStop
<1> HIDE DEF ev
<1>3. /\ t \in Seq(Sse)
      /\ Len(t) = Len(s) + 1
      /\ DOMAIN t = 1 .. Len(s) + 1
      /\ DOMAIN s = 1 .. Len(s)
      /\ Len(s) \in Nat
      /\ \A j \in 1 .. Len(s) : t[j] = s[j]
      /\ t[Len(s) + 1] = ev
      /\ Opened(t, Len(s)) = Opened(s, Len(s))
      /\ \A j \in DOMAIN s : Proper(t, j) <=> Proper(s, j)
  BY Past
<1> HIDE DEF t
<1>4. Proper(t, Len(s) + 1)
  BY <1>0, <1>2, <1>3 DEF Proper
<1>5. \A j \in DOMAIN t : Proper(t, j)
  BY <1>3, <1>4 DEF Running
<1>6. \A j \in DOMAIN t : t[j].type \notin {"message_stop", "error"}
  BY <1>2, <1>3 DEF Running
<1>7. \A j \in DOMAIN t : t[j].index < n
  <2>1. PICK j \in DOMAIN s : s[j] = BlockStart(i)
    BY <1>0, <1>3 DEF Opened
  <2>2. i < n
    BY <2>1 DEF Running, BlockStart
  <2> QED BY <1>2, <1>3, <2>2 DEF Running
<1>8. Cardinality(Starts(t, Len(t))) = n
  <2>1. Starts(t, Len(t)) = Starts(s, Len(s))
    BY <1>2, <1>3 DEF Starts
  <2> QED BY <2>1 DEF Running
<1>9. Opened(t, Len(t)) = O \ {i}
  <2>1. \A m \in Nat : ev # BlockStart(m) /\ (ev = BlockStop(m) <=> m = i)
    BY <1>2 DEF ev, BlockStop, BlockStart
  <2>2. \A m \in Nat : m \in Opened(t, Len(t)) <=> m \in Opened(s, Len(s)) /\ m # i
    <3> TAKE m \in Nat
    <3>1. \A j : j \in 1 .. Len(t) <=> j \in 1 .. Len(s) \/ j = Len(s) + 1
      BY <1>3
    <3>2. (\E j \in 1 .. Len(t) : t[j] = BlockStart(m)) <=> \E j \in 1 .. Len(s) : s[j] = BlockStart(m)
      BY <1>3, <2>1, <3>1
    <3>3. (\A j \in 1 .. Len(t) : t[j] # BlockStop(m)) <=>
            (\A j \in 1 .. Len(s) : s[j] # BlockStop(m)) /\ ev # BlockStop(m)
      BY <1>3, <2>1, <3>1
    <3> QED BY <2>1, <3>2, <3>3 DEF Opened
  <2>3. Opened(t, Len(t)) \subseteq Nat /\ Opened(s, Len(s)) \subseteq Nat
    BY DEF Opened
  <2> QED BY <1>0, <2>2, <2>3
<1>10. Running(t, n, O \ {i})
  BY <1>3, <1>5, <1>6, <1>7, <1>8, <1>9 DEF Running
<1> QED BY <1>10 DEF t, ev

LEMMA AppendError ==
  ASSUME NEW s, NEW n, NEW O, Running(s, n, O)
  PROVE  Over(Append(s, Terminator("error")))
<1> DEFINE ev == Terminator("error")
           t == Append(s, ev)
<1>1. s \in Seq(Sse) /\ ev \in Sse /\ ev.type = "error"
  BY DEF Running, Terminator, Sse
<1> HIDE DEF ev
<1>2. /\ t \in Seq(Sse)
      /\ Len(t) = Len(s) + 1
      /\ DOMAIN t = 1 .. Len(s) + 1
      /\ DOMAIN s = 1 .. Len(s)
      /\ Len(s) \in Nat
      /\ \A j \in 1 .. Len(s) : t[j] = s[j]
      /\ t[Len(s) + 1] = ev
      /\ \A j \in DOMAIN s : Proper(t, j) <=> Proper(s, j)
  BY <1>1, Past
<1> HIDE DEF t
<1>3. Proper(t, Len(s) + 1)
  BY <1>1, <1>2 DEF Proper
<1>4. \A j \in DOMAIN t : j \in DOMAIN s \/ j = Len(s) + 1
  BY <1>2
<1>5. Over(t)
  BY <1>2, <1>3, <1>4 DEF Running, Over
<1> QED BY <1>5 DEF t, ev

LEMMA AppendEnd ==
  ASSUME NEW s, NEW n, Running(s, n, {})
  PROVE  Over(Append(Append(s, Terminator("message_delta")), Terminator("message_stop")))
<1> DEFINE ev == Terminator("message_delta")
           fin == Terminator("message_stop")
           t == Append(s, ev)
           u == Append(t, fin)
<1>1. /\ s \in Seq(Sse) /\ ev \in Sse /\ ev.type = "message_delta"
      /\ fin \in Sse /\ fin.type = "message_stop"
  BY DEF Running, Terminator, Sse
<1>0. \A i \in Nat : ev # BlockStop(i) /\ ev # BlockStart(i)
  BY DEF BlockStop, BlockStart, Terminator
<1> HIDE DEF ev, fin
<1>2. /\ t \in Seq(Sse)
      /\ Len(t) = Len(s) + 1
      /\ DOMAIN t = 1 .. Len(s) + 1
      /\ DOMAIN s = 1 .. Len(s)
      /\ Len(s) \in Nat
      /\ \A j \in 1 .. Len(s) : t[j] = s[j]
      /\ t[Len(s) + 1] = ev
      /\ \A j \in DOMAIN s : Proper(t, j) <=> Proper(s, j)
  BY <1>1, Past
<1>3. /\ u \in Seq(Sse)
      /\ Len(u) = Len(t) + 1
      /\ DOMAIN u = 1 .. Len(t) + 1
      /\ \A j \in 1 .. Len(t) : u[j] = t[j]
      /\ u[Len(t) + 1] = fin
      /\ \A j \in DOMAIN t : Proper(u, j) <=> Proper(t, j)
      /\ Opened(u, Len(t)) = Opened(t, Len(t))
  <2> HIDE DEF t
  <2> QED BY <1>1, <1>2, Past
<1> HIDE DEF t, u
<1>4. Opened(t, Len(t)) = {}
  <2>1. \A i \in Nat : i \in Opened(t, Len(t)) => i \in Opened(s, Len(s))
    <3> SUFFICES ASSUME NEW i \in Opened(t, Len(t)) PROVE i \in Opened(s, Len(s))
      OBVIOUS
    <3>1. \A j : j \in 1 .. Len(t) <=> j \in 1 .. Len(s) \/ j = Len(s) + 1
      BY <1>2
    <3> QED BY <1>0, <1>2, <3>1 DEF Opened
  <2>2. Opened(s, Len(s)) = {}
    BY DEF Running
  <2> QED BY <2>1, <2>2 DEF Opened
<1>5. Proper(t, Len(s) + 1)
  BY <1>1, <1>2 DEF Proper
<1>6. Proper(u, Len(t) + 1)
  BY <1>1, <1>2, <1>3, <1>4 DEF Proper
<1>7. \A j \in DOMAIN t : j \in DOMAIN s \/ j = Len(s) + 1
  BY <1>2
<1>8. \A j \in DOMAIN t : Proper(t, j) /\ t[j].type \notin {"message_stop", "error"}
  BY <1>1, <1>2, <1>5, <1>7 DEF Running
<1>9. \A j \in DOMAIN u : j \in DOMAIN t \/ j = Len(u)
  BY <1>2, <1>3
<1>10. Over(u)
  BY <1>2, <1>3, <1>6, <1>8, <1>9 DEF Over
<1> QED BY <1>10 DEF t, u, ev, fin

-----------------------------------------------------------------------------
(* The encoder: which blocks it holds open, and that they are different.   *)

StreamTools == [output : Nat, index : Nat, args : Nat, closed : BOOLEAN]

ToolMaps == UNION {[D -> StreamTools] : D \in {D \in SUBSET Int : IsFiniteSet(D)}}

StopReasons == {"end_turn", "refusal", "tool_use", "max_tokens"}

Encoders ==
  [nextIndex : Nat, textOpen : BOOLEAN, textIndex : Nat, refusalText : Nat,
   stopReason : StopReasons, terminal : BOOLEAN, success : BOOLEAN, tools : ToolMaps]

OpenIn(e) ==
  {i \in Nat : \/ e.textOpen /\ i = e.textIndex
               \/ \E t \in DOMAIN e.tools : ~e.tools[t].closed /\ e.tools[t].index = i}

Distinct(e) ==
  /\ \A t, u \in DOMAIN e.tools : e.tools[t].index = e.tools[u].index => t = u
  /\ \A t, u \in DOMAIN e.tools : e.tools[t].output = e.tools[u].output => t = u
  /\ \A t \in DOMAIN e.tools : e.tools[t].index < e.nextIndex
  /\ \A t \in DOMAIN e.tools : e.textOpen => e.tools[t].index # e.textIndex

(* s is what the client of encoder e has seen. *)
Shows(e, s) ==
  /\ e \in Encoders
  /\ ~e.terminal
  /\ Distinct(e)
  /\ Running(s, e.nextIndex, OpenIn(e))

(* The result r of a method fits the client's view s. *)
Good(r, s) ==
  /\ r.enc \in Encoders
  /\ r.events \in Seq(Sse)
  /\ IF r.enc.terminal THEN Over(s \o r.events) ELSE Shows(r.enc, s \o r.events)

LEMMA ToolMapFacts ==
  ASSUME NEW f \in ToolMaps
  PROVE  /\ DOMAIN f \in SUBSET Int
         /\ IsFiniteSet(DOMAIN f)
         /\ f \in [DOMAIN f -> StreamTools]
         /\ \A t \in DOMAIN f : /\ f[t].output \in Nat /\ f[t].index \in Nat
                                /\ f[t].args \in Nat /\ f[t].closed \in BOOLEAN
<1>1. PICK D \in SUBSET Int : IsFiniteSet(D) /\ f \in [D -> StreamTools]
  BY DEF ToolMaps
<1>2. DOMAIN f = D
  BY <1>1
<1>3. \A t \in D : f[t] \in StreamTools
  BY <1>1
<1>4. \A t \in D : /\ f[t].output \in Nat /\ f[t].index \in Nat
                   /\ f[t].args \in Nat /\ f[t].closed \in BOOLEAN
  BY <1>3 DEF StreamTools
<1> QED BY <1>1, <1>2, <1>4

LEMMA ToolMapIntro ==
  ASSUME NEW D \in SUBSET Int, IsFiniteSet(D), NEW f \in [D -> StreamTools]
  PROVE  f \in ToolMaps
BY DEF ToolMaps

(* Joining the events of a result to the view, one by one. *)
LEMMA Joined ==
  ASSUME NEW s \in Seq(Sse), NEW a \in Sse, NEW b \in Sse
  PROVE  /\ s \o <<>> = s
         /\ s \o <<a>> = Append(s, a)
         /\ s \o <<a, b>> = Append(Append(s, a), b)
         /\ <<>> \in Seq(Sse) /\ <<a>> \in Seq(Sse) /\ <<a, b>> \in Seq(Sse)
<1>1. s \o <<>> = s
  BY ConcatEmptySeq
<1>2. s \o <<a>> = Append(s, a)
  OBVIOUS
<1>3. s \o <<a, b>> = Append(Append(s, a), b)
  OBVIOUS
<1> QED BY <1>1, <1>2, <1>3

LEMMA Assoc == \A s, t, u \in Seq(Sse) : (s \o t) \o u = s \o (t \o u)
BY ConcatAssociative

LEMMA EventTypes ==
  /\ \A i \in Nat : BlockStart(i) \in Sse /\ BlockStop(i) \in Sse
  /\ \A i, k \in Nat : BlockDelta(i, k) \in Sse
  /\ \A t \in {"message_delta", "message_stop", "error"} : Terminator(t) \in Sse
BY DEF BlockStart, BlockStop, BlockDelta, Terminator, Sse

LEMMA FailGood ==
  ASSUME NEW e, NEW s, Shows(e, s)
  PROVE  Good(Fail(e), s)
<1>1. s \in Seq(Sse)
  BY DEF Shows, Running
<1>2. Fail(e).events = <<Terminator("error")>>
  BY DEF Fail, Emit
<1>3. s \o <<Terminator("error")>> = Append(s, Terminator("error"))
       /\ <<Terminator("error")>> \in Seq(Sse)
  BY <1>1, Joined, EventTypes
<1>4. Fail(e).enc \in Encoders /\ Fail(e).enc.terminal
  BY DEF Fail, Emit, Shows, Encoders
<1>5. Over(Append(s, Terminator("error")))
  BY AppendError DEF Shows
<1> QED BY <1>2, <1>3, <1>4, <1>5 DEF Good

(* Fields that do not matter to the view. *)
LEMMA SameShows ==
  ASSUME NEW e, NEW d \in Encoders, NEW s, Shows(e, s),
         d.nextIndex = e.nextIndex, d.textOpen = e.textOpen, d.textIndex = e.textIndex,
         d.tools = e.tools, ~d.terminal
  PROVE  Shows(d, s)
BY DEF Shows, OpenIn, Distinct

LEMMA GoodIntro ==
  ASSUME NEW d \in Encoders, ~d.terminal, Distinct(d), NEW s, NEW evs \in Seq(Sse), NEW t,
         s \o evs = t, Running(t, d.nextIndex, OpenIn(d))
  PROVE  Good(Emit(d, evs), s)
<1>1. Emit(d, evs).enc = d /\ Emit(d, evs).events = evs
  BY DEF Emit
<1>2. Shows(d, t)
  BY DEF Shows
<1> QED BY <1>1, <1>2 DEF Good

LEMMA QuietGood ==
  ASSUME NEW e, NEW s, Shows(e, s)
  PROVE  Good(Emit(e, <<>>), s)
<1>1. s \o <<>> = s /\ <<>> \in Seq(Sse)
  BY EmptySeq, ConcatEmptySeq DEF Shows, Running
<1> QED BY <1>1 DEF Good, Emit, Shows

LEMMA TextDeltaGood ==
  ASSUME NEW e, NEW s, Shows(e, s), NEW n \in Nat
  PROVE  Good(TextDelta(e, n), s)
<1>0. /\ e \in Encoders /\ s \in Seq(Sse) /\ Running(s, e.nextIndex, OpenIn(e))
      /\ ~e.terminal /\ Distinct(e)
  BY DEF Shows, Running
<1>1. /\ e.nextIndex \in Nat /\ e.textIndex \in Nat /\ e.textOpen \in BOOLEAN
      /\ e.tools \in ToolMaps
  BY <1>0 DEF Encoders
<1>2. CASE n = 0
  BY <1>2, QuietGood DEF TextDelta
<1>3. CASE n # 0 /\ e.textOpen
  <2>1. TextDelta(e, n) = Emit(e, <<BlockDelta(e.textIndex, n)>>)
    BY <1>3 DEF TextDelta
  <2>2. BlockDelta(e.textIndex, n) \in Sse
    BY <1>1, EventTypes
  <2>3. e.textIndex \in OpenIn(e)
    BY <1>1, <1>3 DEF OpenIn
  <2>4. Running(Append(s, BlockDelta(e.textIndex, n)), e.nextIndex, OpenIn(e))
    BY <1>0, <2>3, AppendDelta
  <2>5. s \o <<BlockDelta(e.textIndex, n)>> = Append(s, BlockDelta(e.textIndex, n))
        /\ <<BlockDelta(e.textIndex, n)>> \in Seq(Sse)
    BY <1>0, <2>2, Joined
  <2> QED BY <1>0, <2>1, <2>4, <2>5, GoodIntro
<1>4. CASE n # 0 /\ ~e.textOpen
  <2> DEFINE i == e.nextIndex
             d == [e EXCEPT !.textOpen = TRUE, !.textIndex = i, !.nextIndex = i + 1]
             a == BlockStart(i)
             b == BlockDelta(i, n)
  <2>1. TextDelta(e, n) = Emit(d, <<a, b>>)
    BY <1>4 DEF TextDelta
  <2>2. a \in Sse /\ b \in Sse
    BY <1>1, EventTypes
  <2>3. d \in Encoders /\ d.nextIndex = i + 1 /\ d.textOpen /\ d.textIndex = i
        /\ d.tools = e.tools /\ d.terminal = e.terminal
    <3>1. i + 1 \in Nat
      BY <1>1
    <3> HIDE DEF i
    <3> QED BY <1>0, <1>1, <3>1 DEF Encoders, i
  <2>4. OpenIn(d) = OpenIn(e) \cup {i}
    <3> HIDE DEF d
    <3> QED BY <1>1, <1>4, <2>3 DEF OpenIn
  <2>5. Running(Append(s, a), i + 1, OpenIn(e) \cup {i})
    BY <1>0, AppendStart
  <2>6. Running(Append(Append(s, a), b), i + 1, OpenIn(e) \cup {i})
    BY <2>5, AppendDelta
  <2>7. s \o <<a, b>> = Append(Append(s, a), b) /\ <<a, b>> \in Seq(Sse)
    BY <1>0, <2>2, Joined
  <2>8. Distinct(d)
    <3>1. \A t \in DOMAIN e.tools : e.tools[t].index \in Nat
      BY <1>1, ToolMapFacts
    <3> HIDE DEF d
    <3> QED BY <1>0, <1>1, <2>3, <3>1 DEF Distinct
  <2> HIDE DEF d, a, b
  <2> QED BY <1>0, <2>1, <2>3, <2>4, <2>6, <2>7, <2>8, GoodIntro
<1> QED BY <1>1, <1>2, <1>3, <1>4

LEMMA CloseTextGood ==
  ASSUME NEW e, NEW s, Shows(e, s)
  PROVE  /\ Good(CloseText(e), s)
         /\ CloseText(e).enc = [e EXCEPT !.textOpen = FALSE]
<1>0. /\ e \in Encoders /\ s \in Seq(Sse) /\ Running(s, e.nextIndex, OpenIn(e))
      /\ ~e.terminal /\ Distinct(e)
  BY DEF Shows, Running
<1>1. /\ e.nextIndex \in Nat /\ e.textIndex \in Nat /\ e.textOpen \in BOOLEAN
      /\ e.tools \in ToolMaps
  BY <1>0 DEF Encoders
<1> DEFINE d == [e EXCEPT !.textOpen = FALSE]
           a == BlockStop(e.textIndex)
<1>2. d \in Encoders /\ d.nextIndex = e.nextIndex /\ d.textIndex = e.textIndex
      /\ d.textOpen = FALSE /\ d.tools = e.tools /\ d.terminal = e.terminal
  BY <1>0 DEF Encoders
<1>3. CASE ~e.textOpen
  <2>1. d = e
    BY <1>0, <1>1, <1>3 DEF Encoders
  <2>2. CloseText(e) = Emit(e, <<>>)
    BY <1>3 DEF CloseText
  <2> QED BY <2>1, <2>2, QuietGood DEF Emit
<1>4. CASE e.textOpen
  <2>1. CloseText(e) = Emit(d, <<a>>)
    BY <1>4 DEF CloseText
  <2>2. a \in Sse
    BY <1>1, EventTypes
  <2>3. e.textIndex \in OpenIn(e)
    BY <1>1, <1>4 DEF OpenIn
  <2>4. OpenIn(d) = OpenIn(e) \ {e.textIndex}
    <3> HIDE DEF d
    <3> QED BY <1>0, <1>1, <1>2, <1>4 DEF OpenIn, Distinct
  <2>5. Running(Append(s, a), e.nextIndex, OpenIn(e) \ {e.textIndex})
    BY <1>0, <2>3, AppendStop
  <2>6. s \o <<a>> = Append(s, a) /\ <<a>> \in Seq(Sse)
    BY <1>0, <2>2, Joined
  <2>7. Distinct(d)
    <3> HIDE DEF d
    <3> QED BY <1>0, <1>2 DEF Distinct
  <2> HIDE DEF d, a
  <2>8. Good(CloseText(e), s)
    BY <1>0, <1>2, <2>1, <2>4, <2>5, <2>6, <2>7, GoodIntro
  <2> QED BY <2>1, <2>8 DEF Emit, d
<1> QED BY <1>1, <1>3, <1>4

LEMMA RefusalDoneGood ==
  ASSUME NEW e, NEW s, Shows(e, s), NEW n \in Nat
  PROVE  Good(RefusalDone(e, n), s)
<1> DEFINE r == [e EXCEPT !.stopReason = "refusal"]
           q == [r EXCEPT !.refusalText = n]
<1>1. e \in Encoders /\ ~e.terminal
  BY DEF Shows
<1>2. /\ r \in Encoders /\ r.nextIndex = e.nextIndex /\ r.textOpen = e.textOpen
      /\ r.textIndex = e.textIndex /\ r.tools = e.tools /\ ~r.terminal
  BY <1>1 DEF Encoders, StopReasons
<1>3. Shows(r, s)
  <2> HIDE DEF r
  <2> QED BY <1>2, SameShows
<1>4. /\ q \in Encoders /\ q.nextIndex = e.nextIndex /\ q.textOpen = e.textOpen
      /\ q.textIndex = e.textIndex /\ q.tools = e.tools /\ ~q.terminal
  BY <1>1 DEF Encoders, StopReasons
<1>5. Shows(q, s)
  <2> HIDE DEF r, q
  <2> QED BY <1>4, SameShows
<1>6. RefusalDone(e, n) = IF n = r.refusalText THEN CloseText(r)
                          ELSE IF r.refusalText = 0 THEN TextDelta(q, n) ELSE Fail(r)
  BY DEF RefusalDone
<1> HIDE DEF r, q
<1>7. Good(CloseText(r), s) /\ Good(TextDelta(q, n), s) /\ Good(Fail(r), s)
  BY <1>3, <1>5, CloseTextGood, TextDeltaGood, FailGood
<1> QED BY <1>6, <1>7, Zenon

LEMMA RefusalDeltaGood ==
  ASSUME NEW e, NEW s, Shows(e, s), NEW n \in Nat
  PROVE  Good(TextDelta([e EXCEPT !.stopReason = "refusal", !.refusalText = @ + n], n), s)
<1> DEFINE r == [e EXCEPT !.stopReason = "refusal", !.refusalText = @ + n]
<1>1. e \in Encoders /\ ~e.terminal
  BY DEF Shows
<1>2. /\ r \in Encoders /\ r.nextIndex = e.nextIndex /\ r.textOpen = e.textOpen
      /\ r.textIndex = e.textIndex /\ r.tools = e.tools /\ ~r.terminal
  <2>1. e.refusalText + n \in Nat
    BY <1>1 DEF Encoders
  <2> QED BY <1>1, <2>1 DEF Encoders, StopReasons
<1>3. Shows(r, s)
  <2> HIDE DEF r
  <2> QED BY <1>2, SameShows
<1> HIDE DEF r
<1>4. Good(TextDelta(r, n), s)
  BY <1>3, TextDeltaGood
<1> QED BY <1>4 DEF r

LEMMA ToolAddedGood ==
  ASSUME NEW e, NEW s, Shows(e, s), NEW item \in Int, NEW out \in Nat, NEW n \in Nat
  PROVE  Good(ToolAdded(e, item, out, n), s)
<1>1. CASE item = NoItem \/ Duplicate(e, item, out)
  BY <1>1, FailGood DEF ToolAdded
<1>2. CASE ~(item = NoItem \/ Duplicate(e, item, out))
  <2> DEFINE r == CloseText(e)
             c == r.enc
             i == e.nextIndex
             tool == [output |-> out, index |-> i, args |-> n, closed |-> FALSE]
             d == [c EXCEPT !.nextIndex = @ + 1, !.stopReason = "tool_use",
                            !.tools = AddTool(@, item, tool)]
             a == BlockStart(i)
             b == IF n # 0 THEN <<BlockDelta(i, n)>> ELSE <<>>
             u == s \o r.events
  <2>0. e \in Encoders /\ Distinct(e) /\ ~e.terminal /\ s \in Seq(Sse)
    BY DEF Shows, Running
  <2>1. i \in Nat /\ e.tools \in ToolMaps /\ i + 1 \in Nat
    BY <2>0 DEF Encoders
  <2>2. ToolAdded(e, item, out, n) = Emit(d, r.events \o <<a>> \o b)
    BY <1>2 DEF ToolAdded
  <2>3. Good(r, s) /\ c = [e EXCEPT !.textOpen = FALSE]
    BY CloseTextGood
  <2>4. /\ c \in Encoders /\ c.nextIndex = i /\ c.textOpen = FALSE /\ c.tools = e.tools
        /\ c.terminal = FALSE
    BY <2>0, <2>3 DEF Encoders
  <2>5. Shows(c, u) /\ r.events \in Seq(Sse)
    BY <2>3, <2>4 DEF Good
  <2> HIDE DEF r, u, c
  <2>6. AddTool(e.tools, item, tool) \in ToolMaps
    <3>1. /\ DOMAIN e.tools \in SUBSET Int /\ IsFiniteSet(DOMAIN e.tools)
          /\ e.tools \in [DOMAIN e.tools -> StreamTools]
      BY <2>1, ToolMapFacts
    <3>2. DOMAIN e.tools \cup {item} \in SUBSET Int /\ IsFiniteSet(DOMAIN e.tools \cup {item})
      BY <3>1, FS_AddElement
    <3>3. tool \in StreamTools
      BY <2>1 DEF StreamTools
    <3> HIDE DEF tool
    <3>4. AddTool(e.tools, item, tool) \in [DOMAIN e.tools \cup {item} -> StreamTools]
      BY <3>1, <3>3 DEF AddTool
    <3> QED BY <3>2, <3>4, ToolMapIntro
  <2>7. /\ d \in Encoders /\ d.nextIndex = i + 1 /\ d.textOpen = FALSE
        /\ d.tools = AddTool(e.tools, item, tool) /\ ~d.terminal
    <3> HIDE DEF tool, i
    <3> QED BY <2>1, <2>4, <2>6 DEF Encoders, StopReasons
  <2>8. /\ DOMAIN d.tools = DOMAIN e.tools \cup {item}
        /\ d.tools[item] = tool
        /\ \A t \in DOMAIN e.tools : t # item /\ d.tools[t] = e.tools[t]
    BY <1>2, <2>7 DEF AddTool, Duplicate
  <2>9. \A t \in DOMAIN e.tools : e.tools[t].index \in Nat /\ e.tools[t].output # out
    BY <1>2, <2>1, ToolMapFacts DEF Duplicate
  <2>10. tool.output = out /\ tool.index = i /\ tool.closed = FALSE
    OBVIOUS
  <2> HIDE DEF d, tool
  <2>11. Distinct(d)
    BY <2>0, <2>1, <2>7, <2>8, <2>9, <2>10 DEF Distinct
  <2>12. OpenIn(d) = OpenIn(c) \cup {i}
    BY <2>1, <2>4, <2>7, <2>8, <2>10 DEF OpenIn
  <2>13. Running(Append(u, a), i + 1, OpenIn(d))
    BY <2>4, <2>5, <2>12, AppendStart DEF Shows
  <2>14. a \in Sse /\ <<a>> \in Seq(Sse) /\ u \in Seq(Sse) /\ u \o <<a>> = Append(u, a)
    BY <2>1, <2>5, EventTypes, Joined DEF Shows, Running
  <2>15. b \in Seq(Sse)
    BY <2>1, EventTypes
  <2>16. s \o (r.events \o <<a>> \o b) = Append(u, a) \o b /\ r.events \o <<a>> \o b \in Seq(Sse)
    <3> HIDE DEF a, b
    <3>1. r.events \o <<a>> \in Seq(Sse)
      BY <2>5, <2>14
    <3>2. s \o ((r.events \o <<a>>) \o b) = (s \o (r.events \o <<a>>)) \o b
      BY <2>0, <2>15, <3>1, Assoc, Zenon
    <3>3. s \o (r.events \o <<a>>) = u \o <<a>>
      BY <2>0, <2>5, <2>14, Assoc, Zenon DEF u
    <3>4. (r.events \o <<a>>) \o b \in Seq(Sse)
      BY <2>15, <3>1
    <3> QED BY <2>14, <3>2, <3>3, <3>4
  <2>17. Running(Append(u, a) \o b, i + 1, OpenIn(d))
    <3>1. Append(u, a) \in Seq(Sse)
      BY <2>13 DEF Running
    <3>2. CASE n = 0
      BY <2>13, <3>1, <3>2, ConcatEmptySeq
    <3>3. CASE n # 0
      <4>1. i \in OpenIn(d)
        BY <2>1, <2>12
      <4>2. Running(Append(Append(u, a), BlockDelta(i, n)), i + 1, OpenIn(d))
        BY <2>13, <4>1, AppendDelta
      <4>3. BlockDelta(i, n) \in Sse
        BY <2>1, EventTypes
      <4>4. Append(u, a) \o <<BlockDelta(i, n)>> = Append(Append(u, a), BlockDelta(i, n))
        BY <3>1, <4>3, Joined
      <4> QED BY <3>3, <4>2, <4>4
    <3> QED BY <3>2, <3>3
  <2> HIDE DEF a, b
  <2> QED BY <2>2, <2>7, <2>11, <2>16, <2>17, GoodIntro
<1> QED BY <1>1, <1>2

(* Changing the arguments of a tool, or closing it. *)
Put(e, item, tool) == [e EXCEPT !.tools = [e.tools EXCEPT ![item] = tool]]

LEMMA SetTool ==
  ASSUME NEW e \in Encoders, Distinct(e), NEW item \in DOMAIN e.tools, NEW tool \in StreamTools,
         tool.index = e.tools[item].index, tool.output = e.tools[item].output,
         NEW d, d = Put(e, item, tool)
  PROVE  /\ d \in Encoders /\ Distinct(d)
         /\ d.nextIndex = e.nextIndex /\ d.textOpen = e.textOpen
         /\ d.textIndex = e.textIndex /\ d.terminal = e.terminal
         /\ d.stopReason = e.stopReason /\ d.refusalText = e.refusalText
         /\ DOMAIN d.tools = DOMAIN e.tools
         /\ d.tools[item] = tool
         /\ \A t \in DOMAIN e.tools : /\ d.tools[t].index = e.tools[t].index
                                      /\ d.tools[t].output = e.tools[t].output
         /\ \A t \in DOMAIN e.tools : t # item => d.tools[t] = e.tools[t]
<1> DEFINE f == [e.tools EXCEPT ![item] = tool]
<1>1. e.tools \in ToolMaps
  BY DEF Encoders
<1>2. /\ DOMAIN e.tools \in SUBSET Int /\ IsFiniteSet(DOMAIN e.tools)
      /\ e.tools \in [DOMAIN e.tools -> StreamTools]
  BY <1>1, ToolMapFacts
<1>3. f \in [DOMAIN e.tools -> StreamTools]
  BY <1>2
<1>4. f \in ToolMaps
  BY <1>2, <1>3, ToolMapIntro
<1>5. f[item] = tool /\ \A t \in DOMAIN e.tools : t # item => f[t] = e.tools[t]
  BY <1>2
<1>6. DOMAIN f = DOMAIN e.tools
  BY <1>3
<1>7. d = [e EXCEPT !.tools = f]
  BY DEF Put
<1> HIDE DEF f
<1>8. /\ d \in Encoders /\ d.tools = f
      /\ d.nextIndex = e.nextIndex /\ d.textOpen = e.textOpen
      /\ d.textIndex = e.textIndex /\ d.terminal = e.terminal
      /\ d.stopReason = e.stopReason /\ d.refusalText = e.refusalText
  BY <1>4, <1>7 DEF Encoders
<1>9. \A t \in DOMAIN e.tools : f[t].index = e.tools[t].index /\ f[t].output = e.tools[t].output
  BY <1>5
<1>10. Distinct(d)
  <2>1. \A t, u \in DOMAIN f : f[t].index = f[u].index => t = u
    BY <1>6, <1>9 DEF Distinct
  <2>2. \A t, u \in DOMAIN f : f[t].output = f[u].output => t = u
    BY <1>6, <1>9 DEF Distinct
  <2>3. \A t \in DOMAIN f : f[t].index < d.nextIndex
    BY <1>6, <1>8, <1>9 DEF Distinct
  <2>4. \A t \in DOMAIN f : d.textOpen => f[t].index # d.textIndex
    BY <1>6, <1>8, <1>9 DEF Distinct
  <2> QED BY <1>8, <2>1, <2>2, <2>3, <2>4 DEF Distinct
<1> QED BY <1>5, <1>6, <1>8, <1>9, <1>10

LEMMA ToolDeltaGood ==
  ASSUME NEW e, NEW s, Shows(e, s), NEW item \in DOMAIN e.tools, NEW n \in Nat
  PROVE  Good(ToolDelta(e, item, n), s)
<1>1. CASE e.tools[item].closed
  BY <1>1, FailGood DEF ToolDelta
<1>2. CASE ~e.tools[item].closed /\ n = 0
  BY <1>2, QuietGood DEF ToolDelta
<1>3. CASE ~e.tools[item].closed /\ n # 0
  <2> DEFINE tool == [e.tools[item] EXCEPT !.args = @ + n]
             d == Put(e, item, tool)
             a == BlockDelta(e.tools[item].index, n)
  <2>0. /\ e \in Encoders /\ Distinct(e) /\ ~e.terminal /\ s \in Seq(Sse)
        /\ Running(s, e.nextIndex, OpenIn(e))
    BY DEF Shows, Running
  <2>1. e.tools \in ToolMaps
    BY <2>0 DEF Encoders
  <2>2. /\ e.tools[item].args + n \in Nat /\ e.tools[item].index \in Nat
        /\ e.tools[item] \in StreamTools
    BY <2>1, ToolMapFacts
  <2>3. ToolDelta(e, item, n) = Emit(d, <<a>>)
    BY <1>3 DEF ToolDelta, Put
  <2>4. /\ tool \in StreamTools /\ tool.index = e.tools[item].index
        /\ tool.output = e.tools[item].output /\ ~tool.closed
    BY <1>3, <2>2 DEF StreamTools
  <2> HIDE DEF tool
  <2>5. /\ d \in Encoders /\ Distinct(d)
        /\ d.nextIndex = e.nextIndex /\ d.textOpen = e.textOpen
        /\ d.textIndex = e.textIndex /\ d.terminal = e.terminal
        /\ DOMAIN d.tools = DOMAIN e.tools
        /\ d.tools[item] = tool
        /\ \A t \in DOMAIN e.tools : d.tools[t].index = e.tools[t].index
        /\ \A t \in DOMAIN e.tools : t # item => d.tools[t] = e.tools[t]
    BY <2>0, <2>4, SetTool
  <2> HIDE DEF d
  <2>6. OpenIn(d) = OpenIn(e)
    BY <1>3, <2>4, <2>5 DEF OpenIn
  <2>7. e.tools[item].index \in OpenIn(e)
    BY <1>3, <2>2 DEF OpenIn
  <2>8. Running(Append(s, a), d.nextIndex, OpenIn(d))
    BY <2>0, <2>5, <2>6, <2>7, AppendDelta
  <2>9. s \o <<a>> = Append(s, a) /\ <<a>> \in Seq(Sse)
    BY <2>0, <2>2, EventTypes, Joined
  <2> HIDE DEF a
  <2> QED BY <2>0, <2>3, <2>5, <2>8, <2>9, GoodIntro
<1> QED BY <1>1, <1>2, <1>3

(* What finishTool sends for an open tool. *)
FinalArgs(tool, final) == IF tool.args # 0 THEN tool.args ELSE IF final # 0 THEN final ELSE 1

LastEvents(tool, final) ==
  (IF tool.args = 0 THEN <<BlockDelta(tool.index, FinalArgs(tool, final))>> ELSE <<>>)
    \o <<BlockStop(tool.index)>>

Finished(tool, final) == [tool EXCEPT !.args = FinalArgs(tool, final), !.closed = TRUE]

LEMMA FinishedTool ==
  ASSUME NEW tool \in StreamTools, NEW final \in Nat
  PROVE  /\ Finished(tool, final) \in StreamTools
         /\ Finished(tool, final).index = tool.index
         /\ Finished(tool, final).output = tool.output
         /\ Finished(tool, final).args = FinalArgs(tool, final)
         /\ Finished(tool, final).closed
         /\ FinalArgs(tool, final) \in Nat
<1>1. tool.args \in Nat
  BY DEF StreamTools
<1>2. FinalArgs(tool, final) \in Nat
  BY <1>1 DEF FinalArgs
<1> QED BY <1>2 DEF Finished, StreamTools

(* Finishing an open tool of a running message. *)
LEMMA FinishOpenTool ==
  ASSUME NEW e, NEW s, Shows(e, s), NEW item \in DOMAIN e.tools, NEW final \in Nat,
         ~e.tools[item].closed
  PROVE  /\ Shows(Put(e, item, Finished(e.tools[item], final)),
                  s \o LastEvents(e.tools[item], final))
         /\ LastEvents(e.tools[item], final) \in Seq(Sse)
<1> DEFINE old == e.tools[item]
           tool == Finished(old, final)
           d == Put(e, item, tool)
           n == FinalArgs(old, final)
           a == BlockDelta(old.index, n)
           b == BlockStop(old.index)
<1>0. /\ e \in Encoders /\ Distinct(e) /\ ~e.terminal /\ s \in Seq(Sse)
      /\ Running(s, e.nextIndex, OpenIn(e))
  BY DEF Shows, Running
<1>1. e.tools \in ToolMaps
  BY <1>0 DEF Encoders
<1>2. old.index \in Nat /\ old \in StreamTools
  BY <1>1, ToolMapFacts
<1>3. /\ tool \in StreamTools /\ tool.index = old.index /\ tool.output = old.output
      /\ tool.closed /\ n \in Nat
  BY <1>2, FinishedTool
<1>4. a \in Sse /\ b \in Sse
  BY <1>2, <1>3, EventTypes
<1> HIDE DEF tool, n
<1>5. /\ d \in Encoders /\ Distinct(d)
      /\ d.nextIndex = e.nextIndex /\ d.textOpen = e.textOpen
      /\ d.textIndex = e.textIndex /\ d.terminal = e.terminal
      /\ DOMAIN d.tools = DOMAIN e.tools
      /\ d.tools[item] = tool
      /\ \A t \in DOMAIN e.tools : d.tools[t].index = e.tools[t].index
      /\ \A t \in DOMAIN e.tools : t # item => d.tools[t] = e.tools[t]
  BY <1>0, <1>3, SetTool
<1> HIDE DEF d
<1>6. OpenIn(d) = OpenIn(e) \ {old.index}
  BY <1>0, <1>2, <1>3, <1>5 DEF OpenIn, Distinct
<1>7. old.index \in OpenIn(e)
  BY <1>2 DEF OpenIn
<1>8. CASE old.args = 0
  <2>1. LastEvents(old, final) = <<a, b>>
    <3>1. LastEvents(old, final) = <<a>> \o <<b>>
      BY <1>8 DEF LastEvents, n
    <3> HIDE DEF a, b
    <3>2. <<a>> \o <<b>> = <<a, b>>
      <4>1. <<a>> \in Seq(Sse) /\ <<b>> \in Seq(Sse) /\ <<a, b>> \in Seq(Sse)
        BY <1>4
      <4>2. Len(<<a>> \o <<b>>) = 2 /\ <<a>> \o <<b>> \in Seq(Sse)
        BY <4>1
      <4>3. (<<a>> \o <<b>>)[1] = a /\ (<<a>> \o <<b>>)[2] = b
        BY <4>1
      <4> DEFINE x == <<a>> \o <<b>>
                 y == <<a, b>>
      <4>4. y[1] = a /\ y[2] = b /\ Len(y) = 2
        OBVIOUS
      <4>5. \A i \in 1 .. 2 : i = 1 \/ i = 2
        OBVIOUS
      <4> HIDE DEF x, y
      <4>6. x = y
        BY <4>1, <4>2, <4>3, <4>4, <4>5, SeqEqual DEF x, y
      <4> QED BY <4>6 DEF x, y
    <3> QED BY <3>1, <3>2
  <2>2. Running(Append(s, a), e.nextIndex, OpenIn(e))
    BY <1>0, <1>3, <1>7, AppendDelta
  <2>3. Running(Append(Append(s, a), b), e.nextIndex, OpenIn(d))
    BY <1>6, <1>7, <2>2, AppendStop
  <2>4. s \o <<a, b>> = Append(Append(s, a), b) /\ <<a, b>> \in Seq(Sse)
    BY <1>0, <1>4, Joined
  <2> HIDE DEF a, b, old
  <2>5. Shows(d, Append(Append(s, a), b))
    BY <1>0, <1>5, <2>3 DEF Shows
  <2> QED BY <2>1, <2>4, <2>5 DEF d, old, tool
<1>9. CASE old.args # 0
  <2>1. LastEvents(old, final) = <<>> \o <<b>>
    BY <1>9 DEF LastEvents
  <2>2. <<>> \o <<b>> = <<b>>
    BY <1>4, ConcatEmptySeq
  <2>3. Running(Append(s, b), e.nextIndex, OpenIn(d))
    BY <1>0, <1>6, <1>7, AppendStop
  <2>4. s \o <<b>> = Append(s, b) /\ <<b>> \in Seq(Sse)
    BY <1>0, <1>4, Joined
  <2> HIDE DEF b, old
  <2>5. Shows(d, Append(s, b))
    BY <1>0, <1>5, <2>3 DEF Shows
  <2> QED BY <2>1, <2>2, <2>4, <2>5 DEF d, old, tool
<1> QED BY <1>8, <1>9

LEMMA FinishToolIs ==
  ASSUME NEW e, NEW item, NEW final, ~e.tools[item].closed,
         ~(final # 0 /\ final # e.tools[item].args /\ e.tools[item].args # 0)
  PROVE  FinishTool(e, item, final) = Emit(Put(e, item, Finished(e.tools[item], final)),
                                           LastEvents(e.tools[item], final))
BY DEF FinishTool, Put, Finished, LastEvents, FinalArgs

LEMMA FinishToolGood ==
  ASSUME NEW e, NEW s, Shows(e, s), NEW item \in DOMAIN e.tools, NEW final \in Nat
  PROVE  Good(FinishTool(e, item, final), s)
<1> DEFINE tool == e.tools[item]
<1>1. CASE final # 0 /\ final # tool.args /\ (tool.closed \/ tool.args # 0)
  BY <1>1, FailGood DEF FinishTool
<1>2. CASE ~(final # 0 /\ final # tool.args /\ (tool.closed \/ tool.args # 0)) /\ tool.closed
  BY <1>2, QuietGood DEF FinishTool
<1>3. CASE ~(final # 0 /\ final # tool.args /\ (tool.closed \/ tool.args # 0)) /\ ~tool.closed
  <2> DEFINE d == Put(e, item, Finished(tool, final))
             l == LastEvents(tool, final)
  <2>1. FinishTool(e, item, final) = Emit(d, l)
    BY <1>3, FinishToolIs
  <2>2. Shows(d, s \o l) /\ l \in Seq(Sse)
    BY <1>3, FinishOpenTool
  <2> HIDE DEF d, l
  <2>3. Emit(d, l).enc = d /\ Emit(d, l).events = l
    BY DEF Emit
  <2>4. d \in Encoders /\ ~d.terminal
    BY <2>2 DEF Shows
  <2> QED BY <2>1, <2>2, <2>3, <2>4 DEF Good
<1> QED BY <1>1, <1>2, <1>3

-----------------------------------------------------------------------------
(* What the events carry: the amounts of FaithfulMessage.                  *)

Part(ev, I) == IF ev.type = "content_block_delta" /\ ev.index \in I THEN ev.size ELSE 0

Sums(f, s, I) ==
  /\ f \in [0 .. Len(s) -> Nat]
  /\ f[0] = 0
  /\ \A i \in 1 .. Len(s) : f[i] = f[i - 1] + Part(s[i], I)

LEMMA PartType ==
  ASSUME NEW ev \in Sse, NEW I
  PROVE  Part(ev, I) \in Nat
BY DEF Part, Sse

LEMMA SumIs ==
  ASSUME NEW s \in Seq(Sse), NEW I, NEW f, Sums(f, s, I)
  PROVE  Amount(s, I) = f[Len(s)] /\ f[Len(s)] \in Nat
<1> DEFINE N == Len(s)
           Fix(g) == g = [n \in 0 .. N |-> IF n = 0 THEN 0 ELSE g[n - 1] + Part(s[n], I)]
           c == CHOOSE g : Fix(g)
<1>1. N \in Nat
  OBVIOUS
<1>2. Amount(s, I) = c[N]
  BY DEF Amount, Part
<1>3. Fix(f)
  <2>1. f = [n \in 0 .. N |-> f[n]]
    BY DEF Sums
  <2>2. \A n \in 0 .. N : f[n] = IF n = 0 THEN 0 ELSE f[n - 1] + Part(s[n], I)
    BY DEF Sums
  <2> QED BY <2>1, <2>2
<1>4. Fix(c)
  BY <1>3, Zenon
<1> DEFINE V == {n \in Nat : n <= N => c[n] = f[n]}
<1> HIDE DEF c
<1>5. 0 \in V
  <2>1. 0 \in 0 .. N
    BY <1>1
  <2> QED BY <1>4, <2>1 DEF Sums
<1>6. ASSUME NEW n \in V PROVE n + 1 \in V
  <2> SUFFICES ASSUME n + 1 <= N PROVE c[n + 1] = f[n + 1]
    OBVIOUS
  <2>1. n \in Nat /\ n + 1 \in 0 .. N /\ n + 1 \in 1 .. N /\ (n + 1) - 1 = n /\ n + 1 # 0 /\ n <= N
    BY <1>1
  <2>2. c[n] = f[n]
    BY <2>1
  <2>3. c[n + 1] = c[(n + 1) - 1] + Part(s[n + 1], I)
    BY <1>4, <2>1
  <2>4. f[n + 1] = f[(n + 1) - 1] + Part(s[n + 1], I)
    BY <2>1 DEF Sums
  <2> QED BY <2>1, <2>2, <2>3, <2>4
<1>7. V = Nat
  <2>1. V \in SUBSET Nat
    OBVIOUS
  <2> HIDE DEF V
  <2> QED BY <1>5, <1>6, <2>1, NumberInduction
<1>8. c[N] = f[N]
  BY <1>1, <1>7
<1>9. f[N] \in Nat
  BY <1>1 DEF Sums
<1> QED BY <1>2, <1>8, <1>9

LEMMA SumAppend ==
  ASSUME NEW s \in Seq(Sse), NEW ev \in Sse, NEW I, NEW f, Sums(f, s, I)
  PROVE  LET g == [i \in 0 .. Len(s) + 1 |-> IF i = Len(s) + 1 THEN f[Len(s)] + Part(ev, I) ELSE f[i]] IN
         Sums(g, Append(s, ev), I) /\ g[Len(s) + 1] = f[Len(s)] + Part(ev, I)
<1> DEFINE N == Len(s)
           t == Append(s, ev)
           g == [i \in 0 .. N + 1 |-> IF i = N + 1 THEN f[N] + Part(ev, I) ELSE f[i]]
<1>1. /\ N \in Nat /\ Len(t) = N + 1 /\ t[N + 1] = ev /\ \A i \in 1 .. N : t[i] = s[i]
  OBVIOUS
<1>2. f \in [0 .. N -> Nat] /\ f[0] = 0 /\ \A i \in 1 .. N : f[i] = f[i - 1] + Part(s[i], I)
  BY DEF Sums
<1>3. Part(ev, I) \in Nat
  BY PartType
<1> HIDE DEF N, t
<1>4. f[N] + Part(ev, I) \in Nat
  BY <1>1, <1>2, <1>3
<1>5. g \in [0 .. N + 1 -> Nat]
  BY <1>1, <1>2, <1>4
<1>6. g[0] = 0 /\ g[N + 1] = f[N] + Part(ev, I)
  BY <1>1, <1>2
<1>7. \A i \in 1 .. N + 1 : g[i] = g[i - 1] + Part(t[i], I)
  <2> TAKE i \in 1 .. N + 1
  <2>1. CASE i = N + 1
    <3>1. i - 1 = N /\ N \in 0 .. N + 1 /\ N # N + 1
      BY <1>1, <2>1
    <3>2. g[i - 1] = f[N]
      BY <3>1
    <3> QED BY <1>1, <1>6, <2>1, <3>2
  <2>2. CASE i # N + 1
    <3>1. i \in 1 .. N /\ i \in 0 .. N + 1 /\ i - 1 \in 0 .. N + 1 /\ i - 1 # N + 1
      BY <1>1, <2>2
    <3>2. g[i] = f[i] /\ g[i - 1] = f[i - 1]
      BY <2>2, <3>1
    <3> QED BY <1>1, <1>2, <3>1, <3>2
  <2> QED BY <2>1, <2>2
<1> HIDE DEF g
<1>8. Sums(g, t, I)
  BY <1>1, <1>5, <1>6, <1>7 DEF Sums
<1> QED BY <1>6, <1>8 DEF g, N, t

LEMMA SumEmpty ==
  ASSUME NEW I
  PROVE  Sums([i \in 0 .. 0 |-> 0], <<>>, I)
<1>1. Len(<<>>) = 0
  OBVIOUS
<1>2. \A i \in 1 .. 0 : FALSE
  OBVIOUS
<1> QED BY <1>1, <1>2 DEF Sums

(* There is such a function for every prefix of s. *)
LEMMA SumExists ==
  ASSUME NEW s \in Seq(Sse), NEW I
  PROVE  \E f : Sums(f, s, I)
<1> DEFINE V == {n \in Nat : n <= Len(s) => \E f : Sums(f, SubSeq(s, 1, n), I)}
<1>0. Len(s) \in Nat
  OBVIOUS
<1>1. 0 \in V
  <2>1. SubSeq(s, 1, 0) = <<>>
    OBVIOUS
  <2>2. \E f : Sums(f, SubSeq(s, 1, 0), I)
    BY <2>1, SumEmpty
  <2> QED BY <2>2
<1>2. ASSUME NEW n \in V PROVE n + 1 \in V
  <2> SUFFICES ASSUME n + 1 <= Len(s) PROVE \E f : Sums(f, SubSeq(s, 1, n + 1), I)
    OBVIOUS
  <2>1. n \in Nat /\ n <= Len(s) /\ n + 1 \in 1 .. Len(s)
    BY <1>0
  <2> DEFINE p == SubSeq(s, 1, n)
             ev == s[n + 1]
  <2>2. p \in Seq(Sse) /\ ev \in Sse
    BY <2>1
  <2>3. SubSeq(s, 1, n + 1) = Append(p, ev)
    BY <2>1
  <2>4. PICK f : Sums(f, p, I)
    BY <2>1
  <2> HIDE DEF p, ev, V
  <2> DEFINE g == [i \in 0 .. Len(p) + 1 |-> IF i = Len(p) + 1 THEN f[Len(p)] + Part(ev, I) ELSE f[i]]
  <2>5. Sums(g, Append(p, ev), I)
    BY <2>2, <2>4, SumAppend
  <2> HIDE DEF g
  <2> QED BY <2>3, <2>5
<1>3. V = Nat
  <2>1. V \in SUBSET Nat
    OBVIOUS
  <2> HIDE DEF V
  <2> QED BY <1>1, <1>2, <2>1, NumberInduction
<1>4. SubSeq(s, 1, Len(s)) = s
  OBVIOUS
<1>5. \E f : Sums(f, SubSeq(s, 1, Len(s)), I)
  BY <1>0, <1>3
<1> QED BY <1>4, <1>5

LEMMA Amounts ==
  ASSUME NEW s \in Seq(Sse), NEW ev \in Sse, NEW I
  PROVE  /\ Amount(s, I) \in Nat
         /\ Part(ev, I) \in Nat
         /\ Amount(Append(s, ev), I) = Amount(s, I) + Part(ev, I)
<1>1. PICK f : Sums(f, s, I)
  BY SumExists
<1>2. Amount(s, I) = f[Len(s)] /\ f[Len(s)] \in Nat
  BY <1>1, SumIs
<1> DEFINE g == [i \in 0 .. Len(s) + 1 |-> IF i = Len(s) + 1 THEN f[Len(s)] + Part(ev, I) ELSE f[i]]
<1>3. Sums(g, Append(s, ev), I) /\ g[Len(s) + 1] = f[Len(s)] + Part(ev, I)
  BY <1>1, SumAppend
<1> HIDE DEF g
<1>4. Append(s, ev) \in Seq(Sse) /\ Len(Append(s, ev)) = Len(s) + 1
  OBVIOUS
<1>5. Amount(Append(s, ev), I) = g[Len(s) + 1]
  BY <1>3, <1>4, SumIs
<1> QED BY <1>2, <1>3, <1>5, PartType

LEMMA NoAmount == \A I : Amount(<<>>, I) = 0
<1> TAKE I
<1> DEFINE f == [i \in 0 .. 0 |-> 0]
<1>1. Sums(f, <<>>, I) /\ f[0] = 0
  BY SumEmpty
<1>2. <<>> \in Seq(Sse) /\ Len(<<>>) = 0
  OBVIOUS
<1> HIDE DEF f
<1>3. Amount(<<>>, I) = f[0]
  BY <1>1, <1>2, SumIs
<1> QED BY <1>1, <1>3

(* The events s carry the arguments of each tool in the tool's block, text *)
(* of size n in the other blocks, and no block without content.  Blocks    *)
(* that are yet to come may be text or tools, hence the sets Beside(e).    *)
Indices(e) == {e.tools[i].index : i \in DOMAIN e.tools}

Beside(e) ==
  {T \in SUBSET Nat : Indices(e) \subseteq T /\ \A k \in T : k \in Indices(e) \/ k >= e.nextIndex}

Carried(e, s, n) ==
  /\ n \in Nat
  /\ \A i \in DOMAIN e.tools : Amount(s, {e.tools[i].index}) = e.tools[i].args
  /\ \A j \in DOMAIN s : s[j].type = "content_block_start" =>
       s[j].index \in Indices(e) \/ Amount(s, {s[j].index}) > 0
  /\ \A k \in Nat : k >= e.nextIndex => Amount(s, {k}) = 0
  /\ \A T \in Beside(e) : Amount(s, Nat \ T) = n

LEMMA CarriedSame ==
  ASSUME NEW e, NEW s, NEW n, Carried(e, s, n), NEW d, d.nextIndex = e.nextIndex, d.tools = e.tools
  PROVE  Carried(d, s, n)
<1>1. Indices(d) = Indices(e) /\ Beside(d) = Beside(e)
  BY DEF Indices, Beside
<1> QED BY <1>1 DEF Carried

(* The starts of an extended sequence. *)
LEMMA StartsAppend ==
  ASSUME NEW s \in Seq(Sse), NEW ev \in Sse, NEW j \in DOMAIN Append(s, ev)
  PROVE  \/ j \in DOMAIN s /\ Append(s, ev)[j] = s[j]
         \/ Append(s, ev)[j] = ev
<1>1. /\ DOMAIN Append(s, ev) = 1 .. Len(s) + 1 /\ DOMAIN s = 1 .. Len(s) /\ Len(s) \in Nat
      /\ \A k \in 1 .. Len(s) : Append(s, ev)[k] = s[k]
      /\ Append(s, ev)[Len(s) + 1] = ev
  BY Past
<1>2. j \in 1 .. Len(s) \/ j = Len(s) + 1
  BY <1>1
<1> QED BY <1>1, <1>2

(* An event that is neither a start nor a delta. *)
LEMMA CarryQuiet ==
  ASSUME NEW e, NEW s \in Seq(Sse), NEW n, Carried(e, s, n), NEW ev \in Sse,
         ev.type # "content_block_start", ev.type # "content_block_delta"
  PROVE  Carried(e, Append(s, ev), n)
<1>1. \A I : Amount(Append(s, ev), I) = Amount(s, I)
  <2> TAKE I
  <2>1. Part(ev, I) = 0
    BY DEF Part
  <2>2. Amount(s, I) \in Nat /\ Amount(Append(s, ev), I) = Amount(s, I) + Part(ev, I)
    BY Amounts
  <2> QED BY <2>1, <2>2
<1>2. \A j \in DOMAIN Append(s, ev) : Append(s, ev)[j].type = "content_block_start" =>
        j \in DOMAIN s /\ Append(s, ev)[j] = s[j]
  BY StartsAppend
<1> QED BY <1>1, <1>2 DEF Carried

(* A text delta for a block that is no tool's. *)
LEMMA CarryText ==
  ASSUME NEW e, NEW s \in Seq(Sse), NEW n, Carried(e, s, n), NEW i \in Nat, i \notin Indices(e),
         e.nextIndex \in Nat, i < e.nextIndex, NEW k \in Nat
  PROVE  Carried(e, Append(s, BlockDelta(i, k)), n + k)
<1> DEFINE ev == BlockDelta(i, k)
           t == Append(s, ev)
<1>1. ev \in Sse /\ ev.type = "content_block_delta" /\ ev.index = i /\ ev.size = k
  BY EventTypes DEF BlockDelta
<1> HIDE DEF ev
<1>2. \A I : /\ Amount(s, I) \in Nat
             /\ i \notin I => Amount(t, I) = Amount(s, I)
             /\ i \in I => Amount(t, I) = Amount(s, I) + k
  <2> TAKE I
  <2>1. Amount(s, I) \in Nat /\ Amount(t, I) = Amount(s, I) + Part(ev, I)
    BY <1>1, Amounts
  <2>2. Part(ev, I) = IF i \in I THEN k ELSE 0
    BY <1>1 DEF Part
  <2> HIDE DEF t
  <2>3. CASE i \in I
    BY <2>1, <2>2, <2>3
  <2>4. CASE i \notin I
    BY <2>1, <2>2, <2>4
  <2> QED BY <2>1, <2>3, <2>4
<1>3. \A j \in DOMAIN t : t[j].type = "content_block_start" => j \in DOMAIN s /\ t[j] = s[j]
  BY <1>1, StartsAppend
<1> HIDE DEF t
<1>4. n + k \in Nat
  BY DEF Carried
<1>5. \A a \in DOMAIN e.tools : Amount(t, {e.tools[a].index}) = e.tools[a].args
  <2> TAKE a \in DOMAIN e.tools
  <2>1. i \notin {e.tools[a].index}
    BY DEF Indices
  <2> QED BY <1>2, <2>1 DEF Carried
<1>6. \A j \in DOMAIN t : t[j].type = "content_block_start" =>
        t[j].index \in Indices(e) \/ Amount(t, {t[j].index}) > 0
  <2> TAKE j \in DOMAIN t
  <2> HAVE t[j].type = "content_block_start"
  <2>1. j \in DOMAIN s /\ t[j] = s[j]
    BY <1>3
  <2>2. s[j].index \in Indices(e) \/ Amount(s, {s[j].index}) > 0
    BY <2>1 DEF Carried
  <2>3. Amount(t, {s[j].index}) >= Amount(s, {s[j].index}) /\ Amount(s, {s[j].index}) \in Nat
        /\ Amount(t, {s[j].index}) \in Nat
    BY <1>2
  <2> QED BY <2>1, <2>2, <2>3
<1>7. \A m \in Nat : m >= e.nextIndex => Amount(t, {m}) = 0
  <2> TAKE m \in Nat
  <2> HAVE m >= e.nextIndex
  <2>1. i \notin {m}
    OBVIOUS
  <2> QED BY <1>2, <2>1 DEF Carried
<1>8. \A T \in Beside(e) : Amount(t, Nat \ T) = n + k
  <2> TAKE T \in Beside(e)
  <2>1. i \notin T
    BY DEF Beside
  <2>2. i \in Nat \ T
    BY <2>1
  <2> QED BY <1>2, <2>2 DEF Carried
<1> QED BY <1>4, <1>5, <1>6, <1>7, <1>8 DEF Carried, t, ev

(* The first delta of a new text block. *)
LEMMA CarryNewText ==
  ASSUME NEW e, NEW s \in Seq(Sse), NEW n, Carried(e, s, n), e.nextIndex \in Nat,
         \A k \in Indices(e) : k \in Nat /\ k < e.nextIndex,
         NEW d, d.nextIndex = e.nextIndex + 1, d.tools = e.tools, NEW k \in Nat, k # 0
  PROVE  Carried(d, Append(Append(s, BlockStart(e.nextIndex)), BlockDelta(e.nextIndex, k)), n + k)
<1> DEFINE i == e.nextIndex
           st == BlockStart(i)
           ev == BlockDelta(i, k)
           u == Append(s, st)
           t == Append(u, ev)
<1>1. /\ ev \in Sse /\ ev.type = "content_block_delta" /\ ev.index = i /\ ev.size = k
      /\ st \in Sse /\ st.type = "content_block_start" /\ st.index = i
  BY EventTypes DEF BlockDelta, BlockStart
<1> HIDE DEF ev, st
<1>2. u \in Seq(Sse)
  BY <1>1
<1>3. \A I : /\ Amount(s, I) \in Nat
             /\ i \notin I => Amount(t, I) = Amount(s, I)
             /\ i \in I => Amount(t, I) = Amount(s, I) + k
  <2> TAKE I
  <2>1. Amount(s, I) \in Nat /\ Amount(u, I) = Amount(s, I) + Part(st, I)
    BY <1>1, Amounts
  <2> HIDE DEF u
  <2>2. Amount(t, I) = Amount(u, I) + Part(ev, I)
    BY <1>1, <1>2, Amounts
  <2>3. Part(ev, I) = (IF i \in I THEN k ELSE 0) /\ Part(st, I) = 0
    BY <1>1 DEF Part
  <2> HIDE DEF t
  <2>4. CASE i \in I
    BY <2>1, <2>2, <2>3, <2>4
  <2>5. CASE i \notin I
    BY <2>1, <2>2, <2>3, <2>5
  <2> QED BY <2>1, <2>4, <2>5
<1>4. \A j \in DOMAIN t : t[j].type = "content_block_start" =>
        (j \in DOMAIN s /\ t[j] = s[j]) \/ t[j].index = i
  <2> TAKE j \in DOMAIN t
  <2> HAVE t[j].type = "content_block_start"
  <2>1. j \in DOMAIN u /\ t[j] = u[j]
    <3> HIDE DEF u
    <3> QED BY <1>1, <1>2, StartsAppend
  <2>2. (j \in DOMAIN s /\ u[j] = s[j]) \/ u[j] = st
    BY <1>1, <2>1, StartsAppend
  <2> QED BY <1>1, <2>1, <2>2
<1> HIDE DEF t
<1>5. Indices(d) = Indices(e) /\ i \notin Indices(e)
  BY DEF Indices
<1>6. Amount(s, {i}) = 0 /\ Amount(t, {i}) = k
  <2>1. Amount(s, {i}) = 0
    BY DEF Carried
  <2> QED BY <1>3, <2>1
<1>7. n + k \in Nat
  BY DEF Carried
<1>8. \A a \in DOMAIN d.tools : Amount(t, {d.tools[a].index}) = d.tools[a].args
  <2> TAKE a \in DOMAIN d.tools
  <2>1. i \notin {e.tools[a].index}
    BY <1>5 DEF Indices
  <2> QED BY <1>3, <2>1 DEF Carried
<1>9. \A j \in DOMAIN t : t[j].type = "content_block_start" =>
        t[j].index \in Indices(d) \/ Amount(t, {t[j].index}) > 0
  <2> TAKE j \in DOMAIN t
  <2> HAVE t[j].type = "content_block_start"
  <2>1. CASE j \in DOMAIN s /\ t[j] = s[j]
    <3>1. s[j].index \in Indices(e) \/ Amount(s, {s[j].index}) > 0
      BY <2>1 DEF Carried
    <3>2. Amount(t, {s[j].index}) >= Amount(s, {s[j].index}) /\ Amount(s, {s[j].index}) \in Nat
          /\ Amount(t, {s[j].index}) \in Nat
      BY <1>3
    <3> QED BY <1>5, <2>1, <3>1, <3>2
  <2>2. CASE t[j].index = i
    BY <1>6, <2>2
  <2> QED BY <1>4, <2>1, <2>2
<1>10. \A m \in Nat : m >= d.nextIndex => Amount(t, {m}) = 0
  <2> TAKE m \in Nat
  <2> HAVE m >= d.nextIndex
  <2>1. i \notin {m} /\ m >= e.nextIndex
    OBVIOUS
  <2> QED BY <1>3, <2>1 DEF Carried
<1>11. \A T \in Beside(d) : Amount(t, Nat \ T) = n + k
  <2> TAKE T \in Beside(d)
  <2>1. T \in SUBSET Nat /\ Indices(e) \subseteq T /\ \A m \in T : m \in Indices(e) \/ m >= i + 1
    BY <1>5 DEF Beside
  <2>2. T \in Beside(e)
    <3>1. \A m \in T : m \in Indices(e) \/ m >= i
      BY <2>1
    <3> QED BY <2>1, <3>1 DEF Beside
  <2>3. i \in Nat \ T
    BY <1>5, <2>1
  <2> QED BY <1>3, <2>2, <2>3 DEF Carried
<1> QED BY <1>7, <1>8, <1>9, <1>10, <1>11 DEF Carried, t, u, ev, st

(* The block of a new tool starts. *)
LEMMA CarryNewTool ==
  ASSUME NEW e, NEW s \in Seq(Sse), NEW n, Carried(e, s, n), e.nextIndex \in Nat,
         \A k \in Indices(e) : k \in Nat /\ k < e.nextIndex,
         NEW d, d.nextIndex = e.nextIndex + 1, NEW item, item \notin DOMAIN e.tools,
         DOMAIN d.tools = DOMAIN e.tools \cup {item},
         \A t \in DOMAIN e.tools : d.tools[t] = e.tools[t],
         d.tools[item].index = e.nextIndex, d.tools[item].args = 0
  PROVE  Carried(d, Append(s, BlockStart(e.nextIndex)), n)
<1> DEFINE i == e.nextIndex
           ev == BlockStart(i)
           t == Append(s, ev)
<1>1. ev \in Sse /\ ev.type = "content_block_start" /\ ev.index = i
  BY EventTypes DEF BlockStart
<1> HIDE DEF ev
<1>2. \A I : Amount(s, I) \in Nat /\ Amount(t, I) = Amount(s, I)
  <2> TAKE I
  <2>1. Amount(s, I) \in Nat /\ Amount(t, I) = Amount(s, I) + Part(ev, I)
    BY <1>1, Amounts
  <2>2. Part(ev, I) = 0
    BY <1>1 DEF Part
  <2> HIDE DEF t
  <2> QED BY <2>1, <2>2
<1>3. \A j \in DOMAIN t : (j \in DOMAIN s /\ t[j] = s[j]) \/ t[j] = ev
  BY <1>1, StartsAppend
<1> HIDE DEF t
<1>4. Indices(d) = Indices(e) \cup {i}
  BY DEF Indices
<1>5. \A a \in DOMAIN d.tools : Amount(t, {d.tools[a].index}) = d.tools[a].args
  <2> TAKE a \in DOMAIN d.tools
  <2>1. CASE a \in DOMAIN e.tools
    BY <1>2, <2>1 DEF Carried
  <2>2. CASE a = item
    <3>1. Amount(s, {i}) = 0
      BY DEF Carried
    <3> QED BY <1>2, <2>2, <3>1
  <2> QED BY <2>1, <2>2
<1>6. \A j \in DOMAIN t : t[j].type = "content_block_start" =>
        t[j].index \in Indices(d) \/ Amount(t, {t[j].index}) > 0
  BY <1>1, <1>2, <1>3, <1>4 DEF Carried
<1>7. \A m \in Nat : m >= d.nextIndex => Amount(t, {m}) = 0
  <2> TAKE m \in Nat
  <2> HAVE m >= d.nextIndex
  <2>1. m >= e.nextIndex
    OBVIOUS
  <2> QED BY <1>2, <2>1 DEF Carried
<1>8. \A T \in Beside(d) : Amount(t, Nat \ T) = n
  <2> TAKE T \in Beside(d)
  <2>1. T \in SUBSET Nat /\ Indices(d) \subseteq T /\ \A m \in T : m \in Indices(d) \/ m >= i + 1
    BY DEF Beside
  <2>2. T \in Beside(e)
    <3>1. \A m \in T : m \in Indices(e) \/ m >= i
      BY <1>4, <2>1
    <3> QED BY <1>4, <2>1, <3>1 DEF Beside
  <2> QED BY <1>2, <2>2 DEF Carried
<1>9. n \in Nat
  BY DEF Carried
<1> QED BY <1>5, <1>6, <1>7, <1>8, <1>9 DEF Carried, t, ev

(* Arguments for a tool. *)
LEMMA CarryArgs ==
  ASSUME NEW e, NEW s \in Seq(Sse), NEW n, Carried(e, s, n), e.nextIndex \in Nat,
         \A k \in Indices(e) : k \in Nat /\ k < e.nextIndex,
         \A t, u \in DOMAIN e.tools : e.tools[t].index = e.tools[u].index => t = u,
         NEW d, d.nextIndex = e.nextIndex, DOMAIN d.tools = DOMAIN e.tools, NEW item \in DOMAIN e.tools,
         \A t \in DOMAIN e.tools : d.tools[t].index = e.tools[t].index,
         \A t \in DOMAIN e.tools : t # item => d.tools[t].args = e.tools[t].args,
         NEW k \in Nat, d.tools[item].args = e.tools[item].args + k
  PROVE  Carried(d, Append(s, BlockDelta(e.tools[item].index, k)), n)
<1> DEFINE i == e.tools[item].index
           ev == BlockDelta(i, k)
           t == Append(s, ev)
<1>0. i \in Nat /\ i < e.nextIndex /\ i \in Indices(e)
  BY DEF Indices
<1>1. ev \in Sse /\ ev.type = "content_block_delta" /\ ev.index = i /\ ev.size = k
  BY <1>0, EventTypes DEF BlockDelta
<1> HIDE DEF ev
<1>2. \A I : /\ Amount(s, I) \in Nat
             /\ i \notin I => Amount(t, I) = Amount(s, I)
             /\ i \in I => Amount(t, I) = Amount(s, I) + k
  <2> TAKE I
  <2>1. Amount(s, I) \in Nat /\ Amount(t, I) = Amount(s, I) + Part(ev, I)
    BY <1>1, Amounts
  <2>2. Part(ev, I) = IF i \in I THEN k ELSE 0
    BY <1>1 DEF Part
  <2> HIDE DEF t, i
  <2>3. CASE i \in I
    BY <2>1, <2>2, <2>3
  <2>4. CASE i \notin I
    BY <2>1, <2>2, <2>4
  <2> QED BY <2>1, <2>3, <2>4
<1>3. \A j \in DOMAIN t : t[j].type = "content_block_start" => j \in DOMAIN s /\ t[j] = s[j]
  BY <1>1, StartsAppend
<1> HIDE DEF t
<1>4. Indices(d) = Indices(e) /\ Beside(d) = Beside(e)
  <2>1. Indices(d) = Indices(e)
    BY DEF Indices
  <2> QED BY <2>1 DEF Beside
<1>5. \A a \in DOMAIN d.tools : Amount(t, {d.tools[a].index}) = d.tools[a].args
  <2> TAKE a \in DOMAIN d.tools
  <2>1. Amount(s, {e.tools[a].index}) = e.tools[a].args
    BY DEF Carried
  <2>2. CASE a = item
    <3>1. Amount(t, {i}) = Amount(s, {i}) + k
      BY <1>2
    <3> QED BY <2>1, <2>2, <3>1
  <2>3. CASE a # item
    <3>1. i \notin {e.tools[a].index}
      BY <2>3
    <3>2. Amount(t, {e.tools[a].index}) = Amount(s, {e.tools[a].index})
      BY <1>2, <3>1
    <3> QED BY <2>1, <2>3, <3>2
  <2> QED BY <2>2, <2>3
<1>6. \A j \in DOMAIN t : t[j].type = "content_block_start" =>
        t[j].index \in Indices(d) \/ Amount(t, {t[j].index}) > 0
  <2> TAKE j \in DOMAIN t
  <2> HAVE t[j].type = "content_block_start"
  <2>1. j \in DOMAIN s /\ t[j] = s[j]
    BY <1>3
  <2>2. s[j].index \in Indices(e) \/ Amount(s, {s[j].index}) > 0
    BY <2>1 DEF Carried
  <2> HIDE DEF i
  <2>3. Amount(t, {s[j].index}) >= Amount(s, {s[j].index}) /\ Amount(s, {s[j].index}) \in Nat
        /\ Amount(t, {s[j].index}) \in Nat
    BY <1>2
  <2> QED BY <1>4, <2>1, <2>2, <2>3
<1>7. \A m \in Nat : m >= d.nextIndex => Amount(t, {m}) = 0
  <2> TAKE m \in Nat
  <2> HAVE m >= d.nextIndex
  <2>1. i \notin {m} /\ m >= e.nextIndex
    BY <1>0
  <2> QED BY <1>2, <2>1 DEF Carried
<1>8. \A T \in Beside(d) : Amount(t, Nat \ T) = n
  <2> TAKE T \in Beside(d)
  <2>1. T \in Beside(e) /\ i \notin Nat \ T
    BY <1>0, <1>4 DEF Beside
  <2> QED BY <1>2, <2>1 DEF Carried
<1>9. n \in Nat
  BY DEF Carried
<1> QED BY <1>5, <1>6, <1>7, <1>8, <1>9 DEF Carried, t, ev

(* Closing a tool whose arguments were sent. *)
LEMMA CarryPut ==
  ASSUME NEW e, NEW s, NEW n, Carried(e, s, n),
         NEW d, d.nextIndex = e.nextIndex, DOMAIN d.tools = DOMAIN e.tools,
         \A t \in DOMAIN e.tools : d.tools[t].index = e.tools[t].index /\ d.tools[t].args = e.tools[t].args
  PROVE  Carried(d, s, n)
<1>1. Indices(d) = Indices(e)
  BY DEF Indices
<1>2. Beside(d) = Beside(e)
  BY <1>1 DEF Beside
<1> QED BY <1>1, <1>2 DEF Carried

LEMMA BlockIndices ==
  ASSUME NEW e \in Encoders, Distinct(e)
  PROVE  /\ e.nextIndex \in Nat
         /\ \A k \in Indices(e) : k \in Nat /\ k < e.nextIndex
         /\ \A t, u \in DOMAIN e.tools : e.tools[t].index = e.tools[u].index => t = u
<1>1. e.tools \in ToolMaps /\ e.nextIndex \in Nat
  BY DEF Encoders
<1>2. \A t \in DOMAIN e.tools : e.tools[t].index \in Nat /\ e.tools[t].index < e.nextIndex
  BY <1>1, ToolMapFacts DEF Distinct
<1> QED BY <1>1, <1>2 DEF Indices, Distinct

LEMMA FinishOpenToolCarries ==
  ASSUME NEW e, NEW s, Shows(e, s), NEW n, Carried(e, s, n), NEW item \in DOMAIN e.tools,
         NEW final \in Nat, ~e.tools[item].closed
  PROVE  Carried(Put(e, item, Finished(e.tools[item], final)), s \o LastEvents(e.tools[item], final), n)
<1> DEFINE old == e.tools[item]
           tool == Finished(old, final)
           d == Put(e, item, tool)
           w == FinalArgs(old, final)
           a == BlockDelta(old.index, w)
           b == BlockStop(old.index)
<1>0. e \in Encoders /\ Distinct(e) /\ s \in Seq(Sse)
  BY DEF Shows, Running
<1>1. old.index \in Nat /\ old \in StreamTools /\ old.args \in Nat
  <2>1. e.tools \in ToolMaps
    BY <1>0 DEF Encoders
  <2> QED BY <2>1, ToolMapFacts
<1>2. /\ tool \in StreamTools /\ tool.index = old.index /\ tool.output = old.output
      /\ tool.args = w /\ w \in Nat
  BY <1>1, FinishedTool
<1>3. a \in Sse /\ b \in Sse /\ b.type = "content_block_stop"
  BY <1>1, <1>2, EventTypes DEF BlockStop
<1>4. old.args # 0 => w = old.args
  BY DEF FinalArgs
<1> HIDE DEF tool, w
<1>5. /\ d.nextIndex = e.nextIndex
      /\ DOMAIN d.tools = DOMAIN e.tools /\ d.tools[item] = tool
      /\ \A t \in DOMAIN e.tools : d.tools[t].index = e.tools[t].index
      /\ \A t \in DOMAIN e.tools : t # item => d.tools[t] = e.tools[t]
  BY <1>0, <1>2, SetTool
<1>6. /\ e.nextIndex \in Nat
      /\ \A k \in Indices(e) : k \in Nat /\ k < e.nextIndex
      /\ \A t, u \in DOMAIN e.tools : e.tools[t].index = e.tools[u].index => t = u
  BY <1>0, BlockIndices
<1> HIDE DEF d
<1>7. CASE old.args = 0
  <2>1. LastEvents(old, final) = <<a>> \o <<b>>
    BY <1>7 DEF LastEvents, w
  <2>2. d.tools[item].args = e.tools[item].args + w
    BY <1>2, <1>5, <1>7
  <2>3. Carried(d, Append(s, a), n)
    BY <1>0, <1>2, <1>5, <1>6, <2>2, CarryArgs
  <2> HIDE DEF a, b
  <2>4. Append(s, a) \in Seq(Sse) /\ <<a>> \in Seq(Sse) /\ <<b>> \in Seq(Sse)
    BY <1>0, <1>3
  <2>5. s \o (<<a>> \o <<b>>) = (s \o <<a>>) \o <<b>>
    BY <1>0, <2>4, Assoc, Zenon
  <2>6. s \o <<a>> = Append(s, a)
    BY <1>0, <1>3, Joined
  <2> DEFINE u == Append(s, a)
  <2> HIDE DEF u
  <2>7. u \o <<b>> = Append(u, b)
    BY <1>3, <2>4, Joined DEF u
  <2>8. Carried(d, Append(u, b), n)
    BY <1>3, <2>3, <2>4, CarryQuiet DEF u
  <2> QED BY <2>1, <2>5, <2>6, <2>7, <2>8 DEF u, d, tool
<1>8. CASE old.args # 0
  <2>1. LastEvents(old, final) = <<>> \o <<b>>
    BY <1>8 DEF LastEvents
  <2>2. \A t \in DOMAIN e.tools : d.tools[t].index = e.tools[t].index /\ d.tools[t].args = e.tools[t].args
    <3> TAKE t \in DOMAIN e.tools
    <3>1. CASE t = item
      BY <1>2, <1>4, <1>5, <1>8, <3>1
    <3>2. CASE t # item
      BY <1>5, <3>2
    <3> QED BY <3>1, <3>2
  <2>3. Carried(d, s, n)
    BY <1>5, <2>2, CarryPut
  <2> HIDE DEF b
  <2>4. <<>> \o <<b>> = <<b>> /\ s \o <<b>> = Append(s, b)
    BY <1>0, <1>3, ConcatEmptySeq, Joined
  <2>5. Carried(d, Append(s, b), n)
    BY <1>0, <1>3, <2>3, CarryQuiet
  <2> QED BY <2>1, <2>4, <2>5 DEF d, tool
<1> QED BY <1>7, <1>8

LEMMA CloseTextCarries ==
  ASSUME NEW e, NEW s, Shows(e, s), NEW n, Carried(e, s, n)
  PROVE  Carried(CloseText(e).enc, s \o CloseText(e).events, n)
<1> DEFINE b == BlockStop(e.textIndex)
           d == [e EXCEPT !.textOpen = FALSE]
<1>0. e \in Encoders /\ s \in Seq(Sse) /\ e.textIndex \in Nat
  BY DEF Shows, Running, Encoders
<1>1. b \in Sse /\ b.type = "content_block_stop"
  BY <1>0, EventTypes DEF BlockStop
<1>2. d.tools = e.tools /\ d.nextIndex = e.nextIndex
  BY <1>0 DEF Encoders
<1> HIDE DEF b
<1>3. CASE e.textOpen
  <2>1. CloseText(e).enc = d /\ CloseText(e).events = <<b>>
    BY <1>3 DEF CloseText, Emit, b
  <2> HIDE DEF d
  <2>2. Carried(d, s, n)
    BY <1>2, CarriedSame
  <2>3. Carried(d, Append(s, b), n)
    BY <1>0, <1>1, <2>2, CarryQuiet
  <2>4. s \o <<b>> = Append(s, b)
    BY <1>0, <1>1, Joined
  <2> QED BY <2>1, <2>3, <2>4
<1>4. CASE ~e.textOpen
  <2>1. CloseText(e).enc = e /\ CloseText(e).events = <<>>
    BY <1>4 DEF CloseText, Emit
  <2>2. s \o <<>> = s
    BY <1>0, ConcatEmptySeq
  <2> QED BY <2>1, <2>2
<1> QED BY <1>3, <1>4

Unclosed(e) == {i \in DOMAIN e.tools : ~e.tools[i].closed}

LEMMA OpenToolsInOrder ==
  ASSUME NEW e \in Encoders, Distinct(e)
  PROVE  LET n == Cardinality(Unclosed(e)) IN
         /\ n \in Nat
         /\ OpenTools(e) \in [1 .. n -> Unclosed(e)]
         /\ \A j, k \in 1 .. n : OpenTools(e)[j] = OpenTools(e)[k] => j = k
         /\ \A i \in Unclosed(e) : \E j \in 1 .. n : OpenTools(e)[j] = i
<1> DEFINE S == Unclosed(e)
           n == Cardinality(S)
           key == [i \in S |-> e.tools[i].output]
           Sorted(s) == \A j, k \in DOMAIN s : j < k => e.tools[s[j]].output < e.tools[s[k]].output
           order == OpenTools(e)
<1>1. e.tools \in ToolMaps
  BY DEF Encoders
<1>2. /\ IsFiniteSet(DOMAIN e.tools)
      /\ \A i \in DOMAIN e.tools : e.tools[i].output \in Nat
  BY <1>1, ToolMapFacts
<1>3. IsFiniteSet(S) /\ S \subseteq DOMAIN e.tools
  BY <1>2, FS_Subset DEF Unclosed
<1>4. key \in [S -> Nat]
  BY <1>2, <1>3
<1>5. \A i, j \in S : key[i] = key[j] => i = j
  BY <1>3 DEF Distinct
<1>6. n \in Nat
  BY <1>3, FS_CardinalityType
<1>7. order = CHOOSE s \in [1 .. n -> S] : Sorted(s)
  BY DEF OpenTools, Unclosed
<1> HIDE DEF S, n, order
<1>8. \A s \in [1 .. n -> S] :
        Sorted(s) <=> \A j, k \in DOMAIN s : j < k => key[s[j]] < key[s[k]]
  OBVIOUS
<1> HIDE DEF key
<1>9. \E s \in [1 .. n -> S] : \A j, k \in DOMAIN s : j < k => key[s[j]] < key[s[k]]
  BY <1>3, <1>4, <1>5, InOrder DEF n
<1>10. \E s \in [1 .. n -> S] : Sorted(s)
  <2> HIDE DEF Sorted
  <2> QED BY <1>8, <1>9
<1>11. order \in [1 .. n -> S] /\ Sorted(order)
  <2> HIDE DEF Sorted
  <2> QED BY <1>7, <1>10, Zenon
<1>12. \A j, k \in DOMAIN order : j < k => key[order[j]] < key[order[k]]
  BY <1>8, <1>11
<1>13. /\ \A j, k \in DOMAIN order : order[j] = order[k] => j = k
       /\ \A x \in S : \E j \in DOMAIN order : order[j] = x
  <2>1. order \in [1 .. Cardinality(S) -> S]
    BY <1>11 DEF n
  <2> HIDE DEF Sorted
  <2> QED BY <1>3, <1>4, <1>12, <2>1, OrderReachesAll
<1>14. DOMAIN order = 1 .. n
  BY <1>11
<1> QED BY <1>6, <1>11, <1>13, <1>14 DEF S, n, order

(* The tools once the first of them have been finished. *)
AllFinished(e) ==
  [i \in DOMAIN e.tools |-> IF e.tools[i].closed THEN e.tools[i] ELSE Finished(e.tools[i], 0)]

LEMMA FinishToolsGood ==
  ASSUME NEW e, NEW s, Shows(e, s)
  PROVE  LET r == FinishTools(e) IN
         /\ Shows(r.enc, s \o r.events)
         /\ r.events \in Seq(Sse)
         /\ r.enc = [e EXCEPT !.textOpen = FALSE, !.tools = AllFinished(e)]
         /\ OpenIn(r.enc) = {}
         /\ \A size : Carried(e, s, size) => Carried(r.enc, s \o r.events, size)
<1> DEFINE c == CloseText(e).enc
           evs == CloseText(e).events
           u == s \o evs
           order == OpenTools(e)
           n == Cardinality(Unclosed(e))
           q == [k \in 1 .. n |-> LastEvents(e.tools[order[k]], 0)]
           Tools(k) == [i \in DOMAIN e.tools |-> IF \E m \in 1 .. k : order[m] = i
                                                 THEN Finished(e.tools[i], 0) ELSE e.tools[i]]
           At(k) == [c EXCEPT !.tools = Tools(k)]
<1>0. /\ e \in Encoders /\ Distinct(e) /\ ~e.terminal /\ s \in Seq(Sse)
  BY DEF Shows, Running
<1>1. e.tools \in ToolMaps
  BY <1>0 DEF Encoders
<1>2. \A i \in DOMAIN e.tools : e.tools[i] \in StreamTools /\ e.tools[i].closed \in BOOLEAN
  BY <1>1, ToolMapFacts
<1>3. Good(CloseText(e), s) /\ c = [e EXCEPT !.textOpen = FALSE]
  BY CloseTextGood
<1>4. c \in Encoders /\ c.textOpen = FALSE /\ c.tools = e.tools /\ c.terminal = FALSE
  BY <1>0, <1>3 DEF Encoders
<1>5. Shows(c, u) /\ evs \in Seq(Sse) /\ u \in Seq(Sse)
  BY <1>3, <1>4 DEF Good, Shows, Running
<1>a. \A size : Carried(e, s, size) => Carried(c, u, size)
  BY CloseTextCarries
<1> HIDE DEF c, evs, u
<1>6. /\ n \in Nat
      /\ order \in [1 .. n -> Unclosed(e)]
      /\ \A j, k \in 1 .. n : order[j] = order[k] => j = k
      /\ \A i \in Unclosed(e) : \E j \in 1 .. n : order[j] = i
  BY <1>0, OpenToolsInOrder
<1> HIDE DEF n, order
<1>7. \A k \in 1 .. n : order[k] \in DOMAIN e.tools /\ ~e.tools[order[k]].closed
  BY <1>6 DEF Unclosed
<1>8. \A i \in DOMAIN e.tools : ~e.tools[i].closed => LastEvents(e.tools[i], 0) \in Seq(Sse)
  BY FinishOpenTool
<1>9. q \in Seq(Seq(Sse)) /\ Len(q) = n
  BY <1>6, <1>7, <1>8
<1>10. PICK fl \in [0 .. n -> Seq(Sse)] :
         /\ fl[0] = <<>>
         /\ \A i \in 1 .. n : fl[i] = fl[i - 1] \o q[i]
         /\ FlattenSeq(q) = fl[n]
  <2> HIDE DEF q
  <2> QED BY <1>9, Flattening
<1>11. \A i \in DOMAIN e.tools : ~e.tools[i].closed =>
          /\ FinishTool(e, i, 0).events = LastEvents(e.tools[i], 0)
          /\ FinishTool(e, i, 0).enc.tools[i] = Finished(e.tools[i], 0)
  <2> SUFFICES ASSUME NEW i \in DOMAIN e.tools, ~e.tools[i].closed
               PROVE  /\ FinishTool(e, i, 0).events = LastEvents(e.tools[i], 0)
                      /\ FinishTool(e, i, 0).enc.tools[i] = Finished(e.tools[i], 0)
    OBVIOUS
  <2>1. FinishTool(e, i, 0) = Emit(Put(e, i, Finished(e.tools[i], 0)), LastEvents(e.tools[i], 0))
    BY FinishToolIs
  <2>2. Put(e, i, Finished(e.tools[i], 0)).tools[i] = Finished(e.tools[i], 0)
    BY <1>0 DEF Put, Encoders
  <2> QED BY <2>1, <2>2 DEF Emit
<1>12. \A i \in DOMAIN e.tools : e.tools[i].closed => FinishTool(e, i, 0).enc.tools[i] = e.tools[i]
  BY DEF FinishTool, Emit
<1>13. FinishTools(e) = Emit([c EXCEPT !.tools = AllFinished(e)], evs \o FlattenSeq(q))
  <2>1. [i \in DOMAIN c.tools |-> FinishTool(e, i, 0).enc.tools[i]] = AllFinished(e)
    BY <1>4, <1>11, <1>12 DEF AllFinished
  <2>2. [k \in DOMAIN order |-> FinishTool(e, order[k], 0).events] = q
    BY <1>6, <1>7, <1>11
  <2>3. FinishTools(e) =
          Emit([c EXCEPT !.tools = [i \in DOMAIN c.tools |-> FinishTool(e, i, 0).enc.tools[i]]],
               evs \o FlattenSeq([k \in DOMAIN order |-> FinishTool(e, order[k], 0).events]))
    BY DEF FinishTools, c, evs, order
  <2> QED BY <2>1, <2>2, <2>3
<1> DEFINE Right(d, t) == Shows(d, t) /\ \A size : Carried(e, s, size) => Carried(d, t, size)
           T == {k \in Nat : k <= n => Right(At(k), u \o fl[k])}
<1>14. 0 \in T
  <2>1. Tools(0) = e.tools
    <3>1. \A i \in DOMAIN e.tools : ~\E m \in 1 .. 0 : order[m] = i
      OBVIOUS
    <3>2. Tools(0) = [i \in DOMAIN e.tools |-> e.tools[i]]
      BY <3>1
    <3>3. e.tools \in [DOMAIN e.tools -> StreamTools]
      BY <1>1, ToolMapFacts
    <3> QED BY <3>2, <3>3
  <2>2. At(0) = c
    <3> HIDE DEF Tools
    <3> QED BY <1>4, <2>1 DEF Encoders
  <2>3. u \o fl[0] = u
    BY <1>5, <1>10, ConcatEmptySeq
  <2> HIDE DEF At
  <2> QED BY <1>5, <1>a, <2>2, <2>3
<1>15. ASSUME NEW k \in T PROVE k + 1 \in T
  <2> SUFFICES ASSUME k + 1 <= n PROVE Right(At(k + 1), u \o fl[k + 1])
    OBVIOUS
  <2> DEFINE i == order[k + 1]
             d == At(k)
  <2>1. k \in Nat /\ k <= n /\ k \in 0 .. n /\ k + 1 \in 1 .. n /\ (k + 1) - 1 = k
    BY <1>6
  <2>2. Shows(d, u \o fl[k]) /\ \A size : Carried(e, s, size) => Carried(d, u \o fl[k], size)
    <3> HIDE DEF At
    <3> QED BY <2>1
  <2> HIDE DEF T
  <2>3. i \in DOMAIN e.tools /\ ~e.tools[i].closed
    BY <1>7, <2>1
  <2>4. ~\E m \in 1 .. k : order[m] = i
    BY <1>6, <2>1
  <2>5. d.tools = Tools(k)
    BY <1>4 DEF Encoders
  <2>6. DOMAIN d.tools = DOMAIN e.tools /\ d.tools[i] = e.tools[i]
    BY <2>3, <2>4, <2>5
  <2>7. Tools(k + 1) = [Tools(k) EXCEPT ![i] = Finished(e.tools[i], 0)]
    <3>1. \A j : (\E m \in 1 .. k + 1 : order[m] = j) <=> (\E m \in 1 .. k : order[m] = j) \/ j = i
      BY <2>1
    <3> QED BY <2>3, <3>1
  <2>8. At(k + 1) = Put(d, i, Finished(d.tools[i], 0))
    <3>1. Put(d, i, Finished(d.tools[i], 0)) = [d EXCEPT !.tools = [Tools(k) EXCEPT ![i] = Finished(e.tools[i], 0)]]
      BY <2>5, <2>6 DEF Put
    <3> HIDE DEF Tools
    <3>2. Put(d, i, Finished(d.tools[i], 0)) = [d EXCEPT !.tools = Tools(k + 1)]
      BY <2>7, <3>1
    <3> QED BY <1>4, <3>2 DEF Encoders
  <2> HIDE DEF d, At
  <2>9. Shows(At(k + 1), (u \o fl[k]) \o LastEvents(d.tools[i], 0))
    BY <2>2, <2>3, <2>6, <2>8, FinishOpenTool
  <2>a. ASSUME NEW size, Carried(e, s, size)
        PROVE  Carried(At(k + 1), (u \o fl[k]) \o LastEvents(d.tools[i], 0), size)
    <3>1. Carried(d, u \o fl[k], size)
      BY <2>2, <2>a
    <3> QED BY <2>2, <2>3, <2>6, <2>8, <3>1, FinishOpenToolCarries
  <2>10. LastEvents(d.tools[i], 0) = q[k + 1] /\ q[k + 1] \in Seq(Sse) /\ fl[k] \in Seq(Sse)
    BY <1>8, <2>1, <2>3, <2>6
  <2>11. (u \o fl[k]) \o q[k + 1] = u \o (fl[k] \o q[k + 1])
    <3> HIDE DEF q
    <3> QED BY <1>5, <2>10, Assoc, Zenon
  <2>12. fl[k + 1] = fl[k] \o q[k + 1]
    <3> HIDE DEF q
    <3> QED BY <1>10, <2>1
  <2> QED BY <2>9, <2>a, <2>10, <2>11, <2>12
<1>16. T = Nat
  <2>1. T \in SUBSET Nat
    OBVIOUS
  <2> HIDE DEF T
  <2> QED BY <1>14, <1>15, <2>1, NumberInduction
<1>17. Shows(At(n), u \o fl[n]) /\ \A size : Carried(e, s, size) => Carried(At(n), u \o fl[n], size)
  <2>1. n \in T
    <3> HIDE DEF T
    <3> QED BY <1>6, <1>16
  <2> HIDE DEF At
  <2>2. Right(At(n), u \o fl[n])
    <3> HIDE DEF Right
    <3> QED BY <1>6, <2>1
  <2> QED BY <2>2
<1>18. Tools(n) = AllFinished(e)
  <2>1. \A i \in DOMAIN e.tools : (\E m \in 1 .. n : order[m] = i) <=> ~e.tools[i].closed
    BY <1>6 DEF Unclosed
  <2> QED BY <2>1 DEF AllFinished
<1>19. u \o fl[n] = s \o (evs \o FlattenSeq(q)) /\ evs \o FlattenSeq(q) \in Seq(Sse)
  <2> HIDE DEF q
  <2>1. fl[n] \in Seq(Sse)
    BY <1>6, <1>10
  <2>2. (s \o evs) \o fl[n] = s \o (evs \o fl[n])
    BY <1>0, <1>5, <2>1, Assoc, Zenon
  <2>3. evs \o fl[n] \in Seq(Sse)
    BY <1>5, <2>1
  <2> QED BY <1>10, <2>2, <2>3 DEF u
<1> DEFINE d == [c EXCEPT !.tools = AllFinished(e)]
<1>20. At(n) = d
  <2> HIDE DEF Tools
  <2> QED BY <1>18
<1>21. OpenIn(d) = {}
  <2>1. d.textOpen = FALSE /\ d.tools = AllFinished(e)
    BY <1>4 DEF Encoders
  <2>2. \A i \in DOMAIN e.tools : AllFinished(e)[i].closed
    <3> TAKE i \in DOMAIN e.tools
    <3>1. Finished(e.tools[i], 0).closed
      BY <1>2, FinishedTool
    <3> QED BY <1>2, <3>1 DEF AllFinished
  <2>3. DOMAIN AllFinished(e) = DOMAIN e.tools
    BY DEF AllFinished
  <2> HIDE DEF d
  <2> QED BY <2>1, <2>2, <2>3 DEF OpenIn
<1>22. d = [e EXCEPT !.textOpen = FALSE, !.tools = AllFinished(e)]
  BY <1>0, <1>3 DEF Encoders
<1> HIDE DEF d, At, q
<1>23. FinishTools(e).enc = d /\ FinishTools(e).events = evs \o FlattenSeq(q)
  BY <1>13 DEF Emit, d
<1> QED BY <1>17, <1>19, <1>20, <1>21, <1>22, <1>23

LEMMA FinishGood ==
  ASSUME NEW e, NEW s, Shows(e, s), NEW stop \in StopReasons, NEW bad
  PROVE  Good(Finish(e, stop, bad), s)
<1> DEFINE r == FinishTools(e)
           a == Terminator("message_delta")
           b == Terminator("message_stop")
           d == [r.enc EXCEPT !.stopReason = stop, !.terminal = TRUE, !.success = TRUE]
<1>1. /\ Shows(r.enc, s \o r.events) /\ r.events \in Seq(Sse) /\ OpenIn(r.enc) = {}
  BY FinishToolsGood
<1>2. s \in Seq(Sse)
  BY DEF Shows, Running
<1> HIDE DEF r
<1>3. CASE stop # "max_tokens" /\ bad
  <2>1. Finish(e, stop, bad) = Fail(r.enc)
    BY <1>3 DEF Finish, r
  <2>2. /\ Fail(r.enc).enc \in Encoders /\ Fail(r.enc).enc.terminal
        /\ Fail(r.enc).events = <<Terminator("error")>>
    BY <1>1 DEF Fail, Emit, Shows, Encoders
  <2>3. s \o <<Terminator("error")>> = Append(s, Terminator("error"))
         /\ <<Terminator("error")>> \in Seq(Sse)
    BY <1>2, Joined, EventTypes
  <2>4. Over(Append(s, Terminator("error")))
    BY AppendError DEF Shows
  <2> QED BY <2>1, <2>2, <2>3, <2>4 DEF Good
<1>4. CASE ~(stop # "max_tokens" /\ bad)
  <2>1. Finish(e, stop, bad) = Emit(d, r.events \o <<a, b>>)
    BY <1>4 DEF Finish, r
  <2>2. d \in Encoders /\ d.terminal
    BY <1>1 DEF Shows, Encoders
  <2>3. a \in Sse /\ b \in Sse /\ s \o r.events \in Seq(Sse)
    BY <1>1, EventTypes DEF Shows, Running
  <2>4. Over(Append(Append(s \o r.events, a), b))
    BY <1>1, AppendEnd DEF Shows
  <2> HIDE DEF d, a, b
  <2>5. <<a, b>> \in Seq(Sse) /\ (s \o r.events) \o <<a, b>> = Append(Append(s \o r.events, a), b)
    BY <2>3, Joined
  <2>6. s \o (r.events \o <<a, b>>) = (s \o r.events) \o <<a, b>> /\ r.events \o <<a, b>> \in Seq(Sse)
    <3>1. (s \o r.events) \o <<a, b>> = s \o (r.events \o <<a, b>>)
      BY <1>1, <1>2, <2>5, Assoc, Zenon
    <3>2. r.events \o <<a, b>> \in Seq(Sse)
      BY <1>1, <2>5
    <3> QED BY <3>1, <3>2
  <2>7. Emit(d, r.events \o <<a, b>>).enc = d /\ Emit(d, r.events \o <<a, b>>).events = r.events \o <<a, b>>
    BY DEF Emit
  <2> QED BY <2>1, <2>2, <2>4, <2>5, <2>6, <2>7 DEF Good
<1> QED BY <1>3, <1>4

(* A truncated message always ends well. *)
LEMMA FinishTruncatedGood ==
  ASSUME NEW e, NEW s, Shows(e, s), NEW bad
  PROVE  Good(FinishTruncated(e, bad), s)
<1> DEFINE r == Finish(e, "max_tokens", bad)
           d == [r.enc EXCEPT !.success = FALSE]
<1>1. Good(r, s)
  BY FinishGood DEF StopReasons
<1>2. r.enc.terminal
  <2> DEFINE f == FinishTools(e).enc
  <2>1. f \in Encoders
    BY FinishToolsGood DEF Shows
  <2>2. r.enc = [f EXCEPT !.stopReason = "max_tokens", !.terminal = TRUE, !.success = TRUE]
    BY DEF Finish, Emit
  <2> HIDE DEF f, r
  <2> QED BY <2>1, <2>2 DEF Encoders
<1>3. FinishTruncated(e, bad) = Emit(d, r.events)
  BY DEF FinishTruncated
<1> HIDE DEF r
<1>4. d \in Encoders /\ d.terminal
  BY <1>1, <1>2 DEF Good, Encoders
<1> HIDE DEF d
<1> QED BY <1>1, <1>2, <1>3, <1>4 DEF Good, Emit

WireTypes ==
  {"created", "completed", "incomplete", "failed",
   "output_item.added", "content_part.added",
   "output_text.delta", "refusal.delta", "reasoning_text.delta", "function_call_arguments.delta",
   "output_text.done", "refusal.done", "reasoning_text.done", "function_call_arguments.done",
   "content_part.done", "output_item.done"}

Kinds == {"", "message", "reasoning", "function_call"}

WireEvents ==
  {ev \in [type : WireTypes, kind : Kinds, item : Int, output : Int, size : Nat] :
     ev.kind = "function_call" => ev.output \in Nat}

(* The tool an event is about. *)
LEMMA ToolGood ==
  ASSUME NEW e, NEW s, Shows(e, s), NEW ev \in WireEvents
  PROVE  /\ Good(WithTool(e, ev, ToolDelta), s)
         /\ Good(WithTool(e, ev, FinishTool), s)
<1> DEFINE found == FindTool(e, ev.item, ev.output)
           i == CHOOSE i \in found : TRUE
<1>0. ev.size \in Nat
  BY DEF WireEvents
<1>1. CASE found = {}
  BY <1>1, FailGood DEF WithTool
<1>2. CASE found # {}
  <2>1. i \in DOMAIN e.tools
    BY <1>2 DEF FindTool
  <2>2. WithTool(e, ev, ToolDelta) = ToolDelta(e, i, ev.size)
    BY <1>2 DEF WithTool
  <2>3. WithTool(e, ev, FinishTool) = FinishTool(e, i, ev.size)
    BY <1>2 DEF WithTool
  <2> HIDE DEF i
  <2>4. Good(ToolDelta(e, i, ev.size), s)
    BY <1>0, <2>1, ToolDeltaGood
  <2>5. Good(FinishTool(e, i, ev.size), s)
    BY <1>0, <2>1, FinishToolGood
  <2> QED BY <2>2, <2>3, <2>4, <2>5
<1> QED BY <1>1, <1>2

LEMMA EncodeGood ==
  ASSUME NEW e, NEW s, Shows(e, s), NEW ev \in WireEvents, NEW bad
  PROVE  Good(Encode(e, ev, bad), s)
<1>0. /\ ev.size \in Nat /\ ev.item \in Int
      /\ ev.kind = "function_call" => ev.output \in Nat
  BY DEF WireEvents
<1>1. CASE ev.type = "output_text.delta"
  BY <1>0, <1>1, TextDeltaGood DEF Encode
<1>2. CASE ev.type = "refusal.delta"
  BY <1>0, <1>2, RefusalDeltaGood DEF Encode
<1>3. CASE ev.type = "refusal.done"
  BY <1>0, <1>3, RefusalDoneGood DEF Encode
<1>4. CASE ev.type \in {"output_text.done", "content_part.done"}
  BY <1>4, CloseTextGood DEF Encode
<1>5. CASE ev.type = "output_item.added" /\ ev.kind = "function_call"
  BY <1>0, <1>5, ToolAddedGood DEF Encode
<1>6. CASE ev.type = "function_call_arguments.delta"
  <2>1. Encode(e, ev, bad) = WithTool(e, ev, ToolDelta)
    BY <1>6 DEF Encode
  <2> QED BY <2>1, ToolGood
<1>7. CASE ev.type = "function_call_arguments.done"
  <2>1. Encode(e, ev, bad) = WithTool(e, ev, FinishTool)
    BY <1>7 DEF Encode
  <2> QED BY <2>1, ToolGood
<1>8. CASE ev.type = "output_item.done" /\ ev.kind = "function_call"
  <2>1. Encode(e, ev, bad) = WithTool(e, ev, FinishTool)
    BY <1>8 DEF Encode
  <2> QED BY <2>1, ToolGood
<1>9. CASE ev.type = "completed"
  <2>1. e.stopReason \in StopReasons
    BY DEF Shows, Encoders
  <2>2. Encode(e, ev, bad) = Finish(e, e.stopReason, bad)
    BY <1>9 DEF Encode
  <2> QED BY <2>1, <2>2, FinishGood
<1>10. CASE ev.type = "incomplete"
  <2>1. Encode(e, ev, bad) = FinishTruncated(e, bad)
    BY <1>10 DEF Encode
  <2> QED BY <2>1, FinishTruncatedGood
<1>11. CASE ev.type = "failed"
  BY <1>11, FailGood DEF Encode
<1>12. CASE /\ ev.type \notin {"output_text.delta", "refusal.delta", "refusal.done",
                               "output_text.done", "content_part.done",
                               "function_call_arguments.delta", "function_call_arguments.done",
                               "completed", "incomplete", "failed"}
            /\ ~(ev.type = "output_item.added" /\ ev.kind = "function_call")
            /\ ~(ev.type = "output_item.done" /\ ev.kind = "function_call")
  <2>1. Encode(e, ev, bad) = Emit(e, <<>>)
    BY <1>12 DEF Encode
  <2> QED BY <2>1, QuietGood
<1> QED BY <1>1, <1>2, <1>3, <1>4, <1>5, <1>6, <1>7, <1>8, <1>9, <1>10, <1>11, <1>12

-----------------------------------------------------------------------------
(* The adapter's events A: which items are added and done.                 *)

Adds(A, m, item) == A[m].type = "output_item.added" /\ A[m].item = item
Ends(A, m, item) == A[m].type = "output_item.done" /\ A[m].item = item

AddsTo(A, n) == {m \in 1 .. n : A[m].type = "output_item.added"}

LastTypes == {"completed", "incomplete"}

(* Event j fits the events before it. *)
Fits(A, j) ==
  LET ev == A[j] IN
  /\ ev.type = "output_item.added" =>
       /\ ev.output = Cardinality(AddsTo(A, j - 1))
       /\ \A m \in 1 .. j - 1 : ~Adds(A, m, ev.item)
       /\ (\E m \in 1 .. j - 1 : Adds(A, m, ReasoningItem)) =>
            \E m \in 1 .. j - 1 : Ends(A, m, ReasoningItem)
  /\ ev.item # 0 /\ ev.type # "output_item.added" =>
       /\ \E m \in 1 .. j - 1 : Adds(A, m, ev.item) /\ A[m].output = ev.output
       /\ \A m \in 1 .. j - 1 : ~Ends(A, m, ev.item)
  /\ ev.type \in LastTypes =>
       \A m \in 1 .. j - 1 : A[m].type = "output_item.added" =>
         \E k \in 1 .. j - 1 : Ends(A, k, A[m].item)

(* out holds the output indices of the items added, done the items done. *)
Told(A, out, done) ==
  /\ A \in Seq(WireEvents)
  /\ \A j \in DOMAIN A : Fits(A, j)
  /\ \A j \in DOMAIN A : A[j].type \notin LastTypes
  /\ IsFiniteSet(DOMAIN out)
  /\ Cardinality(AddsTo(A, Len(A))) = Cardinality(DOMAIN out)
  /\ \A j \in DOMAIN A : A[j].type = "output_item.added" => A[j].item \in DOMAIN out
  /\ \A i \in DOMAIN out : \E j \in DOMAIN A : Adds(A, j, i) /\ A[j].output = out[i]
  /\ \A j \in DOMAIN A : A[j].type = "output_item.done" => A[j].item \in done
  /\ \A i \in done : \E j \in DOMAIN A : Ends(A, j, i)

ToldAll(A) ==
  /\ A \in Seq(WireEvents)
  /\ \A j \in DOMAIN A : Fits(A, j)
  /\ \A j \in DOMAIN A : A[j].type \in LastTypes => j = Len(A)

(* B is A and one event more; what is appended leaves the past alone. *)
Grown(A, ev, B) ==
  /\ B \in Seq(WireEvents)
  /\ Len(B) = Len(A) + 1
  /\ DOMAIN A = 1 .. Len(A)
  /\ Len(A) \in Nat
  /\ \A j \in DOMAIN A : B[j] = A[j]
  /\ B[Len(A) + 1] = ev
  /\ \A j : j \in DOMAIN B <=> j \in DOMAIN A \/ j = Len(A) + 1
  /\ AddsTo(B, Len(A)) = AddsTo(A, Len(A))
  /\ \A j \in DOMAIN A : Fits(B, j) <=> Fits(A, j)

LEMMA PastEvents ==
  ASSUME NEW A \in Seq(WireEvents), NEW ev \in WireEvents
  PROVE  Grown(A, ev, Append(A, ev))
<1> DEFINE B == Append(A, ev)
<1>1. /\ B \in Seq(WireEvents)
      /\ Len(B) = Len(A) + 1
      /\ DOMAIN B = 1 .. Len(A) + 1
      /\ DOMAIN A = 1 .. Len(A)
      /\ Len(A) \in Nat
      /\ \A j \in DOMAIN A : B[j] = A[j]
      /\ B[Len(A) + 1] = ev
  OBVIOUS
<1> HIDE DEF B
<1>2. \A j : j \in DOMAIN B <=> j \in DOMAIN A \/ j = Len(A) + 1
  BY <1>1
<1>3. \A n \in 0 .. Len(A) : \A j \in 1 .. n : B[j] = A[j]
  BY <1>1
<1>4. \A n \in 0 .. Len(A) : AddsTo(B, n) = AddsTo(A, n)
  BY <1>3 DEF AddsTo
<1>5. AddsTo(B, Len(A)) = AddsTo(A, Len(A))
  BY <1>1, <1>4
<1>6. ASSUME NEW j \in DOMAIN A PROVE Fits(B, j) <=> Fits(A, j)
  <2>1. j - 1 \in 0 .. Len(A) /\ B[j] = A[j] /\ AddsTo(B, j - 1) = AddsTo(A, j - 1)
    BY <1>1, <1>4
  <2>2. \A m \in 1 .. j - 1 : B[m] = A[m]
    BY <1>3, <2>1
  <2>3. \A m \in 1 .. j - 1 : \A i : Adds(B, m, i) <=> Adds(A, m, i)
    BY <2>2 DEF Adds
  <2>4. \A m \in 1 .. j - 1 : \A i : Ends(B, m, i) <=> Ends(A, m, i)
    BY <2>2 DEF Ends
  <2>5. Fits(A, j) => Fits(B, j)
    BY <2>1, <2>2, <2>3, <2>4 DEF Fits
  <2>6. Fits(B, j) => Fits(A, j)
    BY <2>1, <2>2, <2>3, <2>4 DEF Fits
  <2> QED BY <2>5, <2>6
<1>7. Grown(A, ev, B)
  BY <1>1, <1>2, <1>5, <1>6 DEF Grown
<1> QED BY <1>7 DEF B

LEMMA TellAdded ==
  ASSUME NEW A, NEW out, NEW done, Told(A, out, done),
         NEW ev \in WireEvents, ev.type = "output_item.added",
         ev.item \notin DOMAIN out, ev.output = Cardinality(DOMAIN out),
         ReasoningItem \in DOMAIN out => ReasoningItem \in done,
         NEW new, DOMAIN new = DOMAIN out \cup {ev.item}, new[ev.item] = ev.output,
         \A i \in DOMAIN out : new[i] = out[i]
  PROVE  Told(Append(A, ev), new, done)
<1> DEFINE B == Append(A, ev)
<1>0. A \in Seq(WireEvents)
  BY DEF Told
<1>1. /\ B \in Seq(WireEvents)
      /\ Len(B) = Len(A) + 1
      /\ DOMAIN A = 1 .. Len(A)
      /\ Len(A) \in Nat
      /\ \A j \in DOMAIN A : B[j] = A[j]
      /\ B[Len(A) + 1] = ev
      /\ \A j : j \in DOMAIN B <=> j \in DOMAIN A \/ j = Len(A) + 1
      /\ AddsTo(B, Len(A)) = AddsTo(A, Len(A))
      /\ \A j \in DOMAIN A : Fits(B, j) <=> Fits(A, j)
  <2>1. Grown(A, ev, B)
    BY <1>0, PastEvents
  <2> HIDE DEF B
  <2> QED BY <2>1 DEF Grown
<1> HIDE DEF B
<1>2. Fits(B, Len(A) + 1)
  <2>1. ev.output = Cardinality(AddsTo(B, Len(A)))
    BY <1>1 DEF Told
  <2>2. \A m \in 1 .. Len(A) : ~Adds(B, m, ev.item)
    BY <1>1 DEF Told, Adds
  <2>3. (\E m \in 1 .. Len(A) : Adds(B, m, ReasoningItem)) =>
          \E m \in 1 .. Len(A) : Ends(B, m, ReasoningItem)
    BY <1>1 DEF Told, Adds, Ends
  <2>4. (Len(A) + 1) - 1 = Len(A)
    BY <1>1
  <2> QED BY <1>1, <2>1, <2>2, <2>3, <2>4 DEF Fits, LastTypes
<1>3. \A j \in DOMAIN B : Fits(B, j)
  BY <1>1, <1>2 DEF Told
<1>4. \A j \in DOMAIN B : B[j].type \notin LastTypes
  BY <1>1 DEF Told, LastTypes
<1>5. IsFiniteSet(DOMAIN out) /\ Cardinality(DOMAIN out) \in Nat
  BY FS_CardinalityType DEF Told
<1>6. IsFiniteSet(DOMAIN new) /\ Cardinality(DOMAIN new) = Cardinality(DOMAIN out) + 1
  <2>1. /\ IsFiniteSet(DOMAIN out \cup {ev.item})
        /\ Cardinality(DOMAIN out \cup {ev.item}) =
             IF ev.item \in DOMAIN out THEN Cardinality(DOMAIN out) ELSE Cardinality(DOMAIN out) + 1
    BY <1>5, FS_AddElement, Zenon
  <2> QED BY <2>1
<1>7. Cardinality(AddsTo(B, Len(B))) = Cardinality(DOMAIN new)
  <2>1. AddsTo(B, Len(B)) = AddsTo(A, Len(A)) \cup {Len(A) + 1}
    BY <1>1 DEF AddsTo
  <2>2. IsFiniteSet(1 .. Len(A)) /\ AddsTo(A, Len(A)) \in SUBSET (1 .. Len(A))
    BY <1>1, FS_Interval DEF AddsTo
  <2>3. IsFiniteSet(AddsTo(A, Len(A)))
    BY <2>2, FS_Subset
  <2>4. Len(A) + 1 \notin AddsTo(A, Len(A))
    BY <1>1, <2>2
  <2>5. Cardinality(AddsTo(A, Len(A))) = Cardinality(DOMAIN out)
    BY DEF Told
  <2>6. Cardinality(AddsTo(A, Len(A)) \cup {Len(A) + 1}) =
          IF Len(A) + 1 \in AddsTo(A, Len(A)) THEN Cardinality(AddsTo(A, Len(A)))
          ELSE Cardinality(AddsTo(A, Len(A))) + 1
    BY <2>3, FS_AddElement, Zenon
  <2> QED BY <1>6, <2>1, <2>4, <2>5, <2>6
<1>8. \A j \in DOMAIN B : B[j].type = "output_item.added" => B[j].item \in DOMAIN new
  BY <1>1 DEF Told
<1>9. \A i \in DOMAIN new : \E j \in DOMAIN B : Adds(B, j, i) /\ B[j].output = new[i]
  <2> TAKE i \in DOMAIN new
  <2>1. CASE i = ev.item
    BY <1>1, <2>1 DEF Adds
  <2>2. CASE i # ev.item
    <3>1. i \in DOMAIN out /\ new[i] = out[i]
      BY <2>2
    <3>2. PICK j \in DOMAIN A : Adds(A, j, i) /\ A[j].output = out[i]
      BY <3>1 DEF Told
    <3> QED BY <1>1, <3>1, <3>2 DEF Adds
  <2> QED BY <2>1, <2>2
<1>10. \A j \in DOMAIN B : B[j].type = "output_item.done" => B[j].item \in done
  BY <1>1 DEF Told
<1>11. \A i \in done : \E j \in DOMAIN B : Ends(B, j, i)
  BY <1>1 DEF Told, Ends
<1>12. Told(B, new, done)
  BY <1>1, <1>3, <1>4, <1>6, <1>7, <1>8, <1>9, <1>10, <1>11 DEF Told
<1> QED BY <1>12 DEF B

(* An event about an item that is open, or about none. *)
LEMMA TellPart ==
  ASSUME NEW A, NEW out, NEW done, Told(A, out, done), NEW ev \in WireEvents,
         ev.type # "output_item.added", ev.type \notin LastTypes,
         ev.item # 0 => ev.item \in DOMAIN out /\ ev.output = out[ev.item] /\ ev.item \notin done,
         NEW over, over = IF ev.type = "output_item.done" THEN done \cup {ev.item} ELSE done
  PROVE  Told(Append(A, ev), out, over)
<1> DEFINE B == Append(A, ev)
<1>0. A \in Seq(WireEvents)
  BY DEF Told
<1>1. /\ B \in Seq(WireEvents)
      /\ Len(B) = Len(A) + 1
      /\ DOMAIN A = 1 .. Len(A)
      /\ Len(A) \in Nat
      /\ \A j \in DOMAIN A : B[j] = A[j]
      /\ B[Len(A) + 1] = ev
      /\ \A j : j \in DOMAIN B <=> j \in DOMAIN A \/ j = Len(A) + 1
      /\ AddsTo(B, Len(A)) = AddsTo(A, Len(A))
      /\ \A j \in DOMAIN A : Fits(B, j) <=> Fits(A, j)
  <2>1. Grown(A, ev, B)
    BY <1>0, PastEvents
  <2> HIDE DEF B
  <2> QED BY <2>1 DEF Grown
<1> HIDE DEF B
<1>2. Fits(B, Len(A) + 1)
  <2>1. CASE ev.item # 0
    <3>1. PICK m \in DOMAIN A : Adds(A, m, ev.item) /\ A[m].output = ev.output
      BY <2>1 DEF Told
    <3>2. Adds(B, m, ev.item) /\ B[m].output = ev.output /\ m \in 1 .. Len(A)
      BY <1>1, <3>1 DEF Adds
    <3>3. \A k \in 1 .. Len(A) : ~Ends(B, k, ev.item)
      BY <1>1, <2>1 DEF Told, Ends
    <3>4. (Len(A) + 1) - 1 = Len(A)
      BY <1>1
    <3> QED BY <1>1, <3>2, <3>3, <3>4 DEF Fits
  <2>2. CASE ev.item = 0
    BY <1>1, <2>2 DEF Fits
  <2> QED BY <2>1, <2>2
<1>3. \A j \in DOMAIN B : Fits(B, j)
  BY <1>1, <1>2 DEF Told
<1>4. \A j \in DOMAIN B : B[j].type \notin LastTypes
  BY <1>1 DEF Told
<1>5. AddsTo(B, Len(B)) = AddsTo(A, Len(A))
  BY <1>1 DEF AddsTo
<1>6. \A j \in DOMAIN B : B[j].type = "output_item.added" => B[j].item \in DOMAIN out
  BY <1>1 DEF Told
<1>7. \A i \in DOMAIN out : \E j \in DOMAIN B : Adds(B, j, i) /\ B[j].output = out[i]
  BY <1>1 DEF Told, Adds
<1>8. \A j \in DOMAIN B : B[j].type = "output_item.done" => B[j].item \in over
  BY <1>1 DEF Told
<1>9. \A i \in over : \E j \in DOMAIN B : Ends(B, j, i)
  <2> TAKE i \in over
  <2>1. CASE i \in done
    BY <1>1, <2>1 DEF Told, Ends
  <2>2. CASE i \notin done
    BY <1>1, <2>2 DEF Ends
  <2> QED BY <2>1, <2>2
<1>10. Told(B, out, over)
  BY <1>1, <1>3, <1>4, <1>5, <1>6, <1>7, <1>8, <1>9 DEF Told
<1> QED BY <1>10 DEF B

LEMMA TellLast ==
  ASSUME NEW A, NEW out, NEW done, Told(A, out, done), DOMAIN out \subseteq done,
         NEW ev \in WireEvents, ev.type \in LastTypes, ev.item = 0
  PROVE  ToldAll(Append(A, ev))
<1> DEFINE B == Append(A, ev)
<1>0. A \in Seq(WireEvents)
  BY DEF Told
<1>1. /\ B \in Seq(WireEvents)
      /\ Len(B) = Len(A) + 1
      /\ DOMAIN A = 1 .. Len(A)
      /\ Len(A) \in Nat
      /\ \A j \in DOMAIN A : B[j] = A[j]
      /\ B[Len(A) + 1] = ev
      /\ \A j : j \in DOMAIN B <=> j \in DOMAIN A \/ j = Len(A) + 1
      /\ \A j \in DOMAIN A : Fits(B, j) <=> Fits(A, j)
  <2>1. Grown(A, ev, B)
    BY <1>0, PastEvents
  <2> HIDE DEF B
  <2> QED BY <2>1 DEF Grown
<1> HIDE DEF B
<1>2. Fits(B, Len(A) + 1)
  <2>1. \A m \in 1 .. Len(A) : B[m].type = "output_item.added" =>
           \E k \in 1 .. Len(A) : Ends(B, k, B[m].item)
    <3> SUFFICES ASSUME NEW m \in 1 .. Len(A), B[m].type = "output_item.added"
                 PROVE  \E k \in 1 .. Len(A) : Ends(B, k, B[m].item)
      OBVIOUS
    <3>1. A[m].item \in done /\ B[m] = A[m]
      BY <1>1 DEF Told
    <3>2. PICK k \in DOMAIN A : Ends(A, k, A[m].item)
      BY <3>1 DEF Told
    <3> QED BY <1>1, <3>1, <3>2 DEF Ends
  <2>2. (Len(A) + 1) - 1 = Len(A) /\ ev.type # "output_item.added"
    BY <1>1 DEF LastTypes
  <2> QED BY <1>1, <2>1, <2>2 DEF Fits
<1>3. \A j \in DOMAIN B : Fits(B, j)
  BY <1>1, <1>2 DEF Told
<1>4. \A j \in DOMAIN B : B[j].type \in LastTypes => j = Len(B)
  BY <1>1 DEF Told
<1>5. ToldAll(B)
  BY <1>1, <1>3, <1>4 DEF ToldAll
<1> QED BY <1>5 DEF B

-----------------------------------------------------------------------------
(* The adapter's state.                                                    *)

OutputMaps == UNION {[D -> Nat] : D \in {D \in SUBSET Int : IsFiniteSet(D)}}

ToolCalls == [hasID : BOOLEAN, hasName : BOOLEAN, args : Nat]

CallMaps == UNION {[D -> ToolCalls] : D \in {D \in SUBSET Calls : IsFiniteSet(D)}}

Chats ==
  [started : BOOLEAN, ended : BOOLEAN, err : BOOLEAN, finish : {"", "stop", "length"},
   text : Nat, refusal : Nat, reasoning : Nat, expose : BOOLEAN, reasoningClosed : BOOLEAN,
   output : OutputMaps, tools : CallMaps]

OtherItems == {TextItem, RefusalItem, ReasoningItem}

(* The output items are numbered from 0, and are those of the content. *)
Numbered(c) ==
  /\ c \in Chats
  /\ \A i, j \in DOMAIN c.output : c.output[i] = c.output[j] => i = j
  /\ \A i \in DOMAIN c.output : c.output[i] < Cardinality(DOMAIN c.output)
  /\ DOMAIN c.output \subseteq DOMAIN c.tools \cup OtherItems
  /\ ReasoningItem \in DOMAIN c.output => c.expose
  /\ c.reasoningClosed => ReasoningItem \in DOMAIN c.output

DoneIn(c) == IF c.reasoningClosed THEN {ReasoningItem} ELSE {}

(* A is what the adapter in state c has told, at most closing reasoning. *)
Keeps(c, A) == Numbered(c) /\ Told(A, c.output, DoneIn(c))

LEMMA OutputMapFacts ==
  ASSUME NEW f \in OutputMaps
  PROVE  /\ DOMAIN f \in SUBSET Int /\ IsFiniteSet(DOMAIN f)
         /\ \A i \in DOMAIN f : f[i] \in Nat
         /\ f \in [DOMAIN f -> Nat]
<1>1. PICK D \in SUBSET Int : IsFiniteSet(D) /\ f \in [D -> Nat]
  BY DEF OutputMaps
<1> QED BY <1>1

LEMMA OutputMapIntro ==
  ASSUME NEW D \in SUBSET Int, IsFiniteSet(D), NEW f \in [D -> Nat]
  PROVE  f \in OutputMaps
BY DEF OutputMaps

LEMMA CallMapFacts ==
  ASSUME NEW f \in CallMaps
  PROVE  /\ DOMAIN f \in SUBSET Calls /\ IsFiniteSet(DOMAIN f)
         /\ f \in [DOMAIN f -> ToolCalls]
         /\ \A i \in DOMAIN f : f[i] \in ToolCalls /\ f[i].args \in Nat
         /\ \A i \in DOMAIN f : i \in Int /\ i > 0
<1>1. PICK D \in SUBSET Calls : IsFiniteSet(D) /\ f \in [D -> ToolCalls]
  BY DEF CallMaps
<1>2. DOMAIN f = D
  BY <1>1
<1>3. \A i \in D : f[i] \in ToolCalls
  BY <1>1
<1>4. \A i \in D : f[i].args \in Nat
  BY <1>3 DEF ToolCalls
<1>5. \A i \in D : i \in Int /\ i > 0
  BY CallsAssumption
<1> QED BY <1>1, <1>2, <1>3, <1>4, <1>5

LEMMA CallMapIntro ==
  ASSUME NEW D \in SUBSET Calls, IsFiniteSet(D), NEW f \in [D -> ToolCalls]
  PROVE  f \in CallMaps
BY DEF CallMaps

LEMMA ItemFacts ==
  ASSUME NEW c, Numbered(c)
  PROVE  /\ IsFiniteSet(DOMAIN c.output)
         /\ Cardinality(DOMAIN c.output) \in Nat
         /\ \A i \in DOMAIN c.output : i \in Int /\ i # 0 /\ c.output[i] \in Nat
         /\ \A i \in DOMAIN c.tools : i \notin OtherItems /\ i \in Int /\ i # 0
         /\ c.reasoningClosed \in BOOLEAN /\ c.expose \in BOOLEAN
<1>1. c.output \in OutputMaps /\ c.tools \in CallMaps
  BY DEF Numbered, Chats
<1>2. /\ IsFiniteSet(DOMAIN c.output)
      /\ \A i \in DOMAIN c.output : i \in Int /\ c.output[i] \in Nat
  BY <1>1, OutputMapFacts
<1>3. Cardinality(DOMAIN c.output) \in Nat
  BY <1>2, FS_CardinalityType
<1>4. \A i \in DOMAIN c.tools : i \in Int /\ i > 0
  BY <1>1, CallMapFacts
<1>5. \A i \in OtherItems : i \in Int /\ i < 0
  BY DEF OtherItems, TextItem, RefusalItem, ReasoningItem
<1>6. \A i \in DOMAIN c.output : i # 0
  BY <1>4, <1>5 DEF Numbered
<1>7. c.reasoningClosed \in BOOLEAN /\ c.expose \in BOOLEAN
  BY DEF Numbered, Chats
<1>8. \A i \in DOMAIN c.tools : i \notin OtherItems /\ i \in Int /\ i # 0
  BY <1>4, <1>5
<1> QED BY <1>2, <1>3, <1>6, <1>7, <1>8

LEMMA Joined3 ==
  ASSUME NEW s \in Seq(WireEvents), NEW a \in WireEvents, NEW b \in WireEvents, NEW c \in WireEvents
  PROVE  /\ s \o <<>> = s
         /\ s \o <<a>> = Append(s, a)
         /\ s \o <<a, b>> = Append(Append(s, a), b)
         /\ s \o <<a, b, c>> = Append(Append(Append(s, a), b), c)
         /\ <<>> \in Seq(WireEvents) /\ <<a>> \in Seq(WireEvents)
         /\ <<a, b>> \in Seq(WireEvents) /\ <<a, b, c>> \in Seq(WireEvents)
<1>1. s \o <<>> = s
  BY ConcatEmptySeq
<1>2. s \o <<a>> = Append(s, a)
  OBVIOUS
<1>3. s \o <<a, b>> = Append(Append(s, a), b)
  OBVIOUS
<1>4. s \o <<a, b, c>> = Append(Append(Append(s, a), b), c)
  OBVIOUS
<1> QED BY <1>1, <1>2, <1>3, <1>4

LEMMA Assoc3 == \A s, t, u \in Seq(WireEvents) : (s \o t) \o u = s \o (t \o u)
BY ConcatAssociative

LEMMA ItemEventType ==
  ASSUME NEW c, Numbered(c), NEW item \in DOMAIN c.output,
         NEW type \in WireTypes, NEW kind \in Kinds, NEW size \in Nat
  PROVE  LET ev == ItemEvent(c, type, kind, item, size) IN
         /\ ev \in WireEvents
         /\ ev.type = type /\ ev.kind = kind /\ ev.item = item
         /\ ev.output = c.output[item] /\ ev.size = size
<1>1. item \in Int /\ c.output[item] \in Nat
  BY ItemFacts
<1> QED BY <1>1 DEF ItemEvent, Event, WireEvents

(* The adapter tells of an open item. *)
LEMMA TellItem ==
  ASSUME NEW c, Numbered(c), NEW A, NEW done, Told(A, c.output, done),
         NEW item \in DOMAIN c.output, item \notin done,
         NEW type \in WireTypes, type # "output_item.added", type \notin LastTypes,
         NEW kind \in Kinds, NEW size \in Nat
  PROVE  Told(Append(A, ItemEvent(c, type, kind, item, size)), c.output,
              IF type = "output_item.done" THEN done \cup {item} ELSE done)
<1> DEFINE ev == ItemEvent(c, type, kind, item, size)
<1>1. /\ ev \in WireEvents /\ ev.type = type /\ ev.item = item /\ ev.output = c.output[item]
  BY ItemEventType
<1> HIDE DEF ev
<1>2. Told(Append(A, ev), c.output, IF ev.type = "output_item.done" THEN done \cup {ev.item} ELSE done)
  BY <1>1, TellPart
<1> QED BY <1>1, <1>2 DEF ev

(* The adapter opens an item. *)
LEMMA TellNew ==
  ASSUME NEW c, NEW A, Keeps(c, A), NEW item \in DOMAIN c.tools \cup OtherItems,
         item \notin DOMAIN c.output,
         ReasoningItem \in DOMAIN c.output => c.reasoningClosed,
         item = ReasoningItem => c.expose,
         NEW kind \in Kinds,
         NEW d, d = AddItem(c, item)
  PROVE  LET ev == ItemEvent(d, "output_item.added", kind, item, 0) IN
         /\ Keeps(d, Append(A, ev))
         /\ ev \in WireEvents
         /\ d = [c EXCEPT !.output = d.output]
         /\ DOMAIN d.output = DOMAIN c.output \cup {item}
         /\ \A i \in DOMAIN c.output : d.output[i] = c.output[i]
<1> DEFINE n == Cardinality(DOMAIN c.output)
           out == [i \in DOMAIN c.output \cup {item} |-> IF i = item THEN n ELSE c.output[i]]
           ev == ItemEvent(d, "output_item.added", kind, item, 0)
<1>0. Numbered(c) /\ Told(A, c.output, DoneIn(c)) /\ c \in Chats
  BY DEF Keeps, Numbered
<1>1. /\ IsFiniteSet(DOMAIN c.output) /\ n \in Nat
      /\ \A i \in DOMAIN c.output : i \in Int /\ i # 0 /\ c.output[i] \in Nat
      /\ item \in Int
  <2>1. \A i \in OtherItems : i \in Int
    BY DEF OtherItems, TextItem, RefusalItem, ReasoningItem
  <2> QED BY <1>0, <2>1, ItemFacts
<1>2. d = [c EXCEPT !.output = out]
  BY DEF AddItem
<1>3. out \in OutputMaps
  <2>1. IsFiniteSet(DOMAIN c.output \cup {item}) /\ DOMAIN c.output \cup {item} \in SUBSET Int
    BY <1>1, FS_AddElement
  <2>2. out \in [DOMAIN c.output \cup {item} -> Nat]
    BY <1>1
  <2> HIDE DEF out
  <2> QED BY <2>1, <2>2, OutputMapIntro
<1>4. /\ DOMAIN out = DOMAIN c.output \cup {item} /\ out[item] = n
      /\ \A i \in DOMAIN c.output : out[i] = c.output[i]
  OBVIOUS
<1>5. Cardinality(DOMAIN out) = n + 1
  <2>1. Cardinality(DOMAIN c.output \cup {item}) = IF item \in DOMAIN c.output THEN n ELSE n + 1
    <3> HIDE DEF out
    <3> QED BY <1>1, FS_AddElement, Zenon
  <2> HIDE DEF out, n
  <2> QED BY <1>4, <2>1
<1> HIDE DEF out
<1>6. /\ d \in Chats /\ d.output = out /\ d.tools = c.tools /\ d.expose = c.expose
      /\ d.reasoningClosed = c.reasoningClosed
  BY <1>0, <1>2, <1>3 DEF Chats
<1>7. Numbered(d)
  <2>1. \A i \in DOMAIN c.output : c.output[i] < n
    BY <1>0 DEF Numbered
  <2> HIDE DEF n
  <2>2. \A i, j \in DOMAIN out : out[i] = out[j] => i = j
    BY <1>0, <1>1, <1>4, <2>1 DEF Numbered
  <2>3. \A i \in DOMAIN out : out[i] < n + 1
    BY <1>1, <1>4, <2>1
  <2>4. DOMAIN out \subseteq DOMAIN c.tools \cup OtherItems
    BY <1>0, <1>4 DEF Numbered
  <2>5. ReasoningItem \in DOMAIN out => d.expose
    BY <1>0, <1>4, <1>6 DEF Numbered
  <2>6. d.reasoningClosed => ReasoningItem \in DOMAIN out
    BY <1>0, <1>4, <1>6 DEF Numbered
  <2> QED BY <1>5, <1>6, <2>2, <2>3, <2>4, <2>5, <2>6 DEF Numbered
<1>8. /\ ev \in WireEvents /\ ev.type = "output_item.added" /\ ev.item = item /\ ev.output = n
  <2>1. item \in DOMAIN d.output
    BY <1>4, <1>6
  <2>2. "output_item.added" \in WireTypes /\ 0 \in Nat
    BY DEF WireTypes
  <2>3. /\ ev \in WireEvents /\ ev.type = "output_item.added" /\ ev.item = item
        /\ ev.output = d.output[item]
    BY <1>7, <2>1, <2>2, ItemEventType
  <2> HIDE DEF ev
  <2> QED BY <1>4, <1>6, <2>3
<1> HIDE DEF ev, n
<1>9. Told(Append(A, ev), out, DoneIn(c))
  <2>1. ReasoningItem \in DOMAIN c.output => ReasoningItem \in DoneIn(c)
    BY DEF DoneIn
  <2> QED BY <1>0, <1>4, <1>8, <2>1, TellAdded DEF n
<1>10. Keeps(d, Append(A, ev))
  BY <1>6, <1>7, <1>9 DEF Keeps, DoneIn
<1> QED BY <1>2, <1>4, <1>6, <1>8, <1>10 DEF ev

(* The result r of a method continues what A has told. *)
Continues(r, A) == Keeps(r.chat, A \o r.events) /\ r.events \in Seq(WireEvents)

LEMMA ContinuesIntro ==
  ASSUME NEW d, NEW A, NEW evs \in Seq(WireEvents), NEW t, Keeps(d, t), A \o evs = t
  PROVE  Continues(Queue(d, evs), A)
BY DEF Continues, Queue

LEMMA CloseReasoningTells ==
  ASSUME NEW c, NEW A, Keeps(c, A)
  PROVE  LET r == CloseReasoning(c) IN
         /\ Continues(r, A)
         /\ r.chat = [c EXCEPT !.reasoningClosed = r.chat.reasoningClosed]
         /\ r.chat.reasoningClosed <=> ReasoningItem \in DOMAIN c.output
<1> DEFINE r == CloseReasoning(c)
<1>0. /\ Numbered(c) /\ Told(A, c.output, DoneIn(c)) /\ A \in Seq(WireEvents) /\ c \in Chats
      /\ c.reasoning \in Nat /\ c.reasoningClosed \in BOOLEAN
  BY DEF Keeps, Numbered, Told, Chats
<1>1. CASE ~Started(c, ReasoningItem) \/ c.reasoningClosed
  <2>1. r.chat = c /\ r.events = <<>>
    BY <1>1 DEF CloseReasoning, Queue
  <2>2. A \o <<>> = A /\ <<>> \in Seq(WireEvents)
    BY <1>0, ConcatEmptySeq
  <2>3. c = [c EXCEPT !.reasoningClosed = c.reasoningClosed]
    BY <1>0 DEF Chats
  <2> HIDE DEF r
  <2> QED BY <1>0, <1>1, <2>1, <2>2, <2>3 DEF Continues, r, Numbered, Started
<1>2. CASE ~(~Started(c, ReasoningItem) \/ c.reasoningClosed)
  <2> DEFINE d == [c EXCEPT !.reasoningClosed = TRUE]
             a == ItemEvent(c, "reasoning_text.done", "", ReasoningItem, c.reasoning)
             b == ItemEvent(c, "output_item.done", "reasoning", ReasoningItem, c.reasoning)
  <2>1. r.chat = d /\ r.events = <<a, b>>
    BY <1>2 DEF CloseReasoning, Queue
  <2>2. ReasoningItem \in DOMAIN c.output /\ DoneIn(c) = {} /\ ReasoningItem \notin DoneIn(c)
    BY <1>2 DEF Started, DoneIn
  <2>3. a \in WireEvents /\ b \in WireEvents
    <3>1. /\ "reasoning_text.done" \in WireTypes /\ "output_item.done" \in WireTypes
          /\ "" \in Kinds /\ "reasoning" \in Kinds
      BY DEF WireTypes, Kinds
    <3> QED BY <1>0, <2>2, <3>1, ItemEventType
  <2>4. Told(Append(A, a), c.output, DoneIn(c))
    <3>1. /\ "reasoning_text.done" \in WireTypes /\ "reasoning_text.done" \notin LastTypes
          /\ "reasoning_text.done" # "output_item.added" /\ "reasoning_text.done" # "output_item.done"
          /\ "" \in Kinds
      BY DEF WireTypes, Kinds, LastTypes
    <3> QED BY <1>0, <2>2, <3>1, TellItem
  <2>5. Told(Append(Append(A, a), b), c.output, DoneIn(c) \cup {ReasoningItem})
    <3>1. /\ "output_item.done" \in WireTypes /\ "output_item.done" \notin LastTypes
          /\ "output_item.done" # "output_item.added" /\ "reasoning" \in Kinds
      BY DEF WireTypes, Kinds, LastTypes
    <3> HIDE DEF a
    <3> QED BY <1>0, <2>2, <2>4, <3>1, TellItem
  <2> HIDE DEF a, b
  <2>6. A \o <<a, b>> = Append(Append(A, a), b) /\ <<a, b>> \in Seq(WireEvents)
    BY <1>0, <2>3, Joined3
  <2>7. d \in Chats /\ d.output = c.output /\ d.tools = c.tools /\ d.expose = c.expose
        /\ d.reasoningClosed
    BY <1>0 DEF Chats
  <2>8. d = [c EXCEPT !.reasoningClosed = d.reasoningClosed]
    BY <1>0 DEF Chats
  <2> HIDE DEF d, r
  <2>9. Numbered(d)
    BY <1>0, <2>2, <2>7 DEF Numbered
  <2>10. DoneIn(d) = DoneIn(c) \cup {ReasoningItem}
    BY <2>2, <2>7 DEF DoneIn
  <2>11. Keeps(d, A \o <<a, b>>)
    BY <2>5, <2>6, <2>7, <2>9, <2>10 DEF Keeps
  <2> QED BY <2>1, <2>2, <2>6, <2>7, <2>8, <2>11 DEF Continues, r
<1> QED BY <1>1, <1>2

(* One more event about an open item. *)
LEMMA KeepPart ==
  ASSUME NEW c, NEW A, Keeps(c, A), NEW item \in DOMAIN c.output, item \notin DoneIn(c),
         NEW type \in WireTypes \ {"output_item.added", "output_item.done", "completed", "incomplete"},
         NEW size \in Nat
  PROVE  LET ev == ItemEvent(c, type, "", item, size) IN
         Keeps(c, Append(A, ev)) /\ ev \in WireEvents
<1>1. Numbered(c) /\ Told(A, c.output, DoneIn(c)) /\ "" \in Kinds
  BY DEF Keeps, Kinds
<1>2. /\ type \in WireTypes /\ type \notin LastTypes
      /\ type # "output_item.added" /\ type # "output_item.done"
  BY DEF LastTypes
<1>3. Told(Append(A, ItemEvent(c, type, "", item, size)), c.output, DoneIn(c))
  BY <1>1, <1>2, TellItem
<1>4. ItemEvent(c, type, "", item, size) \in WireEvents
  BY <1>1, <1>2, ItemEventType
<1> QED BY <1>1, <1>3, <1>4 DEF Keeps

LEMMA AddMessageTells ==
  ASSUME NEW c, NEW A, Keeps(c, A), NEW item \in {TextItem, RefusalItem},
         NEW delta \in {"output_text.delta", "refusal.delta"}
  PROVE  Continues(AddMessage(c, item, delta), A)
<1>0. A \in Seq(WireEvents) /\ item \in OtherItems /\ item # ReasoningItem
  BY DEF Keeps, Told, OtherItems, TextItem, RefusalItem, ReasoningItem
<1>1. /\ delta \in WireTypes \ {"output_item.added", "output_item.done", "completed", "incomplete"}
      /\ "content_part.added" \in WireTypes \ {"output_item.added", "output_item.done", "completed", "incomplete"}
      /\ 1 \in Nat /\ 0 \in Nat
  BY DEF WireTypes
<1>2. CASE Started(c, item)
  <2> DEFINE a == ItemEvent(c, delta, "", item, 1)
  <2>1. AddMessage(c, item, delta) = Queue(c, <<a>>)
    BY <1>2 DEF AddMessage
  <2>2. item \in DOMAIN c.output /\ item \notin DoneIn(c)
    BY <1>0, <1>2 DEF Started, DoneIn
  <2>3. Keeps(c, Append(A, a)) /\ a \in WireEvents
    BY <1>1, <2>2, KeepPart
  <2>4. A \o <<a>> = Append(A, a) /\ <<a>> \in Seq(WireEvents)
    BY <1>0, <2>3, Joined3
  <2> HIDE DEF a
  <2> QED BY <2>1, <2>3, <2>4, ContinuesIntro
<1>3. CASE ~Started(c, item)
  <2> DEFINE r == CloseReasoning(c)
             d == AddItem(r.chat, item)
             B == A \o r.events
             x == ItemEvent(d, "output_item.added", "message", item, 0)
             y == ItemEvent(d, "content_part.added", "", item, 0)
             z == ItemEvent(d, delta, "", item, 1)
  <2>1. AddMessage(c, item, delta) = Queue(d, r.events \o <<x, y, z>>)
    BY <1>3 DEF AddMessage
  <2>2. /\ Keeps(r.chat, B) /\ r.events \in Seq(WireEvents)
        /\ r.chat = [c EXCEPT !.reasoningClosed = r.chat.reasoningClosed]
        /\ r.chat.reasoningClosed <=> ReasoningItem \in DOMAIN c.output
    BY CloseReasoningTells DEF Continues
  <2> HIDE DEF r
  <2>3. c \in Chats /\ r.chat.output = c.output
    BY <2>2 DEF Keeps, Numbered, Chats
  <2>4. item \notin DOMAIN r.chat.output /\ (ReasoningItem \in DOMAIN r.chat.output => r.chat.reasoningClosed)
    BY <1>3, <2>2, <2>3 DEF Started
  <2>5. /\ Keeps(d, Append(B, x)) /\ x \in WireEvents
        /\ DOMAIN d.output = DOMAIN r.chat.output \cup {item}
    <3>1. "message" \in Kinds /\ d = AddItem(r.chat, item) /\ item \in DOMAIN r.chat.tools \cup OtherItems
      BY <1>0 DEF Kinds
    <3> HIDE DEF d, B
    <3> QED BY <1>0, <2>2, <2>4, <3>1, TellNew
  <2> HIDE DEF d, x, B
  <2>6. item \in DOMAIN d.output /\ item \notin DoneIn(d)
    BY <1>0, <2>5 DEF DoneIn
  <2>7. Keeps(d, Append(Append(B, x), y)) /\ y \in WireEvents
    BY <1>1, <2>5, <2>6, KeepPart
  <2> HIDE DEF y
  <2>8. Keeps(d, Append(Append(Append(B, x), y), z)) /\ z \in WireEvents
    BY <1>1, <2>6, <2>7, KeepPart
  <2> HIDE DEF z
  <2>9. B \in Seq(WireEvents)
    BY <2>2 DEF Keeps, Told
  <2>10. B \o <<x, y, z>> = Append(Append(Append(B, x), y), z) /\ <<x, y, z>> \in Seq(WireEvents)
    BY <2>5, <2>7, <2>8, <2>9, Joined3
  <2>11. A \o (r.events \o <<x, y, z>>) = B \o <<x, y, z>>
    BY <1>0, <2>2, <2>10, Assoc3, Zenon DEF B
  <2>12. r.events \o <<x, y, z>> \in Seq(WireEvents)
    BY <2>2, <2>10
  <2> QED BY <2>1, <2>8, <2>10, <2>11, <2>12, ContinuesIntro
<1> QED BY <1>2, <1>3

(* Fields that have nothing to do with the items. *)
LEMMA KeepsSame ==
  ASSUME NEW c, NEW A, Keeps(c, A), NEW d \in Chats, d.output = c.output,
         DOMAIN c.tools \subseteq DOMAIN d.tools,
         d.expose = c.expose, d.reasoningClosed = c.reasoningClosed
  PROVE  Keeps(d, A)
<1>1. Numbered(d)
  BY DEF Keeps, Numbered
<1> QED BY <1>1 DEF Keeps, DoneIn

LEMMA AddTextTells ==
  ASSUME NEW c, NEW A, Keeps(c, A)
  PROVE  Continues(AddText(c), A)
<1> DEFINE d == [c EXCEPT !.text = @ + 1]
<1>1. c \in Chats
  BY DEF Keeps, Numbered
<1>2. c.text + 1 \in Nat
  <2>1. c.text \in Nat
    BY <1>1 DEF Chats
  <2> HIDE DEF d
  <2> QED BY <2>1
<1>3. /\ d \in Chats /\ d.output = c.output /\ d.tools = c.tools
      /\ d.expose = c.expose /\ d.reasoningClosed = c.reasoningClosed
  BY <1>1, <1>2 DEF Chats
<1>4. Keeps(d, A)
  <2> HIDE DEF d
  <2> QED BY <1>3, KeepsSame
<1>5. AddText(c) = AddMessage(d, TextItem, "output_text.delta")
  BY DEF AddText
<1> HIDE DEF d
<1> QED BY <1>4, <1>5, AddMessageTells

LEMMA AddRefusalTells ==
  ASSUME NEW c, NEW A, Keeps(c, A)
  PROVE  Continues(AddRefusal(c), A)
<1> DEFINE d == [c EXCEPT !.refusal = @ + 1]
<1>1. c \in Chats
  BY DEF Keeps, Numbered
<1>2. c.refusal + 1 \in Nat
  <2>1. c.refusal \in Nat
    BY <1>1 DEF Chats
  <2> HIDE DEF d
  <2> QED BY <2>1
<1>3. /\ d \in Chats /\ d.output = c.output /\ d.tools = c.tools
      /\ d.expose = c.expose /\ d.reasoningClosed = c.reasoningClosed
  BY <1>1, <1>2 DEF Chats
<1>4. Keeps(d, A)
  <2> HIDE DEF d
  <2> QED BY <1>3, KeepsSame
<1>5. AddRefusal(c) = AddMessage(d, RefusalItem, "refusal.delta")
  BY DEF AddRefusal
<1> HIDE DEF d
<1> QED BY <1>4, <1>5, AddMessageTells

LEMMA AddReasoningTells ==
  ASSUME NEW c0, NEW A, Keeps(c0, A)
  PROVE  Continues(AddReasoning(c0), A)
<1> DEFINE c == [c0 EXCEPT !.reasoning = @ + 1]
           d == AddItem(c, ReasoningItem)
           a == ItemEvent(c, "reasoning_text.delta", "", ReasoningItem, 1)
           x == ItemEvent(d, "output_item.added", "reasoning", ReasoningItem, 0)
           y == ItemEvent(d, "reasoning_text.delta", "", ReasoningItem, 1)
<1>1. c0 \in Chats /\ A \in Seq(WireEvents)
  BY DEF Keeps, Numbered, Told
<1>2. c0.reasoning + 1 \in Nat
  <2>1. c0.reasoning \in Nat
    BY <1>1 DEF Chats
  <2> HIDE DEF c, d, a, x, y
  <2> QED BY <2>1
<1>3. /\ c \in Chats /\ c.output = c0.output /\ c.tools = c0.tools
      /\ c.expose = c0.expose /\ c.reasoningClosed = c0.reasoningClosed
  BY <1>1, <1>2 DEF Chats
<1>4. AddReasoning(c0) = IF ~c.expose \/ c.reasoningClosed THEN Queue(c, <<>>)
                         ELSE IF Started(c, ReasoningItem) THEN Queue(c, <<a>>)
                         ELSE Queue(d, <<x, y>>)
  BY DEF AddReasoning
<1> HIDE DEF c
<1>5. Keeps(c, A)
  BY <1>3, KeepsSame
<1>6. /\ "reasoning_text.delta" \in WireTypes \ {"output_item.added", "output_item.done", "completed", "incomplete"}
      /\ 1 \in Nat
  BY DEF WireTypes
<1>7. CASE ~c.expose \/ c.reasoningClosed
  <2>1. A \o <<>> = A /\ <<>> \in Seq(WireEvents)
    BY <1>1, ConcatEmptySeq
  <2> QED BY <1>4, <1>5, <1>7, <2>1, ContinuesIntro
<1>8. CASE ~(~c.expose \/ c.reasoningClosed) /\ Started(c, ReasoningItem)
  <2>1. ReasoningItem \in DOMAIN c.output /\ ReasoningItem \notin DoneIn(c)
    BY <1>8 DEF Started, DoneIn
  <2>2. Keeps(c, Append(A, a)) /\ a \in WireEvents
    BY <1>5, <1>6, <2>1, KeepPart
  <2> HIDE DEF a
  <2>3. A \o <<a>> = Append(A, a) /\ <<a>> \in Seq(WireEvents)
    BY <1>1, <2>2, Joined3
  <2> QED BY <1>4, <1>8, <2>2, <2>3, ContinuesIntro
<1>9. CASE ~(~c.expose \/ c.reasoningClosed) /\ ~Started(c, ReasoningItem)
  <2>1. ReasoningItem \notin DOMAIN c.output /\ c.expose /\ ~c.reasoningClosed
        /\ "reasoning" \in Kinds /\ ReasoningItem \in DOMAIN c.tools \cup OtherItems
    BY <1>9 DEF Started, Kinds, OtherItems
  <2>2. d = AddItem(c, ReasoningItem)
    OBVIOUS
  <2>3. /\ Keeps(d, Append(A, x)) /\ x \in WireEvents
        /\ d = [c EXCEPT !.output = d.output]
        /\ DOMAIN d.output = DOMAIN c.output \cup {ReasoningItem}
    <3> HIDE DEF d
    <3> QED BY <1>5, <2>1, <2>2, TellNew
  <2> HIDE DEF d, x
  <2>4. ReasoningItem \in DOMAIN d.output /\ d.reasoningClosed = c.reasoningClosed
    BY <1>3, <2>3 DEF Chats
  <2>5. ReasoningItem \notin DoneIn(d)
    BY <2>1, <2>4 DEF DoneIn
  <2>6. Keeps(d, Append(Append(A, x), y)) /\ y \in WireEvents
    BY <1>6, <2>3, <2>4, <2>5, KeepPart
  <2> HIDE DEF y
  <2>7. A \o <<x, y>> = Append(Append(A, x), y) /\ <<x, y>> \in Seq(WireEvents)
    BY <1>1, <2>3, <2>6, Joined3
  <2> QED BY <1>4, <1>9, <2>6, <2>7, ContinuesIntro
<1> QED BY <1>7, <1>8, <1>9

(* A tool call takes a delta. *)
LEMMA MergeKeeps ==
  ASSUME NEW c \in Chats, NEW i \in Calls, NEW id \in BOOLEAN, NEW name \in BOOLEAN, NEW n \in Nat,
         NEW d, d = Merge(c, i, id, name, n)
  PROVE  /\ d \in Chats
         /\ DOMAIN d.tools = DOMAIN c.tools \cup {i}
         /\ \A j \in DOMAIN c.tools : j # i => d.tools[j] = c.tools[j]
         /\ d.tools[i].args = (IF i \in DOMAIN c.tools THEN c.tools[i].args ELSE 0) + n
         /\ d = [c EXCEPT !.tools = d.tools]
<1> DEFINE tool == ToolCall(c, i)
           merged == [hasID |-> tool.hasID \/ id, hasName |-> tool.hasName \/ name,
                      args |-> tool.args + n]
           f == [j \in DOMAIN c.tools \cup {i} |-> IF j = i THEN merged ELSE c.tools[j]]
<1>1. c.tools \in CallMaps
  BY DEF Chats
<1>2. /\ DOMAIN c.tools \in SUBSET Calls /\ IsFiniteSet(DOMAIN c.tools)
      /\ \A j \in DOMAIN c.tools : c.tools[j] \in ToolCalls
  BY <1>1, CallMapFacts
<1>3. tool \in ToolCalls /\ tool.args = IF i \in DOMAIN c.tools THEN c.tools[i].args ELSE 0
  BY <1>2 DEF ToolCall, NewTool, ToolCalls
<1>4. merged \in ToolCalls /\ merged.args = tool.args + n
  <2> HIDE DEF tool
  <2> QED BY <1>3 DEF ToolCalls
<1>5. d = [c EXCEPT !.tools = f]
  BY DEF Merge
<1> HIDE DEF merged, tool
<1>6. f \in [DOMAIN c.tools \cup {i} -> ToolCalls]
  BY <1>2, <1>4
<1>7. DOMAIN c.tools \cup {i} \in SUBSET Calls /\ IsFiniteSet(DOMAIN c.tools \cup {i})
  BY <1>2, FS_AddElement
<1>8. f[i] = merged /\ DOMAIN f = DOMAIN c.tools \cup {i} /\ \A j \in DOMAIN c.tools : j # i => f[j] = c.tools[j]
  OBVIOUS
<1> HIDE DEF f
<1>9. f \in CallMaps
  BY <1>6, <1>7, CallMapIntro
<1>10. d \in Chats /\ d.tools = f
  BY <1>5, <1>9 DEF Chats
<1> QED BY <1>3, <1>4, <1>5, <1>8, <1>10

LEMMA ArgumentsTell ==
  ASSUME NEW c, NEW A, Keeps(c, A), NEW i \in DOMAIN c.output, i # ReasoningItem, NEW n \in Nat
  PROVE  /\ Keeps(c, A \o ArgumentsDelta(c, i, n))
         /\ ArgumentsDelta(c, i, n) \in Seq(WireEvents)
<1>0. A \in Seq(WireEvents)
  BY DEF Keeps, Told
<1>1. CASE n = 0
  <2>1. ArgumentsDelta(c, i, n) = <<>>
    BY <1>1 DEF ArgumentsDelta
  <2>2. A \o <<>> = A /\ <<>> \in Seq(WireEvents)
    BY <1>0, ConcatEmptySeq
  <2> QED BY <2>1, <2>2
<1>2. CASE n # 0
  <2> DEFINE a == ItemEvent(c, "function_call_arguments.delta", "", i, n)
  <2>1. ArgumentsDelta(c, i, n) = <<a>>
    BY <1>2 DEF ArgumentsDelta
  <2>2. i \notin DoneIn(c)
    BY DEF DoneIn
  <2>3. "function_call_arguments.delta"
          \in WireTypes \ {"output_item.added", "output_item.done", "completed", "incomplete"}
    BY DEF WireTypes
  <2>4. Keeps(c, Append(A, a)) /\ a \in WireEvents
    BY <2>2, <2>3, KeepPart
  <2> HIDE DEF a
  <2>5. A \o <<a>> = Append(A, a) /\ <<a>> \in Seq(WireEvents)
    BY <1>0, <2>4, Joined3
  <2> QED BY <2>1, <2>4, <2>5
<1> QED BY <1>1, <1>2

LEMMA AddToolDeltaTells ==
  ASSUME NEW c0, NEW A, Keeps(c0, A),
         NEW i \in Calls, NEW id \in BOOLEAN, NEW name \in BOOLEAN, NEW n \in Nat
  PROVE  Continues(AddToolDelta(c0, i, id, name, n), A)
<1> DEFINE c == Merge(c0, i, id, name, n)
<1>1. c0 \in Chats /\ A \in Seq(WireEvents)
  BY DEF Keeps, Numbered, Told
<1>2. c \in Chats /\ DOMAIN c.tools = DOMAIN c0.tools \cup {i} /\ c = [c0 EXCEPT !.tools = c.tools]
  <2>1. c = Merge(c0, i, id, name, n)
    OBVIOUS
  <2> HIDE DEF c
  <2> QED BY <1>1, <2>1, MergeKeeps
<1>3. c.output = c0.output /\ c.expose = c0.expose /\ c.reasoningClosed = c0.reasoningClosed
  <2> HIDE DEF c
  <2> QED BY <1>1, <1>2 DEF Chats
<1>4. Keeps(c, A)
  <2> HIDE DEF c
  <2> QED BY <1>2, <1>3, KeepsSame
<1>5. i \in DOMAIN c.tools /\ i \notin OtherItems /\ i # ReasoningItem /\ c.tools[i].args \in Nat
  <2>1. i \in DOMAIN c.tools
    BY <1>2
  <2>2. c.tools \in CallMaps
    BY <1>2 DEF Chats
  <2>3. i \notin OtherItems
    BY <1>4, <2>1, ItemFacts DEF Keeps
  <2>4. c.tools[i].args \in Nat
    BY <2>1, <2>2, CallMapFacts
  <2> QED BY <2>1, <2>3, <2>4 DEF OtherItems
<1>6. CASE Started(c, i)
  <2>1. AddToolDelta(c0, i, id, name, n) = Queue(c, ArgumentsDelta(c, i, n))
    BY <1>6 DEF AddToolDelta
  <2>2. i \in DOMAIN c.output
    BY <1>6 DEF Started
  <2> HIDE DEF c
  <2> QED BY <1>4, <1>5, <2>1, <2>2, ArgumentsTell, ContinuesIntro
<1>7. CASE ~Started(c, i) /\ ~(c.tools[i].hasID /\ c.tools[i].hasName)
  <2>1. AddToolDelta(c0, i, id, name, n) = Queue(c, <<>>)
    BY <1>7 DEF AddToolDelta
  <2>2. A \o <<>> = A /\ <<>> \in Seq(WireEvents)
    BY <1>1, ConcatEmptySeq
  <2> HIDE DEF c
  <2> QED BY <1>4, <2>1, <2>2, ContinuesIntro
<1>8. CASE ~Started(c, i) /\ (c.tools[i].hasID /\ c.tools[i].hasName)
  <2> DEFINE r == CloseReasoning(c)
             d == AddItem(r.chat, i)
             B == A \o r.events
             x == ItemEvent(d, "output_item.added", "function_call", i, 0)
             y == ArgumentsDelta(d, i, c.tools[i].args)
  <2>1. AddToolDelta(c0, i, id, name, n) = Queue(d, r.events \o <<x>> \o y)
    BY <1>8 DEF AddToolDelta
  <2> HIDE DEF c
  <2>2. /\ Keeps(r.chat, B) /\ r.events \in Seq(WireEvents)
        /\ r.chat = [c EXCEPT !.reasoningClosed = r.chat.reasoningClosed]
        /\ r.chat.reasoningClosed <=> ReasoningItem \in DOMAIN c.output
    BY <1>4, CloseReasoningTells DEF Continues
  <2> HIDE DEF r
  <2>3. r.chat.output = c.output /\ r.chat.tools = c.tools
    BY <1>2, <2>2 DEF Chats
  <2>4. /\ i \notin DOMAIN r.chat.output /\ i \in DOMAIN r.chat.tools \cup OtherItems
        /\ ReasoningItem \in DOMAIN r.chat.output => r.chat.reasoningClosed
    BY <1>5, <1>8, <2>2, <2>3 DEF Started
  <2>5. /\ Keeps(d, Append(B, x)) /\ x \in WireEvents
        /\ DOMAIN d.output = DOMAIN r.chat.output \cup {i}
    <3>1. "function_call" \in Kinds /\ d = AddItem(r.chat, i)
      BY DEF Kinds
    <3> HIDE DEF d, B
    <3> QED BY <1>5, <2>2, <2>4, <3>1, TellNew
  <2> HIDE DEF d, x, B
  <2>6. i \in DOMAIN d.output
    BY <2>5
  <2>7. Keeps(d, Append(B, x) \o y) /\ y \in Seq(WireEvents)
    BY <1>5, <2>5, <2>6, ArgumentsTell
  <2> HIDE DEF y
  <2>8. B \in Seq(WireEvents)
    BY <2>2 DEF Keeps, Told
  <2>9. B \o <<x>> = Append(B, x) /\ <<x>> \in Seq(WireEvents)
    BY <2>5, <2>8, Joined3
  <2>10. r.events \o <<x>> \in Seq(WireEvents) /\ (r.events \o <<x>>) \o y \in Seq(WireEvents)
    BY <2>2, <2>7, <2>9
  <2>11. A \o ((r.events \o <<x>>) \o y) = (A \o (r.events \o <<x>>)) \o y
    BY <1>1, <2>7, <2>10, Assoc3, Zenon
  <2>12. A \o (r.events \o <<x>>) = B \o <<x>>
    BY <1>1, <2>2, <2>9, Assoc3, Zenon DEF B
  <2> QED BY <2>1, <2>7, <2>9, <2>10, <2>11, <2>12, ContinuesIntro
<1> QED BY <1>6, <1>7, <1>8


-----------------------------------------------------------------------------
(* The adapter closes its items.                                           *)

LEMMA MessageDoneTells ==
  ASSUME NEW c, Numbered(c), NEW A, NEW done, Told(A, c.output, done),
         NEW item \in {TextItem, RefusalItem}, item \notin done,
         NEW type \in {"output_text.done", "refusal.done"}, NEW size \in Nat
  PROVE  /\ MessageDone(c, item, type, size) \in Seq(WireEvents)
         /\ Told(A \o MessageDone(c, item, type, size), c.output, done \cup ({item} \cap DOMAIN c.output))
<1>0. A \in Seq(WireEvents)
  BY DEF Told
<1>1. CASE ~Started(c, item)
  <2>1. MessageDone(c, item, type, size) = <<>> /\ done \cup ({item} \cap DOMAIN c.output) = done
    BY <1>1 DEF MessageDone, Started
  <2>2. A \o <<>> = A /\ <<>> \in Seq(WireEvents)
    BY <1>0, ConcatEmptySeq
  <2> QED BY <2>1, <2>2
<1>2. CASE Started(c, item)
  <2> DEFINE x == ItemEvent(c, type, "", item, size)
             y == ItemEvent(c, "content_part.done", "", item, size)
             z == ItemEvent(c, "output_item.done", "message", item, size)
  <2>1. MessageDone(c, item, type, size) = <<x, y, z>>
    BY <1>2 DEF MessageDone
  <2>2. item \in DOMAIN c.output
    BY <1>2 DEF Started
  <2>3. /\ type \in WireTypes /\ type # "output_item.added" /\ type \notin LastTypes /\ type # "output_item.done"
        /\ "content_part.done" \in WireTypes /\ "content_part.done" # "output_item.added"
        /\ "content_part.done" \notin LastTypes /\ "content_part.done" # "output_item.done"
        /\ "output_item.done" \in WireTypes /\ "output_item.done" # "output_item.added"
        /\ "output_item.done" \notin LastTypes
        /\ "" \in Kinds /\ "message" \in Kinds
    BY DEF WireTypes, Kinds, LastTypes
  <2>4. x \in WireEvents /\ y \in WireEvents /\ z \in WireEvents
    BY <2>2, <2>3, ItemEventType
  <2>5. Told(Append(A, x), c.output, done)
    BY <2>2, <2>3, TellItem
  <2> HIDE DEF x
  <2>6. Told(Append(Append(A, x), y), c.output, done)
    BY <2>2, <2>3, <2>5, TellItem
  <2> HIDE DEF y
  <2>7. Told(Append(Append(Append(A, x), y), z), c.output, done \cup {item})
    BY <2>2, <2>3, <2>6, TellItem
  <2> HIDE DEF z
  <2>8. A \o <<x, y, z>> = Append(Append(Append(A, x), y), z) /\ <<x, y, z>> \in Seq(WireEvents)
    BY <1>0, <2>4, Joined3
  <2>9. done \cup ({item} \cap DOMAIN c.output) = done \cup {item}
    BY <2>2
  <2> QED BY <2>1, <2>7, <2>8, <2>9
<1> QED BY <1>1, <1>2

LEMMA ToolDoneTells ==
  ASSUME NEW c, Numbered(c), NEW A, NEW done, Told(A, c.output, done),
         NEW i \in DOMAIN c.tools, i \in DOMAIN c.output, i \notin done
  PROVE  /\ ToolDone(c, i) \in Seq(WireEvents)
         /\ Told(A \o ToolDone(c, i), c.output, done \cup {i})
<1> DEFINE n == IF c.tools[i].args = 0 THEN 1 ELSE c.tools[i].args
           x == ItemEvent(c, "function_call_arguments.done", "", i, n)
           y == ItemEvent(c, "output_item.done", "function_call", i, n)
<1>0. A \in Seq(WireEvents)
  BY DEF Told
<1>1. n \in Nat
  <2>1. c.tools \in CallMaps
    BY DEF Numbered, Chats
  <2>2. c.tools[i].args \in Nat
    BY <2>1, CallMapFacts
  <2> QED BY <2>2
<1>2. ToolDone(c, i) = <<x, y>>
  BY DEF ToolDone
<1> HIDE DEF n
<1>3. /\ "function_call_arguments.done" \in WireTypes /\ "function_call_arguments.done" # "output_item.added"
      /\ "function_call_arguments.done" \notin LastTypes /\ "function_call_arguments.done" # "output_item.done"
      /\ "output_item.done" \in WireTypes /\ "output_item.done" # "output_item.added"
      /\ "output_item.done" \notin LastTypes
      /\ "" \in Kinds /\ "function_call" \in Kinds
  BY DEF WireTypes, Kinds, LastTypes
<1>4. x \in WireEvents /\ y \in WireEvents
  BY <1>1, <1>3, ItemEventType
<1>5. Told(Append(A, x), c.output, done)
  BY <1>1, <1>3, TellItem
<1> HIDE DEF x
<1>6. Told(Append(Append(A, x), y), c.output, done \cup {i})
  BY <1>1, <1>3, <1>5, TellItem
<1> HIDE DEF y
<1>7. A \o <<x, y>> = Append(Append(A, x), y) /\ <<x, y>> \in Seq(WireEvents)
  BY <1>0, <1>4, Joined3
<1> QED BY <1>2, <1>6, <1>7

LEMMA CallsInOrder ==
  ASSUME NEW c, Numbered(c), Complete(c)
  PROVE  LET n == Cardinality(DOMAIN c.tools) IN
         /\ n \in Nat
         /\ ToolsInOrder(c) \in [1 .. n -> DOMAIN c.tools]
         /\ \A j, k \in 1 .. n : ToolsInOrder(c)[j] = ToolsInOrder(c)[k] => j = k
         /\ \A i \in DOMAIN c.tools : \E j \in 1 .. n : ToolsInOrder(c)[j] = i
<1> DEFINE S == DOMAIN c.tools
           n == Cardinality(S)
           key == [i \in S |-> c.output[i]]
           Sorted(s) == \A j, k \in DOMAIN s : j < k => c.output[s[j]] < c.output[s[k]]
           order == ToolsInOrder(c)
<1>1. c.tools \in CallMaps /\ c.output \in OutputMaps
  BY DEF Numbered, Chats
<1>2. IsFiniteSet(S)
  BY <1>1, CallMapFacts
<1>3. S \subseteq DOMAIN c.output
  BY DEF Complete, Started
<1>4. key \in [S -> Nat]
  BY <1>1, <1>3, OutputMapFacts
<1>5. \A i, j \in S : key[i] = key[j] => i = j
  BY <1>3 DEF Numbered
<1>6. n \in Nat
  BY <1>2, FS_CardinalityType
<1>7. order = CHOOSE s \in [1 .. n -> S] : Sorted(s)
  BY DEF ToolsInOrder
<1> HIDE DEF S, n, order
<1>8. \A s \in [1 .. n -> S] :
        Sorted(s) <=> \A j, k \in DOMAIN s : j < k => key[s[j]] < key[s[k]]
  OBVIOUS
<1> HIDE DEF key
<1>9. \E s \in [1 .. n -> S] : \A j, k \in DOMAIN s : j < k => key[s[j]] < key[s[k]]
  BY <1>2, <1>4, <1>5, InOrder DEF n
<1>10. \E s \in [1 .. n -> S] : Sorted(s)
  <2> HIDE DEF Sorted
  <2> QED BY <1>8, <1>9
<1>11. order \in [1 .. n -> S] /\ Sorted(order)
  <2> HIDE DEF Sorted
  <2> QED BY <1>7, <1>10, Zenon
<1>12. \A j, k \in DOMAIN order : j < k => key[order[j]] < key[order[k]]
  BY <1>8, <1>11
<1>13. /\ \A j, k \in DOMAIN order : order[j] = order[k] => j = k
       /\ \A x \in S : \E j \in DOMAIN order : order[j] = x
  <2>1. order \in [1 .. Cardinality(S) -> S]
    BY <1>11 DEF n
  <2> HIDE DEF Sorted
  <2> QED BY <1>2, <1>4, <1>12, <2>1, OrderReachesAll
<1>14. DOMAIN order = 1 .. n
  BY <1>11
<1> QED BY <1>6, <1>11, <1>13, <1>14 DEF S, n, order

(* The tool calls are closed one after the other. *)
AllDone(c) == [k \in DOMAIN ToolsInOrder(c) |-> ToolDone(c, ToolsInOrder(c)[k])]

LEMMA ToolsDoneTell ==
  ASSUME NEW c, Numbered(c), Complete(c), NEW A, NEW done, Told(A, c.output, done),
         done \cap DOMAIN c.tools = {}
  PROVE  /\ FlattenSeq(AllDone(c)) \in Seq(WireEvents)
         /\ Told(A \o FlattenSeq(AllDone(c)), c.output, done \cup DOMAIN c.tools)
<1> DEFINE order == ToolsInOrder(c)
           n == Cardinality(DOMAIN c.tools)
           q == AllDone(c)
           Upto(k) == {order[m] : m \in 1 .. k}
<1>0. A \in Seq(WireEvents)
  BY DEF Told
<1>1. /\ n \in Nat
      /\ order \in [1 .. n -> DOMAIN c.tools]
      /\ \A j, k \in 1 .. n : order[j] = order[k] => j = k
      /\ \A i \in DOMAIN c.tools : \E j \in 1 .. n : order[j] = i
  BY CallsInOrder
<1> HIDE DEF order, n
<1>2. DOMAIN order = 1 .. n /\ \A k \in 1 .. n : order[k] \in DOMAIN c.tools /\ order[k] \in DOMAIN c.output
  BY <1>1 DEF Complete, Started
<1>3. q = [k \in 1 .. n |-> ToolDone(c, order[k])]
  BY <1>2 DEF AllDone, order
<1> HIDE DEF q
<1>4. \A k \in 1 .. n : q[k] = ToolDone(c, order[k])
  BY <1>3
<1>5. \A i \in DOMAIN c.tools : ToolDone(c, i) \in Seq(WireEvents)
  <2> TAKE i \in DOMAIN c.tools
  <2>1. i \in DOMAIN c.output /\ i \notin done
    BY DEF Complete, Started
  <2> QED BY <2>1, ToolDoneTells
<1>6. q \in Seq(Seq(WireEvents)) /\ Len(q) = n
  <2>1. q \in [1 .. n -> Seq(WireEvents)]
    BY <1>2, <1>3, <1>5
  <2> QED BY <1>1, <2>1
<1>7. PICK fl \in [0 .. n -> Seq(WireEvents)] :
        /\ fl[0] = <<>>
        /\ \A k \in 1 .. n : fl[k] = fl[k - 1] \o q[k]
        /\ FlattenSeq(q) = fl[n]
  BY <1>6, Flattening
<1> DEFINE At(k) == Told(A \o fl[k], c.output, done \cup Upto(k))
           T == {k \in Nat : k <= n => At(k)}
<1>8. 0 \in T
  <2>1. Upto(0) = {} /\ done \cup {} = done
    OBVIOUS
  <2>2. A \o fl[0] = A
    BY <1>0, <1>7, ConcatEmptySeq
  <2> HIDE DEF Upto
  <2>3. At(0)
    BY <2>1, <2>2
  <2> HIDE DEF At
  <2> QED BY <2>3
<1>9. ASSUME NEW k \in T PROVE k + 1 \in T
  <2> HIDE DEF At
  <2> SUFFICES ASSUME k + 1 <= n PROVE At(k + 1)
    OBVIOUS
  <2> DEFINE i == order[k + 1]
             B == A \o fl[k]
             over == done \cup Upto(k)
  <2>1. k \in Nat /\ k <= n /\ k \in 0 .. n /\ k + 1 \in 1 .. n /\ (k + 1) - 1 = k
    BY <1>1
  <2>2. At(k)
    BY <2>1
  <2> HIDE DEF T
  <2>3. i \in DOMAIN c.tools /\ i \in DOMAIN c.output
    BY <1>2, <2>1
  <2>4. i \notin over
    <3>1. i \notin Upto(k)
      BY <1>1, <2>1
    <3> QED BY <2>3, <3>1
  <2>5. Upto(k + 1) = Upto(k) \cup {i}
    <3>1. \A m : m \in 1 .. k + 1 <=> m \in 1 .. k \/ m = k + 1
      BY <2>1
    <3> QED BY <3>1
  <2>6. done \cup Upto(k + 1) = over \cup {i}
    BY <2>5
  <2> HIDE DEF i, B, over, Upto
  <2>7. Told(B \o ToolDone(c, i), c.output, over \cup {i})
    BY <2>2, <2>3, <2>4, ToolDoneTells DEF At, B, over
  <2>8. q[k + 1] = ToolDone(c, i) /\ q[k + 1] \in Seq(WireEvents) /\ fl[k] \in Seq(WireEvents)
    BY <1>4, <1>5, <1>7, <2>1, <2>3 DEF i
  <2>9. fl[k + 1] = fl[k] \o q[k + 1]
    BY <1>7, <2>1
  <2>10. (A \o fl[k]) \o q[k + 1] = A \o (fl[k] \o q[k + 1])
    BY <1>0, <2>8, Assoc3, Zenon
  <2> QED BY <2>6, <2>7, <2>8, <2>9, <2>10 DEF At, B
<1>10. T = Nat
  <2>1. T \in SUBSET Nat
    OBVIOUS
  <2> HIDE DEF T
  <2> QED BY <1>8, <1>9, <2>1, NumberInduction
<1>11. Told(A \o fl[n], c.output, done \cup Upto(n))
  <2>1. At(n)
    <3> HIDE DEF At
    <3> QED BY <1>1, <1>10, SMTT(30)
  <2> QED BY <2>1
<1>12. Upto(n) = DOMAIN c.tools
  BY <1>1, <1>2
<1>13. fl[n] \in Seq(WireEvents)
  BY <1>1, <1>7
<1> HIDE DEF Upto, T
<1> QED BY <1>7, <1>11, <1>12, <1>13 DEF q

(* The end of the stream: everything is closed, then the response ends. *)
LEMMA FinishTells ==
  ASSUME NEW c, NEW A, Keeps(c, A), Complete(c)
  PROVE  LET r == FinishOutput(c) IN
         /\ Append(r.events, Terminal(c)) \in Seq(WireEvents)
         /\ ToldAll(A \o Append(r.events, Terminal(c)))
         /\ Numbered(r.chat)
         /\ r.chat = [c EXCEPT !.reasoningClosed = r.chat.reasoningClosed]
<1> DEFINE r == CloseReasoning(c)
           x == MessageDone(c, TextItem, "output_text.done", c.text)
           y == MessageDone(c, RefusalItem, "refusal.done", c.refusal)
           z == FlattenSeq(AllDone(c))
           D == DoneIn(r.chat)
           ev == Terminal(c)
           O == DOMAIN c.output
<1>0. /\ A \in Seq(WireEvents) /\ Numbered(c) /\ c \in Chats
      /\ c.text \in Nat /\ c.refusal \in Nat
  BY DEF Keeps, Told, Numbered, Chats
<1>1. FinishOutput(c) = Queue(r.chat, ((r.events \o x) \o y) \o z)
  BY DEF FinishOutput, AllDone
<1>2. /\ Keeps(r.chat, A \o r.events) /\ r.events \in Seq(WireEvents)
      /\ r.chat = [c EXCEPT !.reasoningClosed = r.chat.reasoningClosed]
      /\ r.chat.reasoningClosed <=> ReasoningItem \in O
  BY CloseReasoningTells DEF Continues
<1> HIDE DEF r
<1>3. r.chat.output = c.output
  BY <1>0, <1>2 DEF Chats
<1>4. Told(A \o r.events, c.output, D) /\ Numbered(r.chat)
  BY <1>2, <1>3 DEF Keeps
<1>5. D = {ReasoningItem} \cap O
  BY <1>2 DEF DoneIn
<1>6. \A i \in DOMAIN c.tools : i \notin OtherItems
  BY <1>0, ItemFacts
<1>7. TextItem # RefusalItem /\ TextItem # ReasoningItem /\ RefusalItem # ReasoningItem
  BY DEF TextItem, RefusalItem, ReasoningItem
<1> DEFINE D2 == D \cup ({TextItem} \cap O)
           D3 == D2 \cup ({RefusalItem} \cap O)
           D4 == D3 \cup DOMAIN c.tools
<1>8. TextItem \notin D /\ RefusalItem \notin D2 /\ D3 \cap DOMAIN c.tools = {} /\ O \subseteq D4
  <2>1. O \subseteq DOMAIN c.tools \cup OtherItems
    BY <1>0 DEF Numbered
  <2> QED BY <1>5, <1>6, <1>7, <2>1 DEF OtherItems
<1> HIDE DEF D, D2, D3, D4, O
<1>9. x \in Seq(WireEvents) /\ Told((A \o r.events) \o x, c.output, D2)
  BY <1>0, <1>4, <1>8, MessageDoneTells DEF D2, O
<1> HIDE DEF x
<1>10. y \in Seq(WireEvents) /\ Told(((A \o r.events) \o x) \o y, c.output, D3)
  BY <1>0, <1>8, <1>9, MessageDoneTells DEF D3, O
<1> HIDE DEF y
<1>11. z \in Seq(WireEvents) /\ Told((((A \o r.events) \o x) \o y) \o z, c.output, D4)
  BY <1>0, <1>8, <1>10, ToolsDoneTell DEF D4
<1> HIDE DEF z
<1>12. ev \in WireEvents /\ ev.type \in LastTypes /\ ev.item = 0
  <2> DEFINE t == IF c.finish = "length" THEN "incomplete" ELSE "completed"
  <2>1. t \in LastTypes /\ t \in WireTypes
    BY DEF LastTypes, WireTypes
  <2>2. ev = [type |-> t, kind |-> "", item |-> 0, output |-> -1, size |-> 0]
    BY DEF Terminal, Lifecycle, Event
  <2>3. "" \in Kinds /\ "" # "function_call" /\ 0 \in Int /\ -1 \in Int /\ 0 \in Nat
    BY DEF Kinds
  <2> HIDE DEF t, ev
  <2> QED BY <2>1, <2>2, <2>3 DEF WireEvents
<1> DEFINE evs == ((r.events \o x) \o y) \o z
<1>13. evs \in Seq(WireEvents)
  BY <1>2, <1>9, <1>10, <1>11
<1>14. (((A \o r.events) \o x) \o y) \o z = A \o evs
  <2>1. r.events \o x \in Seq(WireEvents) /\ (r.events \o x) \o y \in Seq(WireEvents)
    BY <1>2, <1>9, <1>10
  <2>2. (A \o r.events) \o x = A \o (r.events \o x)
    BY <1>0, <1>2, <1>9, Assoc3, Zenon
  <2>3. (A \o (r.events \o x)) \o y = A \o ((r.events \o x) \o y)
    BY <1>0, <2>1, <1>10, Assoc3, Zenon
  <2>4. (A \o ((r.events \o x) \o y)) \o z = A \o (((r.events \o x) \o y) \o z)
    BY <1>0, <2>1, <1>11, Assoc3, Zenon
  <2> QED BY <2>2, <2>3, <2>4
<1> HIDE DEF evs, ev
<1>15. Told(A \o evs, c.output, D4)
  BY <1>11, <1>14
<1>16. ToldAll(Append(A \o evs, ev))
  BY <1>8, <1>12, <1>15, TellLast DEF O
<1>17. Append(A \o evs, ev) = A \o Append(evs, ev) /\ Append(evs, ev) \in Seq(WireEvents)
  BY <1>0, <1>12, <1>13
<1>18. FinishOutput(c).events = evs /\ FinishOutput(c).chat = r.chat
  BY <1>1 DEF Queue, evs
<1> QED BY <1>2, <1>4, <1>16, <1>17, <1>18 DEF ev


-----------------------------------------------------------------------------
(* What the methods of the adapter leave alone.                            *)

SameRun(c, d) ==
  /\ d.started = c.started /\ d.ended = c.ended /\ d.err = c.err
  /\ d.finish = c.finish /\ d.expose = c.expose

LEMMA AddItemRun ==
  ASSUME NEW c \in Chats, NEW item
  PROVE  SameRun(c, AddItem(c, item))
BY DEF SameRun, AddItem, Chats

LEMMA CloseReasoningRun ==
  ASSUME NEW c \in Chats
  PROVE  SameRun(c, CloseReasoning(c).chat) /\ CloseReasoning(c).chat \in Chats
<1>1. CASE CloseReasoning(c).chat = c
  BY <1>1 DEF SameRun
<1>2. CASE CloseReasoning(c).chat = [c EXCEPT !.reasoningClosed = TRUE]
  BY <1>2 DEF SameRun, Chats
<1> QED BY <1>1, <1>2 DEF CloseReasoning, Queue

LEMMA AddMessageRun ==
  ASSUME NEW c \in Chats, NEW item, NEW delta
  PROVE  SameRun(c, AddMessage(c, item, delta).chat)
<1> DEFINE r == CloseReasoning(c)
           d == AddItem(r.chat, item)
<1>1. SameRun(c, r.chat) /\ r.chat \in Chats
  BY CloseReasoningRun
<1>2. AddMessage(c, item, delta).chat = c \/ AddMessage(c, item, delta).chat = d
  BY DEF AddMessage, Queue
<1> HIDE DEF r
<1>3. SameRun(r.chat, d)
  BY <1>1, AddItemRun
<1> HIDE DEF d
<1> QED BY <1>1, <1>2, <1>3 DEF SameRun

LEMMA AddContentRun ==
  ASSUME NEW c \in Chats
  PROVE  /\ SameRun(c, AddText(c).chat)
         /\ SameRun(c, AddRefusal(c).chat)
         /\ SameRun(c, AddReasoning(c).chat)
<1> DEFINE t == [c EXCEPT !.text = @ + 1]
           u == [c EXCEPT !.refusal = @ + 1]
           v == [c EXCEPT !.reasoning = @ + 1]
           w == AddItem(v, ReasoningItem)
<1>1. c.text \in Nat /\ c.refusal \in Nat /\ c.reasoning \in Nat
  BY DEF Chats
<1>2. c.text + 1 \in Nat /\ c.refusal + 1 \in Nat /\ c.reasoning + 1 \in Nat
  <2> HIDE DEF t, u, v, w
  <2> QED BY <1>1
<1>3. /\ t \in Chats /\ SameRun(c, t) /\ u \in Chats /\ SameRun(c, u)
      /\ v \in Chats /\ SameRun(c, v)
  BY <1>2 DEF Chats, SameRun
<1>4. /\ AddText(c) = AddMessage(t, TextItem, "output_text.delta")
      /\ AddRefusal(c) = AddMessage(u, RefusalItem, "refusal.delta")
  BY DEF AddText, AddRefusal
<1>5. AddReasoning(c).chat = v \/ AddReasoning(c).chat = w
  BY DEF AddReasoning, Queue
<1> HIDE DEF t, u, v
<1>6. SameRun(t, AddText(c).chat) /\ SameRun(u, AddRefusal(c).chat)
  BY <1>3, <1>4, AddMessageRun
<1>7. SameRun(v, w)
  BY <1>3, AddItemRun
<1> HIDE DEF w
<1> QED BY <1>3, <1>5, <1>6, <1>7 DEF SameRun

LEMMA AddToolDeltaRun ==
  ASSUME NEW c \in Chats, NEW i \in Calls, NEW id \in BOOLEAN, NEW name \in BOOLEAN, NEW n \in Nat
  PROVE  SameRun(c, AddToolDelta(c, i, id, name, n).chat)
<1> DEFINE m == Merge(c, i, id, name, n)
           r == CloseReasoning(m)
           d == AddItem(r.chat, i)
           res == AddToolDelta(c, i, id, name, n).chat
<1>1. m \in Chats /\ m = [c EXCEPT !.tools = m.tools]
  <2>1. m = Merge(c, i, id, name, n)
    OBVIOUS
  <2> HIDE DEF m
  <2> QED BY <2>1, MergeKeeps
<1>2. res = m \/ res = d
  BY DEF AddToolDelta, Queue
<1> HIDE DEF m, res
<1>3. SameRun(c, m)
  BY <1>1 DEF Chats, SameRun
<1>4. SameRun(m, r.chat) /\ r.chat \in Chats
  BY <1>1, CloseReasoningRun
<1> HIDE DEF r
<1>5. SameRun(r.chat, d)
  BY <1>4, AddItemRun
<1> HIDE DEF d
<1>6. SameRun(c, res)
  BY <1>2, <1>3, <1>4, <1>5 DEF SameRun
<1> QED BY <1>6 DEF res

-----------------------------------------------------------------------------
(* The adapter's log and queue.                                            *)

StreamInv ==
  /\ client \in {"messages", "hoard"} /\ wireAPI \in {"chat_completions", "responses"}
  /\ client = "hoard" => Chat
  /\ Numbered(chat)
  /\ chat.err => chat.ended
  /\ chat.ended => chat.started
  /\ queue \in Seq(WireEvents) /\ log \in Seq(WireEvents)
  /\ IF Chat THEN IF chat.ended /\ ~chat.err THEN ToldAll(log \o queue) ELSE Keeps(chat, log \o queue)
     ELSE log = <<>>

LEMMA NoEvents ==
  /\ <<>> \in Seq(WireEvents)
  /\ \A s \in Seq(WireEvents) : s \o <<>> = s /\ <<>> \o s = s
BY ConcatEmptySeq

LEMMA StreamInit == Init => StreamInv
<1> SUFFICES ASSUME Init PROVE StreamInv
  OBVIOUS
<1>1. PICK expose \in BOOLEAN :
        chat = [started |-> FALSE, ended |-> FALSE, err |-> FALSE, finish |-> "",
                text |-> 0, refusal |-> 0, reasoning |-> 0, expose |-> expose,
                reasoningClosed |-> FALSE, output |-> <<>>, tools |-> <<>>]
  BY DEF Init, ChatInit
<1>2. queue = <<>> /\ log = <<>> /\ log \o queue = <<>>
  <2>1. queue = <<>> /\ log = <<>>
    BY DEF Init, ChatInit
  <2> QED BY <2>1, NoEvents
<1>3. /\ <<>> \in OutputMaps /\ <<>> \in CallMaps
      /\ DOMAIN <<>> = {} /\ IsFiniteSet({}) /\ Cardinality({}) = 0
  <2>1. DOMAIN <<>> = {} /\ IsFiniteSet({}) /\ Cardinality({}) = 0
    BY FS_EmptySet
  <2>2. <<>> \in [{} -> Nat] /\ <<>> \in [{} -> ToolCalls]
    BY <2>1
  <2> QED BY <2>1, <2>2, OutputMapIntro, CallMapIntro
<1>4. chat \in Chats
  BY <1>1, <1>3 DEF Chats
<1>5. Numbered(chat)
  BY <1>1, <1>3, <1>4 DEF Numbered
<1>6. Told(<<>>, chat.output, DoneIn(chat))
  <2>1. chat.output = <<>> /\ DoneIn(chat) = {}
    BY <1>1 DEF DoneIn
  <2>2. AddsTo(<<>>, 0) = {} /\ Len(<<>>) = 0 /\ <<>> \in Seq(WireEvents)
    BY DEF AddsTo
  <2> QED BY <1>3, <2>1, <2>2 DEF Told
<1>7. Keeps(chat, <<>>) /\ ~chat.ended /\ ~chat.err
  BY <1>1, <1>5, <1>6 DEF Keeps
<1>8. /\ client \in {"messages", "hoard"} /\ wireAPI \in {"chat_completions", "responses"}
      /\ client = "hoard" => Chat
  BY DEF Init, Chat
<1> QED BY <1>2, <1>5, <1>7, <1>8, NoEvents DEF StreamInv

(* A method of the adapter was called, with an empty queue. *)
LEMMA ReceiveStep ==
  ASSUME StreamInv, Chat, queue = <<>>, ~chat.ended, NEW r, Continues(r, log), SameRun(chat, r.chat),
         Receive(r), UNCHANGED <<client, wireAPI, log>>
  PROVE  StreamInv'
<1>1. chat' = r.chat /\ queue' = r.events /\ log' = log /\ client' = client /\ wireAPI' = wireAPI
  BY DEF Receive
<1>2. Keeps(chat', log' \o queue') /\ queue' \in Seq(WireEvents) /\ ~chat'.ended /\ ~chat'.err
  BY <1>1 DEF Continues, SameRun, StreamInv
<1>3. Numbered(chat')
  BY <1>2 DEF Keeps
<1> QED BY <1>1, <1>2, <1>3 DEF StreamInv, Chat

LEMMA StreamIdle ==
  ASSUME StreamInv, Chat, queue = <<>>, ~chat.ended \/ chat.err
  PROVE  Keeps(chat, log) /\ chat \in Chats /\ log \in Seq(WireEvents)
BY NoEvents DEF StreamInv, Keeps, Numbered

LEMMA AnnounceStep ==
  ASSUME StreamInv, Chat, Announce, UNCHANGED <<client, wireAPI, log>>
  PROVE  StreamInv'
<1> DEFINE d == [chat EXCEPT !.started = TRUE]
           ev == Lifecycle("created")
<1>1. queue = <<>> /\ ~chat.ended /\ chat' = d /\ queue' = <<ev>>
  BY DEF Announce, StreamInv
<1>2. Keeps(chat, log) /\ chat \in Chats /\ log \in Seq(WireEvents)
  BY <1>1, StreamIdle
<1>3. /\ d \in Chats /\ d.output = chat.output /\ d.tools = chat.tools /\ d.expose = chat.expose
      /\ d.reasoningClosed = chat.reasoningClosed /\ d.ended = chat.ended
      /\ d.err = chat.err
  BY <1>2 DEF Chats
<1>4. /\ ev \in WireEvents /\ ev.type = "created" /\ ev.item = 0
  <2>1. ev = [type |-> "created", kind |-> "", item |-> 0, output |-> -1, size |-> 0]
    BY DEF Lifecycle, Event
  <2>2. "" \in Kinds /\ "" # "function_call" /\ "created" \in WireTypes
    BY DEF Kinds, WireTypes
  <2>3. 0 \in Int /\ -1 \in Int /\ 0 \in Nat
    OBVIOUS
  <2> HIDE DEF ev
  <2> QED BY <2>1, <2>2, <2>3 DEF WireEvents
<1> HIDE DEF d, ev
<1>5. Keeps(d, log)
  BY <1>2, <1>3, KeepsSame
<1>6. Told(Append(log, ev), d.output, DoneIn(d))
  <2>1. ev.type # "output_item.added" /\ ev.type \notin LastTypes /\ ev.type # "output_item.done"
    BY <1>4 DEF LastTypes
  <2> QED BY <1>4, <1>5, <2>1, TellPart DEF Keeps
<1>7. log \o <<ev>> = Append(log, ev) /\ <<ev>> \in Seq(WireEvents)
  BY <1>2, <1>4, Joined3
<1>8. Keeps(chat', log' \o queue') /\ queue' \in Seq(WireEvents) /\ ~chat'.ended /\ log' = log
      /\ client' = client /\ wireAPI' = wireAPI /\ ~chat'.err
  BY <1>1, <1>3, <1>5, <1>6, <1>7 DEF Keeps, StreamInv
<1>9. Numbered(chat')
  BY <1>8 DEF Keeps
<1> QED BY <1>2, <1>8, <1>9 DEF StreamInv, Chat

(* A change of the fields that say how far the stream is. *)
LEMMA KeepRun ==
  ASSUME StreamInv, Chat, Reading, queue' = queue, UNCHANGED <<client, wireAPI, log>>,
         NEW finish \in {"", "stop", "length"},
         \/ chat' = [chat EXCEPT !.finish = finish]
         \/ chat' = [chat EXCEPT !.ended = TRUE, !.err = TRUE]
  PROVE  StreamInv'
<1>1. /\ Keeps(chat, log) /\ chat \in Chats /\ log \in Seq(WireEvents)
      /\ queue = <<>> /\ chat.started /\ ~chat.ended /\ ~chat.err
  BY StreamIdle DEF Reading, StreamInv
<1>2. /\ chat' \in Chats /\ chat'.output = chat.output /\ chat'.tools = chat.tools
      /\ chat'.expose = chat.expose /\ chat'.reasoningClosed = chat.reasoningClosed
      /\ chat'.ended <=> chat'.err
      /\ chat'.started
  BY <1>1 DEF Chats
<1>3. Keeps(chat', log)
  BY <1>1, <1>2, KeepsSame
<1>4. Numbered(chat')
  BY <1>3 DEF Keeps
<1>5. queue' = <<>> /\ log' \o queue' = log /\ log' = log
  BY <1>1, NoEvents
<1>6. IF chat'.ended /\ ~chat'.err THEN ToldAll(log' \o queue') ELSE Keeps(chat', log' \o queue')
  BY <1>2, <1>3, <1>5
<1>7. client' = client /\ wireAPI' = wireAPI /\ queue' = queue
  OBVIOUS
<1> QED BY <1>1, <1>2, <1>4, <1>5, <1>6, <1>7 DEF StreamInv, Chat

LEMMA EndStep ==
  ASSUME StreamInv, Chat, InnerEnds, UNCHANGED <<client, wireAPI, log>>
  PROVE  StreamInv'
<1>1. queue = <<>> /\ chat.started /\ ~chat.ended /\ ~chat.err /\ Reading
  BY DEF InnerEnds, Reading, StreamInv
<1>2. Keeps(chat, log) /\ chat \in Chats /\ log \in Seq(WireEvents)
  BY <1>1, StreamIdle
<1>3. CASE /\ chat' = [chat EXCEPT !.ended = TRUE, !.err = TRUE]
           /\ UNCHANGED queue
  BY <1>1, <1>3, KeepRun
<1>4. CASE /\ Complete(chat)
           /\ LET c == [chat EXCEPT !.finish = IF @ = "" THEN "stop" ELSE @]
                  r == FinishOutput(c) IN
                /\ chat' = [r.chat EXCEPT !.ended = TRUE]
                /\ queue' = Append(r.events, Terminal(c))
  <2> DEFINE finish == IF chat.finish = "" THEN "stop" ELSE chat.finish
             c == [chat EXCEPT !.finish = finish]
             r == FinishOutput(c)
  <2>1. chat' = [r.chat EXCEPT !.ended = TRUE] /\ queue' = Append(r.events, Terminal(c))
    BY <1>4
  <2>2. finish \in {"", "stop", "length"}
    BY <1>2 DEF Chats
  <2> HIDE DEF finish
  <2>3. /\ c \in Chats /\ c.output = chat.output /\ c.tools = chat.tools /\ c.expose = chat.expose
        /\ c.reasoningClosed = chat.reasoningClosed /\ c.err = chat.err /\ c.started = chat.started
    BY <1>2, <2>2 DEF Chats
  <2> HIDE DEF c
  <2>4. Keeps(c, log)
    BY <1>2, <2>3, KeepsSame
  <2>5. Complete(c)
    BY <1>4, <2>3 DEF Complete, Started
  <2>6. /\ queue' \in Seq(WireEvents) /\ ToldAll(log \o queue') /\ Numbered(r.chat)
        /\ r.chat = [c EXCEPT !.reasoningClosed = r.chat.reasoningClosed]
    BY <2>1, <2>4, <2>5, FinishTells
  <2> HIDE DEF r
  <2>7. r.chat \in Chats
    BY <2>6 DEF Numbered
  <2>8. /\ chat' \in Chats /\ chat'.output = r.chat.output /\ chat'.tools = r.chat.tools
        /\ chat'.expose = r.chat.expose /\ chat'.reasoningClosed = r.chat.reasoningClosed /\ chat'.ended
        /\ chat'.err = r.chat.err /\ chat'.started = r.chat.started
    BY <2>1, <2>7 DEF Chats
  <2>9. Numbered(chat')
    BY <2>6, <2>8 DEF Numbered
  <2>10. ~chat'.err /\ chat'.started
    BY <1>1, <2>3, <2>6, <2>7, <2>8 DEF Chats
  <2> QED BY <1>2, <2>6, <2>8, <2>9, <2>10 DEF StreamInv, Chat
<1> QED BY <1>3, <1>4 DEF InnerEnds


(* The events of a Responses upstream. *)
LEMMA ResponsesEventTypes == ResponsesEvents \subseteq WireEvents
<1>0. /\ 3 \in Int /\ 2 \in Nat /\ 1 \in Nat /\ 0 \in Nat
      /\ \A n \in 0 .. 1 : n \in Nat
      /\ \A n \in 0 .. 2 : n \in Nat
  OBVIOUS
<1>1. \A p \in Places : p[1] \in Int /\ p[2] \in Nat
  BY DEF Places, NoItem
<1>2. \A t \in WireTypes, k \in Kinds, i \in Int, o \in Nat, n \in Nat : Event(t, k, i, o, n) \in WireEvents
  <2> SUFFICES ASSUME NEW t \in WireTypes, NEW k \in Kinds, NEW i \in Int, NEW o \in Nat, NEW n \in Nat
               PROVE  Event(t, k, i, o, n) \in WireEvents
    OBVIOUS
  <2> DEFINE ev == Event(t, k, i, o, n)
  <2>1. ev = [type |-> t, kind |-> k, item |-> i, output |-> o, size |-> n] /\ o \in Int
    BY DEF Event
  <2> HIDE DEF ev
  <2>2. ev \in WireEvents
    BY <2>1 DEF WireEvents
  <2> QED BY <2>2 DEF ev
<1>3. ASSUME NEW t \in WireTypes PROVE Lifecycle(t) \in WireEvents
  <2> DEFINE ev == Lifecycle(t)
  <2>1. ev = [type |-> t, kind |-> "", item |-> 0, output |-> -1, size |-> 0]
    BY DEF Lifecycle, Event
  <2>2. "" \in Kinds /\ "" # "function_call"
    BY DEF Kinds
  <2>3. 0 \in Int /\ -1 \in Int /\ 0 \in Nat
    OBVIOUS
  <2> HIDE DEF ev
  <2>4. ev \in WireEvents
    BY <2>1, <2>2, <2>3 DEF WireEvents
  <2> QED BY <2>4 DEF ev
<1>4. /\ "output_text.delta" \in WireTypes
      /\ "refusal.delta" \in WireTypes
      /\ "refusal.done" \in WireTypes
      /\ "output_text.done" \in WireTypes
      /\ "content_part.done" \in WireTypes
      /\ "output_item.added" \in WireTypes
      /\ "function_call_arguments.delta" \in WireTypes
      /\ "function_call_arguments.done" \in WireTypes
      /\ "output_item.done" \in WireTypes
      /\ "created" \in WireTypes
      /\ "completed" \in WireTypes
      /\ "incomplete" \in WireTypes
      /\ "failed" \in WireTypes
      /\ "" \in Kinds /\ "function_call" \in Kinds
  BY DEF WireTypes, Kinds
<1>9a. \A p \in Places : \A n \in 0 .. 1 : Event("output_item.added", "function_call", p[1], p[2], n) \in WireEvents
  <2> TAKE p \in Places
  <2> TAKE n \in 0 .. 1
  <2>1. p[1] \in Int /\ p[2] \in Nat
    BY <1>1
  <2>2. n \in Nat
    BY <1>0
  <2> QED BY <1>2, <1>4, <2>1, <2>2, Zenon
<1>11a. \A p \in Places : \A n \in 0 .. 2 : Event("function_call_arguments.done", "", p[1], p[2], n) \in WireEvents
  <2> TAKE p \in Places
  <2> TAKE n \in 0 .. 2
  <2>1. p[1] \in Int /\ p[2] \in Nat
    BY <1>1
  <2>2. n \in Nat
    BY <1>0
  <2> QED BY <1>2, <1>4, <2>1, <2>2, Zenon
<1> DEFINE S1 == {Event("output_text.delta", "", 3, 2, 1), Event("refusal.delta", "", 3, 2, 1)}
           S2 == {Event("refusal.done", "", 3, 2, n) : n \in 0 .. 1}
           S3 == {Event(type, "", 3, 2, 0) : type \in {"output_text.done", "content_part.done"}}
           S4 == {Event("output_item.added", "function_call", p[1], p[2], n) : p \in Places, n \in 0 .. 1}
           S5 == {Event("function_call_arguments.delta", "", p[1], p[2], 1) : p \in Places}
           S6 == {Event("function_call_arguments.done", "", p[1], p[2], n) : p \in Places, n \in 0 .. 2}
           S7 == {Event("output_item.done", "function_call", p[1], p[2], 1) : p \in Places}
           S8 == {Lifecycle(type) : type \in {"created", "completed", "incomplete", "failed"}}
<1>5. ResponsesEvents = S1 \cup S2 \cup S3 \cup S4 \cup S5 \cup S6 \cup S7 \cup S8
  BY DEF ResponsesEvents
<1>6. S1 \subseteq WireEvents
  BY <1>0, <1>2, <1>4, ZenonT(60)
<1>7. S2 \subseteq WireEvents
  BY <1>0, <1>2, <1>4, ZenonT(60)
<1>8. ASSUME NEW ev \in S3 PROVE ev \in WireEvents
  <2>1. PICK type \in {"output_text.done", "content_part.done"} : ev = Event(type, "", 3, 2, 0)
    OBVIOUS
  <2> QED BY <1>0, <1>2, <1>4, <2>1, Zenon
<1>9. ASSUME NEW ev \in S4 PROVE ev \in WireEvents
  BY <1>9a
<1>10. ASSUME NEW ev \in S5 PROVE ev \in WireEvents
  <2>1. PICK p \in Places : ev = Event("function_call_arguments.delta", "", p[1], p[2], 1)
    OBVIOUS
  <2>2. p[1] \in Int /\ p[2] \in Nat
    BY <1>1
  <2> QED BY <1>0, <1>2, <1>4, <2>1, <2>2, Zenon
<1>11. S6 \subseteq WireEvents
  <2> DEFINE N == 0 .. 2
             G(p, n) == Event("function_call_arguments.done", "", p[1], p[2], n)
  <2>1. \A p \in Places : \A n \in N : G(p, n) \in WireEvents
    BY <1>11a
  <2>2. S6 = {G(p, n) : p \in Places, n \in N}
    OBVIOUS
  <2> HIDE DEF N, G, S6
  <2> QED BY <2>1, <2>2
<1>12. ASSUME NEW ev \in S7 PROVE ev \in WireEvents
  <2>1. PICK p \in Places : ev = Event("output_item.done", "function_call", p[1], p[2], 1)
    OBVIOUS
  <2>2. p[1] \in Int /\ p[2] \in Nat
    BY <1>1
  <2> QED BY <1>0, <1>2, <1>4, <2>1, <2>2, Zenon
<1>13. S8 \subseteq WireEvents
  BY <1>3, <1>4, Zenon
<1> HIDE DEF S1, S2, S3, S4, S5, S6, S7, S8
<1> QED BY <1>5, <1>6, <1>7, <1>8, <1>9, <1>10, <1>11, <1>12, <1>13

(* An event passes from the queue to the log. *)
LEMMA Handover ==
  ASSUME NEW s \in Seq(WireEvents), NEW q \in Seq(WireEvents), q # <<>>
  PROVE  /\ Head(q) \in WireEvents /\ Tail(q) \in Seq(WireEvents)
         /\ Append(s, Head(q)) \in Seq(WireEvents)
         /\ Append(s, Head(q)) \o Tail(q) = s \o q
<1> DEFINE h == Head(q)
           t == Tail(q)
<1>1. h \in WireEvents /\ t \in Seq(WireEvents) /\ q = <<h>> \o t
  OBVIOUS
<1> HIDE DEF h, t
<1>2. s \o <<h>> = Append(s, h) /\ <<h>> \in Seq(WireEvents) /\ Append(s, h) \in Seq(WireEvents)
  BY <1>1, Joined3
<1>3. (s \o <<h>>) \o t = s \o (<<h>> \o t)
  BY <1>1, <1>2, Assoc3, ZenonT(60)
<1> QED BY <1>1, <1>2, <1>3 DEF h, t

LEMMA StreamStep == StreamInv /\ [Next]_vars => StreamInv'
<1> SUFFICES ASSUME StreamInv, [Next]_vars PROVE StreamInv'
  OBVIOUS
<1>1. CASE ChatChunk
  <2>1. Chat /\ UNCHANGED <<client, wireAPI, log>>
    BY <1>1 DEF ChatChunk, Chat
  <2>2. ASSUME Reading PROVE /\ queue = <<>> /\ ~chat.ended
                             /\ Keeps(chat, log) /\ chat \in Chats
    BY <2>1, <2>2, StreamIdle DEF Reading
  <2>3. CASE ReceiveText
    <3>1. Continues(AddText(chat), log) /\ SameRun(chat, AddText(chat).chat)
      BY <2>2, <2>3, AddTextTells, AddContentRun DEF ReceiveText
    <3> QED BY <2>1, <2>2, <2>3, <3>1, ReceiveStep DEF ReceiveText
  <2>4. CASE ReceiveRefusal
    <3>1. Continues(AddRefusal(chat), log) /\ SameRun(chat, AddRefusal(chat).chat)
      BY <2>2, <2>4, AddRefusalTells, AddContentRun DEF ReceiveRefusal
    <3> QED BY <2>1, <2>2, <2>4, <3>1, ReceiveStep DEF ReceiveRefusal
  <2>5. CASE ReceiveReasoning
    <3>1. Continues(AddReasoning(chat), log) /\ SameRun(chat, AddReasoning(chat).chat)
      BY <2>2, <2>5, AddReasoningTells, AddContentRun DEF ReceiveReasoning
    <3> QED BY <2>1, <2>2, <2>5, <3>1, ReceiveStep DEF ReceiveReasoning
  <2>6. ASSUME NEW i \in Calls, NEW id \in BOOLEAN, NEW name \in BOOLEAN, NEW n \in 0 .. 1,
               ReceiveToolDelta(i, id, name, n)
        PROVE  StreamInv'
    <3> DEFINE r == AddToolDelta(chat, i, id, name, n)
    <3>0. n \in Nat /\ Reading /\ Receive(r)
      BY <2>6 DEF ReceiveToolDelta
    <3>1. Continues(r, log) /\ SameRun(chat, r.chat)
      BY <2>2, <3>0, AddToolDeltaTells, AddToolDeltaRun
    <3> HIDE DEF r
    <3> QED BY <2>1, <2>2, <3>0, <3>1, ReceiveStep
  <2>7. ASSUME NEW reason \in {"stop", "length"}, ReceiveFinish(reason) PROVE StreamInv'
    <3>1. Reading /\ queue' = queue /\ chat' = [chat EXCEPT !.finish = reason]
          /\ reason \in {"", "stop", "length"}
      BY <2>7 DEF ReceiveFinish
    <3> QED BY <2>1, <3>1, KeepRun
  <2> QED BY <1>1, <2>3, <2>4, <2>5, <2>6, <2>7 DEF ChatChunk
<1>2. CASE ChatEdge
  <2>1. Chat /\ UNCHANGED <<client, wireAPI, log>>
    BY <1>2 DEF ChatEdge, Chat
  <2>2. CASE Announce
    BY <2>1, <2>2, AnnounceStep
  <2>3. CASE InnerFails
    <3>1. Reading /\ queue' = queue /\ chat' = [chat EXCEPT !.ended = TRUE, !.err = TRUE]
      BY <2>3 DEF InnerFails
    <3> QED BY <2>1, <3>1, KeepRun
  <2>4. CASE InnerEnds
    BY <2>1, <2>4, EndStep
  <2> QED BY <1>2, <2>2, <2>3, <2>4 DEF ChatEdge
<1>3. CASE ResponsesEvent
  <2>1. PICK ev \in ResponsesEvents : queue' = <<ev>>
    BY <1>3 DEF ResponsesEvent
  <2>2. ev \in WireEvents
    BY ResponsesEventTypes
  <2>3. <<ev>> \in Seq(WireEvents)
    BY <2>2
  <2>4. ~Chat /\ UNCHANGED <<chat, client, wireAPI, log>>
    BY <1>3 DEF ResponsesEvent, Chat
  <2> QED BY <2>1, <2>3, <2>4 DEF StreamInv, Chat
<1>4. ASSUME queue # <<>>, queue' = Tail(queue), UNCHANGED <<chat, client, wireAPI>>,
             log' = IF Chat THEN Append(log, Head(queue)) ELSE log
      PROVE  StreamInv'
  <2>1. log \in Seq(WireEvents) /\ queue \in Seq(WireEvents)
    BY DEF StreamInv
  <2>2. /\ Tail(queue) \in Seq(WireEvents) /\ Append(log, Head(queue)) \in Seq(WireEvents)
        /\ Append(log, Head(queue)) \o Tail(queue) = log \o queue
    BY <1>4, <2>1, Handover
  <2>3. Chat' <=> Chat
    BY <1>4 DEF Chat
  <2>4. CASE Chat
    <3>1. log' \o queue' = log \o queue /\ log' \in Seq(WireEvents) /\ queue' \in Seq(WireEvents)
      BY <1>4, <2>2, <2>4
    <3> QED BY <1>4, <2>3, <2>4, <3>1 DEF StreamInv
  <2>5. CASE ~Chat
    BY <1>4, <2>2, <2>3, <2>5 DEF StreamInv
  <2> QED BY <2>4, <2>5
<1>5. CASE Deliver
  <2>1. /\ queue # <<>> /\ queue' = Tail(queue) /\ UNCHANGED <<chat, client, wireAPI>>
        /\ log' = IF Chat THEN Append(log, Head(queue)) ELSE log
    BY <1>5 DEF Deliver, Chat
  <2> QED BY <1>4, <2>1
<1>6. CASE Forward
  <2>1. /\ queue # <<>> /\ queue' = Tail(queue) /\ UNCHANGED <<chat, client, wireAPI>>
        /\ log' = IF Chat THEN Append(log, Head(queue)) ELSE log
    BY <1>6 DEF Forward, StreamInv
  <2> QED BY <1>4, <2>1
<1>7. CASE UNCHANGED <<chat, queue, client, wireAPI, log>>
  BY <1>7 DEF StreamInv, Chat
<1> QED BY <1>1, <1>2, <1>3, <1>5, <1>6, <1>7 DEF Next, Broken, Done, vars, chatVars


LEMMA PrefixFits ==
  ASSUME NEW L \in Seq(WireEvents), NEW Q \in Seq(WireEvents), NEW j \in DOMAIN L, Fits(L \o Q, j)
  PROVE  Fits(L, j)
<1> DEFINE B == L \o Q
<1>1. /\ \A m \in 1 .. Len(L) : B[m] = L[m]
      /\ DOMAIN L = 1 .. Len(L) /\ Len(L) \in Nat
  OBVIOUS
<1>2. Fits(B, j)
  OBVIOUS
<1> HIDE DEF B
<1>3. \A m \in 1 .. j - 1 : B[m] = L[m]
  BY <1>1
<1>4. B[j] = L[j] /\ AddsTo(B, j - 1) = AddsTo(L, j - 1)
  BY <1>1, <1>3 DEF AddsTo
<1>5. \A m \in 1 .. j - 1 : \A i : Adds(B, m, i) <=> Adds(L, m, i)
  BY <1>3 DEF Adds
<1>6. \A m \in 1 .. j - 1 : \A i : Ends(B, m, i) <=> Ends(L, m, i)
  BY <1>3 DEF Ends
<1> QED BY <1>2, <1>3, <1>4, <1>5, <1>6 DEF Fits

LEMMA LogFits ==
  ASSUME StreamInv
  PROVE  /\ log \in Seq(WireEvents)
         /\ \A j \in DOMAIN log : Fits(log, j)
         /\ \A j \in DOMAIN log : log[j].type \in LastTypes => j = Len(log)
<1>0. log \in Seq(WireEvents) /\ queue \in Seq(WireEvents)
  BY DEF StreamInv
<1>1. CASE ~Chat
  BY <1>0, <1>1 DEF StreamInv
<1>2. CASE Chat
  <2> DEFINE A == log \o queue
  <2>1. /\ \A j \in DOMAIN A : Fits(A, j)
        /\ \A j \in DOMAIN A : A[j].type \in LastTypes => j = Len(A)
    BY <1>2 DEF StreamInv, ToldAll, Keeps, Told
  <2>2. /\ DOMAIN log = 1 .. Len(log) /\ Len(log) \in Nat /\ Len(A) \in Nat /\ Len(log) <= Len(A)
        /\ \A j \in DOMAIN log : A[j] = log[j] /\ j \in DOMAIN A
    BY <1>0
  <2>3. ASSUME NEW j \in DOMAIN log PROVE Fits(log, j)
    <3>1. Fits(log \o queue, j)
      BY <2>1, <2>2
    <3> QED BY <1>0, <3>1, PrefixFits
  <2> HIDE DEF A
  <2>4. ASSUME NEW j \in DOMAIN log, log[j].type \in LastTypes PROVE j = Len(log)
    <3>1. j = Len(A)
      BY <2>1, <2>2, <2>4
    <3> QED BY <2>2, <3>1
  <2> QED BY <1>0, <2>3, <2>4
<1> QED BY <1>1, <1>2

LEMMA Bracketed == StreamInv => ItemsBracketed
<1> SUFFICES ASSUME StreamInv PROVE ItemsBracketed
  OBVIOUS
<1>1. /\ log \in Seq(WireEvents)
      /\ \A j \in DOMAIN log : Fits(log, j)
      /\ \A j \in DOMAIN log : log[j].type \in LastTypes => j = Len(log)
  BY LogFits
<1>2. DOMAIN log = 1 .. Len(log) /\ Len(log) \in Nat
  BY <1>1
<1> SUFFICES ASSUME NEW j \in DOMAIN log
    PROVE LET ev == log[j]
              added == {m \in 1 .. j - 1 : log[m].type = "output_item.added"} IN
      /\ ev.type = "output_item.added" =>
           ev.output = Cardinality(added) /\ Of(ev.item, "output_item.added") = {j}
      /\ ev.type = "output_item.added" /\ (\E m \in added : log[m].item = ReasoningItem) =>
           \E m \in Of(ReasoningItem, "output_item.done") : m < j
      /\ ev.item # 0 /\ ev.type # "output_item.added" =>
           /\ \E m \in added : log[m].item = ev.item /\ log[m].output = ev.output
           /\ \A m \in Of(ev.item, "output_item.done") : m >= j
      /\ ev.type \in {"completed", "incomplete"} =>
           \A item \in ItemsOf : Of(item, "output_item.done") # {}
  BY DEF ItemsBracketed
<1> DEFINE ev == log[j]
           added == {m \in 1 .. j - 1 : log[m].type = "output_item.added"}
<1>3. Fits(log, j) /\ j \in 1 .. Len(log) /\ j \in Nat
  BY <1>1, <1>2
<1>4. \A m : m \in 1 .. j - 1 <=> m \in DOMAIN log /\ m < j
  BY <1>2, <1>3
<1>5. ASSUME ev.type = "output_item.added"
      PROVE  ev.output = Cardinality(added) /\ Of(ev.item, "output_item.added") = {j}
  <2>1. ev.output = Cardinality(added)
    BY <1>3, <1>5 DEF Fits, AddsTo
  <2>2. j \in Of(ev.item, "output_item.added")
    BY <1>5 DEF Of
  <2>3. ASSUME NEW m \in Of(ev.item, "output_item.added"), m # j PROVE FALSE
    <3>1. m \in DOMAIN log /\ log[m].item = ev.item /\ log[m].type = "output_item.added"
      BY <2>3 DEF Of
    <3>2. CASE m < j
      <4>1. m \in 1 .. j - 1 /\ Adds(log, m, ev.item)
        BY <1>4, <3>1, <3>2 DEF Adds
      <4> QED BY <1>3, <1>5, <4>1 DEF Fits
    <3>3. CASE j < m
      <4>1. j \in 1 .. m - 1 /\ Adds(log, j, log[m].item) /\ Fits(log, m)
        BY <1>1, <1>2, <1>3, <1>5, <3>1, <3>3 DEF Adds
      <4> QED BY <3>1, <4>1 DEF Fits
    <3> QED BY <1>2, <1>3, <2>3, <3>1, <3>2, <3>3
  <2> QED BY <2>1, <2>2, <2>3
<1>6. ASSUME ev.type = "output_item.added", \E m \in added : log[m].item = ReasoningItem
      PROVE  \E m \in Of(ReasoningItem, "output_item.done") : m < j
  <2>1. \E m \in 1 .. j - 1 : Adds(log, m, ReasoningItem)
    BY <1>6 DEF Adds
  <2>2. PICK m \in 1 .. j - 1 : Ends(log, m, ReasoningItem)
    BY <1>3, <1>6, <2>1 DEF Fits
  <2> QED BY <1>4, <2>2 DEF Ends, Of
<1>7. ASSUME ev.item # 0, ev.type # "output_item.added"
      PROVE  /\ \E m \in added : log[m].item = ev.item /\ log[m].output = ev.output
             /\ \A m \in Of(ev.item, "output_item.done") : m >= j
  <2>1. /\ \E m \in 1 .. j - 1 : Adds(log, m, ev.item) /\ log[m].output = ev.output
        /\ \A m \in 1 .. j - 1 : ~Ends(log, m, ev.item)
    BY <1>3, <1>7 DEF Fits
  <2>2. \E m \in added : log[m].item = ev.item /\ log[m].output = ev.output
    BY <2>1 DEF Adds
  <2>3. \A m \in DOMAIN log : m < j => ~Ends(log, m, ev.item)
    BY <1>4, <2>1
  <2>4. \A m \in Of(ev.item, "output_item.done") : m \in DOMAIN log /\ Ends(log, m, ev.item)
    BY DEF Of, Ends
  <2> HIDE DEF ev, added
  <2>5. \A m \in Of(ev.item, "output_item.done") : m >= j
    BY <1>2, <1>3, <2>3, <2>4
  <2> QED BY <2>2, <2>5
<1>8. ASSUME ev.type \in {"completed", "incomplete"}, NEW item \in ItemsOf
      PROVE  Of(item, "output_item.done") # {}
  <2>1. ev.type \in LastTypes /\ j = Len(log)
    BY <1>1, <1>8 DEF LastTypes
  <2>2. PICK m \in DOMAIN log : log[m].type = "output_item.added" /\ log[m].item = item
    BY DEF ItemsOf
  <2>3. m # j
    BY <1>8, <2>2
  <2>4. m \in 1 .. j - 1
    BY <1>2, <2>1, <2>2, <2>3
  <2>5. PICK k \in 1 .. j - 1 : Ends(log, k, item)
    BY <1>3, <2>1, <2>2, <2>4 DEF Fits
  <2> QED BY <1>4, <2>5 DEF Ends, Of
<1> QED BY <1>5, <1>6, <1>7, <1>8

(* The adapter's output items are bracketed: whatever the chat stream      *)
(* sends, AddText, AddRefusal, AddReasoning and AddToolDelta add each item *)
(* once, number it in order and close the reasoning first, and             *)
(* finishOutput closes every item before the response ends.                *)
THEOREM ItemsStayBracketed == Spec => []ItemsBracketed
<1>1. Spec => []StreamInv
  BY StreamInit, StreamStep, PTL DEF Spec
<1> QED BY <1>1, Bracketed, PTL

-----------------------------------------------------------------------------
(* The client's view: the encoder and what it has sent.                    *)

ShowInv ==
  /\ enc \in Encoders
  /\ IF enc.terminal THEN Over(sse) ELSE Shows(enc, sse)

LEMMA ShowInit == Init => ShowInv
<1> SUFFICES ASSUME Init PROVE ShowInv
  OBVIOUS
<1>1. enc = NewStreamEncoder /\ sse = <<>>
  BY DEF Init, EncoderInit
<1>2. DOMAIN <<>> = {} /\ IsFiniteSet({}) /\ Cardinality({}) = 0
  BY FS_EmptySet
<1>3. <<>> \in ToolMaps
  <2>1. <<>> \in [{} -> StreamTools]
    BY <1>2
  <2> QED BY <1>2, <2>1, ToolMapIntro
<1>4. enc \in Encoders /\ ~enc.terminal /\ enc.nextIndex = 0 /\ enc.tools = <<>> /\ ~enc.textOpen
  BY <1>1, <1>3 DEF NewStreamEncoder, Encoders, StopReasons
<1>5. OpenIn(enc) = {} /\ Distinct(enc)
  BY <1>2, <1>4 DEF OpenIn, Distinct
<1>6. Running(<<>>, 0, {})
  <2>1. Starts(<<>>, 0) = {} /\ Opened(<<>>, 0) = {} /\ Len(<<>>) = 0 /\ <<>> \in Seq(Sse)
    BY DEF Starts, Opened
  <2> QED BY <1>2, <2>1 DEF Running
<1> QED BY <1>1, <1>4, <1>5, <1>6 DEF ShowInv, Shows

LEMMA ShowStep == StreamInv /\ ShowInv /\ [Next]_vars => ShowInv'
<1> SUFFICES ASSUME StreamInv, ShowInv, [Next]_vars PROVE ShowInv'
  OBVIOUS
<1>1. ASSUME NEW r, Good(r, sse), enc' = r.enc, sse' = sse \o r.events PROVE ShowInv'
  BY <1>1 DEF Good, ShowInv, Shows
<1>2. CASE Deliver
  <2>1. PICK bad \in BOOLEAN : HandleResponsesEvent(Head(queue), bad)
    BY <1>2 DEF Deliver
  <2>2. queue # <<>> /\ ~enc.terminal
    BY <1>2 DEF Deliver
  <2>3. Head(queue) \in WireEvents
    BY <2>2, Handover DEF StreamInv
  <2>4. Shows(enc, sse)
    BY <2>2 DEF ShowInv
  <2>5. Good(Encode(enc, Head(queue), bad), sse)
    BY <2>3, <2>4, EncodeGood
  <2>6. /\ enc' = Encode(enc, Head(queue), bad).enc
        /\ sse' = sse \o Encode(enc, Head(queue), bad).events
    BY <2>1, <2>2 DEF HandleResponsesEvent
  <2> QED BY <1>1, <2>5, <2>6
<1>3. CASE Broken
  <2>1. Shows(enc, sse)
    BY <1>3 DEF Broken, ShowInv
  <2>2. Good(Fail(enc), sse)
    BY <2>1, FailGood
  <2> QED BY <1>1, <1>3, <2>2 DEF Broken
<1>4. CASE UNCHANGED <<enc, sse>>
  BY <1>4 DEF ShowInv
<1> QED BY <1>2, <1>3, <1>4
  DEF Next, ChatChunk, ChatEdge, ResponsesEvent, Forward, Done, vars, encoderVars


LEMMA FewStarts ==
  ASSUME NEW s \in Seq(Sse), NEW n \in Nat
  PROVE  Cardinality(Starts(s, n)) \in 0 .. n
<1>1. IsFiniteSet(1 .. n) /\ Cardinality(1 .. n) = n
  BY FS_Interval
<1>2. Starts(s, n) \subseteq 1 .. n
  BY DEF Starts
<1>3. IsFiniteSet(Starts(s, n)) /\ Cardinality(Starts(s, n)) <= n
  BY <1>1, <1>2, FS_Subset
<1>4. Cardinality(Starts(s, n)) \in Nat
  BY <1>3, FS_CardinalityType
<1> QED BY <1>3, <1>4

LEMMA WellFormed == ShowInv => BlocksWellFormed
<1> SUFFICES ASSUME ShowInv PROVE BlocksWellFormed
  OBVIOUS
<1>1. /\ sse \in Seq(Sse)
      /\ \A j \in DOMAIN sse : Proper(sse, j)
      /\ \A j \in DOMAIN sse : sse[j].type \in {"message_stop", "error"} => j = Len(sse) /\ enc.terminal
  BY DEF ShowInv, Shows, Running, Over
<1>2. DOMAIN sse = 1 .. Len(sse) /\ Len(sse) \in Nat
  BY <1>1
<1> SUFFICES ASSUME NEW j \in DOMAIN sse
    PROVE LET ev == sse[j]
              started == {m \in 1 .. j - 1 : sse[m].type = "content_block_start"} IN
      /\ ev.type = "content_block_start" => ev.index = Cardinality(started)
      /\ ev.type \in {"content_block_delta", "content_block_stop"} =>
           ev.index \in OpenBlocks(j - 1)
      /\ ev.type = "message_stop" => OpenBlocks(j - 1) = {}
      /\ ev.type \in {"message_stop", "error"} => j = Len(sse) /\ enc.terminal
  BY DEF BlocksWellFormed
<1>3. Proper(sse, j) /\ j - 1 \in 0 .. Len(sse)
  BY <1>1, <1>2
<1>4. OpenBlocks(j - 1) \subseteq Opened(sse, j - 1)
  <2>1. \A i \in 0 .. Len(sse) : i \in Nat
    BY <1>2
  <2> QED BY <2>1 DEF OpenBlocks, Opened
<1>5. Opened(sse, j - 1) \subseteq OpenBlocks(j - 1)
  <2> SUFFICES ASSUME NEW i \in Opened(sse, j - 1) PROVE i \in OpenBlocks(j - 1)
    OBVIOUS
  <2>1. PICK k \in 1 .. j - 1 : sse[k] = BlockStart(i)
    BY DEF Opened
  <2>2. k \in DOMAIN sse /\ k - 1 \in Nat /\ k - 1 <= Len(sse)
    BY <1>2, <1>3, <2>1
  <2>3. sse[k].type = "content_block_start" /\ sse[k].index = i
    BY <2>1 DEF BlockStart
  <2>4. i = Cardinality(Starts(sse, k - 1))
    BY <1>1, <2>2, <2>3 DEF Proper
  <2>5. i \in 0 .. k - 1
    BY <1>1, <2>2, <2>4, FewStarts
  <2>6. i \in 0 .. Len(sse)
    BY <1>2, <2>2, <2>5
  <2> QED BY <2>6 DEF Opened, OpenBlocks
<1>6. Starts(sse, j - 1) = {m \in 1 .. j - 1 : sse[m].type = "content_block_start"}
  BY DEF Starts
<1>7. OpenBlocks(j - 1) = Opened(sse, j - 1)
  BY <1>4, <1>5
<1> QED BY <1>1, <1>3, <1>6, <1>7 DEF Proper

(* The Anthropic stream is well formed: whatever events an upstream sends, *)
(* in whatever order, the StreamEncoder numbers its blocks, writes only to *)
(* open ones, closes them all before message_stop, and ends the message    *)
(* once.                                                                   *)
THEOREM BlocksStayWellFormed == Spec => []BlocksWellFormed
<1>1. Spec => [](StreamInv /\ ShowInv)
  <2>1. Init => StreamInv /\ ShowInv
    BY StreamInit, ShowInit
  <2>2. (StreamInv /\ ShowInv) /\ [Next]_vars => (StreamInv /\ ShowInv)'
    BY StreamStep, ShowStep
  <2> QED BY <2>1, <2>2, PTL DEF Spec
<1> QED BY <1>1, WellFormed, PTL


-----------------------------------------------------------------------------
(* The handover from the adapter to the encoder of a Messages client.      *)

(* The tool calls whose item was added. *)
Begun(c) == DOMAIN c.tools \cap DOMAIN c.output

IsNew(ev) == ev.type = "output_item.added" /\ ev.kind = "function_call"

(* What the encoder has not seen yet: the delta at the end of the queue,   *)
(* and the tool call added at its head.                                    *)
Pending(q, type, item) ==
  IF q # <<>> /\ q[Len(q)].type = type /\ q[Len(q)].item = item THEN q[Len(q)].size ELSE 0

(* How much text is in the queue. *)
Pend(q) ==
  Pending(q, "output_text.delta", TextItem) + Pending(q, "refusal.delta", RefusalItem)

NewIn(q) == IF q # <<>> /\ IsNew(q[1]) THEN {q[1].item} ELSE {}

Deltas == {"output_text.delta", "refusal.delta", "function_call_arguments.delta"}

OpeningTypes == {"created", "output_item.added", "content_part.added"}

(* The queue while the adapter reads. *)
Opening(q, c) ==
  \A k \in DOMAIN q :
    /\ q[k].type \in OpeningTypes \cup Deltas
    /\ q[k].type \in Deltas => k = Len(q) /\ q[k].size # 0
    /\ IsNew(q[k]) => /\ k = 1 /\ q[k].size = 0 /\ q[k].item \in Begun(c)
                      /\ q[k].output = c.output[q[k].item]
    /\ q[k].type = "output_text.delta" => q[k].item = TextItem
    /\ q[k].type = "refusal.delta" => q[k].item = RefusalItem
    /\ q[k].type = "function_call_arguments.delta" => q[k].item \in Begun(c)

StopOf(e) == IF DOMAIN e.tools = {} THEN "end_turn" ELSE "tool_use"

(* Apart from what is in the queue the encoder knows what the adapter      *)
(* knows.                                                                  *)
Agree(q, c, e) ==
  /\ DOMAIN e.tools = Begun(c) \ NewIn(q)
  /\ \A i \in DOMAIN e.tools :
       /\ e.tools[i].output = c.output[i] /\ ~e.tools[i].closed
       /\ e.tools[i].args + Pending(q, "function_call_arguments.delta", i) = c.tools[i].args
  /\ \A i \in NewIn(q) : Pending(q, "function_call_arguments.delta", i) = c.tools[i].args
  /\ e.refusalText + Pending(q, "refusal.delta", RefusalItem) = c.refusal
  /\ c.refusal = 0 => e.stopReason = StopOf(e)

LEMMA TailOf ==
  ASSUME NEW q \in Seq(WireEvents), q # <<>>
  PROVE  /\ Head(q) = q[1] /\ q[1] \in WireEvents /\ 1 \in DOMAIN q /\ DOMAIN q = 1 .. Len(q)
         /\ Len(q) \in Nat /\ Len(q) >= 1
         /\ Tail(q) \in Seq(WireEvents) /\ Len(Tail(q)) = Len(q) - 1
         /\ DOMAIN Tail(q) = 1 .. Len(q) - 1
         /\ \A k \in DOMAIN Tail(q) : k \in Nat /\ k + 1 \in DOMAIN q /\ Tail(q)[k] = q[k + 1]
         /\ Tail(q) = <<>> <=> Len(q) = 1
<1>1. Tail(q) \in Seq(WireEvents) /\ Len(Tail(q)) = Len(q) - 1
  OBVIOUS
<1>2. Tail(q) = <<>> <=> Len(Tail(q)) = 0
  BY <1>1, EmptySeq
<1>3. Len(q) \in Nat /\ Len(q) >= 1 /\ Head(q) = q[1] /\ DOMAIN q = 1 .. Len(q) /\ q[1] \in WireEvents
  OBVIOUS
<1>4. \A k \in 1 .. Len(q) - 1 : Tail(q)[k] = q[k + 1]
  OBVIOUS
<1>5. DOMAIN Tail(q) = 1 .. Len(q) - 1
  BY <1>1
<1>6. \A k \in 1 .. Len(q) - 1 : k \in Nat /\ k + 1 \in 1 .. Len(q)
  BY <1>3
<1>7. Tail(q) = <<>> <=> Len(q) = 1
  BY <1>1, <1>2, <1>3
<1>8. 1 \in DOMAIN q
  BY <1>3
<1> QED BY <1>1, <1>3, <1>4, <1>5, <1>6, <1>7, <1>8

(* The rest of the queue. *)
LEMMA OpeningRest ==
  ASSUME NEW q \in Seq(WireEvents), q # <<>>, NEW c, Opening(q, c)
  PROVE  /\ Opening(Tail(q), c)
         /\ NewIn(Tail(q)) = {}
         /\ Tail(q) = <<>> => \A type, item : Pending(Tail(q), type, item) = 0
         /\ Tail(q) # <<>> => \A type, item : Pending(Tail(q), type, item) = Pending(q, type, item)
         /\ q[1].type \in Deltas => Tail(q) = <<>>
         /\ Tail(q) = <<>> => \A type, item : Pending(q, type, item) =
                                IF q[1].type = type /\ q[1].item = item THEN q[1].size ELSE 0
<1> DEFINE t == Tail(q)
<1>1. /\ 1 \in DOMAIN q /\ Len(q) \in Nat /\ Len(q) >= 1
      /\ Len(t) = Len(q) - 1 /\ DOMAIN t = 1 .. Len(q) - 1
      /\ \A k \in DOMAIN t : k \in Nat /\ k + 1 \in DOMAIN q /\ t[k] = q[k + 1]
      /\ t = <<>> <=> Len(q) = 1
  BY TailOf
<1> HIDE DEF t
<1>2. ASSUME NEW k \in DOMAIN t
      PROVE  /\ t[k].type \in OpeningTypes \cup Deltas
             /\ t[k].type \in Deltas => k = Len(t) /\ t[k].size # 0
             /\ ~IsNew(t[k])
             /\ t[k].type = "output_text.delta" => t[k].item = TextItem
             /\ t[k].type = "refusal.delta" => t[k].item = RefusalItem
             /\ t[k].type = "function_call_arguments.delta" => t[k].item \in Begun(c)
  <2>1. k \in Nat /\ k + 1 \in DOMAIN q /\ t[k] = q[k + 1] /\ k >= 1 /\ k + 1 # 1
    BY <1>1
  <2>2. k + 1 = Len(q) <=> k = Len(t)
    BY <1>1, <2>1
  <2> QED BY <2>1, <2>2 DEF Opening
<1>3. Opening(t, c)
  BY <1>2 DEF Opening
<1>4. NewIn(t) = {}
  <2>1. t # <<>> => 1 \in DOMAIN t
    BY <1>1
  <2> QED BY <1>2, <2>1 DEF NewIn
<1>5. t = <<>> => \A type, item : Pending(t, type, item) = 0
  BY DEF Pending
<1>6. ASSUME t # <<>> PROVE \A type, item : Pending(t, type, item) = Pending(q, type, item)
  <2>1. Len(t) \in DOMAIN t /\ Len(t) + 1 = Len(q)
    BY <1>1, <1>6
  <2>2. t[Len(t)] = q[Len(q)]
    BY <1>1, <2>1
  <2> QED BY <1>6, <2>2 DEF Pending
<1>7. q[1].type \in Deltas => t = <<>>
  BY <1>1 DEF Opening
<1>8. t = <<>> => \A type, item : Pending(q, type, item) =
                    IF q[1].type = type /\ q[1].item = item THEN q[1].size ELSE 0
  BY <1>1 DEF Pending
<1> QED BY <1>3, <1>4, <1>5, <1>6, <1>7, <1>8 DEF t

(* The encoder's state apart from the blocks. *)
SameWork(e, d) ==
  /\ d.tools = e.tools /\ d.refusalText = e.refusalText
  /\ d.stopReason = e.stopReason /\ d.terminal = e.terminal

LEMMA TextDeltaWork ==
  ASSUME NEW e \in Encoders, NEW n
  PROVE  SameWork(e, TextDelta(e, n).enc)
<1> DEFINE d == [e EXCEPT !.textOpen = TRUE, !.textIndex = e.nextIndex, !.nextIndex = @ + 1]
<1>1. TextDelta(e, n).enc = e \/ TextDelta(e, n).enc = d
  BY DEF TextDelta, Emit
<1>2. SameWork(e, d) /\ SameWork(e, e)
  BY DEF SameWork, Encoders
<1> QED BY <1>1, <1>2

LEMMA CloseTextWork ==
  ASSUME NEW e \in Encoders
  PROVE  SameWork(e, CloseText(e).enc) /\ CloseText(e).enc \in Encoders
<1>1. CloseText(e).enc = e \/ CloseText(e).enc = [e EXCEPT !.textOpen = FALSE]
  BY DEF CloseText, Emit
<1> QED BY <1>1 DEF SameWork, Encoders

(* Deliver, while the adapter reads. *)
Streams(c, q, e) ==
  /\ Numbered(c) /\ q \in Seq(WireEvents) /\ e \in Encoders /\ ~e.terminal
  /\ Opening(q, c) /\ Agree(q, c, e)

LEMMA QuietDelivered ==
  ASSUME NEW c, NEW q, NEW e, Streams(c, q, e), q # <<>>, q[1].type \in OpeningTypes, ~IsNew(q[1]), NEW bad
  PROVE  Encode(e, q[1], bad) = Emit(e, <<>>) /\ Agree(Tail(q), c, e)
<1>1. q[1].type \in {"created", "output_item.added", "content_part.added"}
  BY DEF OpeningTypes
<1>2. Encode(e, q[1], bad) = Emit(e, <<>>)
  BY <1>1 DEF Encode, IsNew
<1>3. NewIn(q) = {} /\ NewIn(Tail(q)) = {}
  BY OpeningRest DEF NewIn, Streams
<1>4. \A item : /\ Pending(Tail(q), "refusal.delta", item) = Pending(q, "refusal.delta", item)
                /\ Pending(Tail(q), "function_call_arguments.delta", item)
                     = Pending(q, "function_call_arguments.delta", item)
  BY <1>1, OpeningRest DEF Streams
<1> QED BY <1>2, <1>3, <1>4 DEF Agree, Streams

LEMMA ContentDelivered ==
  ASSUME NEW c, NEW q, NEW e, Streams(c, q, e), q # <<>>,
         q[1].type \in {"output_text.delta", "refusal.delta"}, NEW bad
  PROVE  LET d == Encode(e, q[1], bad).enc IN ~d.terminal /\ Agree(Tail(q), c, d)
<1> DEFINE n == q[1].size
           r == [e EXCEPT !.stopReason = "refusal", !.refusalText = @ + n]
           d == Encode(e, q[1], bad).enc
<1>0. q \in Seq(WireEvents) /\ e \in Encoders /\ ~e.terminal /\ Opening(q, c) /\ Agree(q, c, e)
  BY DEF Streams
<1>1. 1 \in DOMAIN q /\ q[1] \in WireEvents
  BY <1>0, TailOf
<1>2. n \in Nat /\ n # 0
  <2>1. n \in Nat
    BY <1>1 DEF WireEvents
  <2> QED BY <1>0, <1>1, <2>1 DEF Opening, Deltas
<1>3. Tail(q) = <<>> /\ NewIn(Tail(q)) = {} /\ NewIn(q) = {}
  BY <1>0, OpeningRest DEF Deltas, NewIn, IsNew
<1>4. /\ \A type, item : Pending(Tail(q), type, item) = 0
      /\ \A type, item : Pending(q, type, item) = IF q[1].type = type /\ q[1].item = item THEN n ELSE 0
  BY <1>0, <1>3, OpeningRest
<1>5. \A i : Pending(q, "function_call_arguments.delta", i) = 0
  BY <1>4
<1> HIDE DEF n
<1>6. CASE q[1].type = "output_text.delta"
  <2>1. d = TextDelta(e, n).enc
    BY <1>6 DEF Encode, n
  <2> HIDE DEF d
  <2>2. SameWork(e, d)
    BY <1>0, <2>1, TextDeltaWork
  <2>3. Pending(q, "refusal.delta", RefusalItem) = 0
    BY <1>4, <1>6
  <2> QED BY <1>0, <1>3, <1>4, <1>5, <2>2, <2>3 DEF Agree, SameWork, StopOf, d
<1>7. CASE q[1].type = "refusal.delta"
  <2>1. d = TextDelta(r, n).enc
    BY <1>7 DEF Encode, n
  <2> HIDE DEF d
  <2>2. e.refusalText \in Nat
    BY <1>0 DEF Encoders
  <2>3. e.refusalText + n \in Nat
    <3> HIDE DEF r
    <3> QED BY <1>2, <2>2
  <2>4. r \in Encoders /\ r.tools = e.tools /\ r.refusalText = e.refusalText + n /\ r.terminal = e.terminal
    BY <1>0, <2>3 DEF Encoders, StopReasons
  <2> HIDE DEF r
  <2>5. SameWork(r, d)
    BY <2>1, <2>4, TextDeltaWork
  <2>6. q[1].item = RefusalItem /\ Pending(q, "refusal.delta", RefusalItem) = n
    BY <1>0, <1>1, <1>4, <1>7 DEF Opening
  <2>7. c.refusal = e.refusalText + n /\ c.refusal # 0
    <3>1. c.refusal = e.refusalText + n
      BY <1>0, <2>6 DEF Agree
    <3> QED BY <1>2, <2>2, <3>1
  <2>8. d.refusalText + 0 = c.refusal
    BY <2>3, <2>4, <2>5, <2>7 DEF SameWork
  <2>9. d.tools = e.tools /\ ~d.terminal
    BY <1>0, <2>4, <2>5 DEF SameWork
  <2> QED BY <1>0, <1>3, <1>4, <1>5, <2>7, <2>8, <2>9 DEF Agree, d
<1> QED BY <1>6, <1>7


(* The tool an event with an item id is about. *)
LEMMA ToolFound ==
  ASSUME NEW e, NEW ev, ev.item \in DOMAIN e.tools, ev.item # 0
  PROVE  /\ WithTool(e, ev, ToolDelta) = ToolDelta(e, ev.item, ev.size)
         /\ WithTool(e, ev, FinishTool) = FinishTool(e, ev.item, ev.size)
<1>1. FindTool(e, ev.item, ev.output) = {ev.item}
  BY DEF FindTool, NoItem
<1>2. {ev.item} # {} /\ (CHOOSE i \in {ev.item} : TRUE) = ev.item
  OBVIOUS
<1> QED BY <1>1, <1>2 DEF WithTool

LEMMA ArgumentsDelivered ==
  ASSUME NEW c, NEW q, NEW e, Streams(c, q, e), q # <<>>,
         q[1].type = "function_call_arguments.delta", NEW bad
  PROVE  LET d == Encode(e, q[1], bad).enc IN ~d.terminal /\ Agree(Tail(q), c, d)
<1> DEFINE n == q[1].size
           i == q[1].item
           tool == [e.tools[i] EXCEPT !.args = @ + n]
           d == [e EXCEPT !.tools = [e.tools EXCEPT ![i] = tool]]
<1>0. /\ q \in Seq(WireEvents) /\ e \in Encoders /\ ~e.terminal /\ Opening(q, c) /\ Agree(q, c, e)
      /\ Numbered(c)
  BY DEF Streams
<1>1. 1 \in DOMAIN q /\ q[1] \in WireEvents
  BY <1>0, TailOf
<1>2. n \in Nat /\ n # 0
  <2>1. n \in Nat
    BY <1>1 DEF WireEvents
  <2> QED BY <1>0, <1>1, <2>1 DEF Opening, Deltas
<1>3. Tail(q) = <<>> /\ NewIn(Tail(q)) = {} /\ NewIn(q) = {}
  BY <1>0, OpeningRest DEF Deltas, NewIn, IsNew
<1>4. /\ \A type, item : Pending(Tail(q), type, item) = 0
      /\ \A type, item : Pending(q, type, item) = IF q[1].type = type /\ q[1].item = item THEN n ELSE 0
  BY <1>0, <1>3, OpeningRest
<1>5. /\ \A j : Pending(q, "function_call_arguments.delta", j) = IF j = i THEN n ELSE 0
      /\ Pending(q, "refusal.delta", RefusalItem) = 0
  BY <1>4
<1>6. i \in Begun(c)
  BY <1>0, <1>1 DEF Opening
<1>7. i \in DOMAIN e.tools /\ i # 0
  BY <1>0, <1>3, <1>6, ItemFacts DEF Agree, Begun
<1>8. /\ e.tools \in [DOMAIN e.tools -> StreamTools]
      /\ \A j \in DOMAIN e.tools : e.tools[j] \in StreamTools /\ e.tools[j].args \in Nat
  <2>1. e.tools \in ToolMaps
    BY <1>0 DEF Encoders
  <2> QED BY <2>1, ToolMapFacts
<1>9. Encode(e, q[1], bad) = ToolDelta(e, i, n)
  <2>1. Encode(e, q[1], bad) = WithTool(e, q[1], ToolDelta)
    BY DEF Encode
  <2> QED BY <1>7, <2>1, ToolFound
<1> HIDE DEF n, i
<1>10. ToolDelta(e, i, n).enc = d
  <2>1. ~e.tools[i].closed
    BY <1>0, <1>7 DEF Agree
  <2>2. ToolDelta(e, i, n) = Emit([e EXCEPT !.tools[i].args = @ + n], <<BlockDelta(e.tools[i].index, n)>>)
    BY <1>2, <2>1 DEF ToolDelta
  <2>3. [e EXCEPT !.tools[i].args = @ + n] = d
    BY <1>0, <1>7, <1>8 DEF Encoders
  <2> QED BY <2>2, <2>3 DEF Emit
<1>11. tool.args = e.tools[i].args + n /\ tool.output = e.tools[i].output /\ tool.closed = e.tools[i].closed
  BY <1>7, <1>8 DEF StreamTools
<1> HIDE DEF tool
<1>12. /\ d.tools = [e.tools EXCEPT ![i] = tool] /\ d.refusalText = e.refusalText
       /\ d.stopReason = e.stopReason /\ d.terminal = e.terminal
  BY <1>0 DEF Encoders
<1> HIDE DEF d
<1>13. DOMAIN d.tools = DOMAIN e.tools
  BY <1>12
<1>14. ASSUME NEW j \in DOMAIN d.tools
       PROVE  /\ d.tools[j].output = c.output[j] /\ ~d.tools[j].closed
              /\ d.tools[j].args + 0 = c.tools[j].args
  <2>1. /\ e.tools[j].output = c.output[j] /\ ~e.tools[j].closed
        /\ e.tools[j].args + (IF j = i THEN n ELSE 0) = c.tools[j].args
    BY <1>0, <1>5, <1>13 DEF Agree
  <2>2. e.tools[j].args \in Nat
    BY <1>8, <1>13
  <2>3. CASE j = i
    <3>1. d.tools[j] = tool
      BY <1>7, <1>12, <2>3
    <3> QED BY <1>2, <1>11, <2>1, <2>2, <2>3, <3>1
  <2>4. CASE j # i
    <3>1. d.tools[j] = e.tools[j]
      BY <1>12, <1>13, <2>4
    <3> QED BY <2>1, <2>2, <2>4, <3>1
  <2> QED BY <2>3, <2>4
<1>15. Agree(Tail(q), c, d)
  <2>1. DOMAIN d.tools = Begun(c) \ NewIn(Tail(q))
    BY <1>0, <1>3, <1>13 DEF Agree
  <2>2. d.refusalText + 0 = c.refusal
    BY <1>0, <1>5, <1>12 DEF Agree
  <2>3. c.refusal = 0 => d.stopReason = StopOf(d)
    BY <1>0, <1>12, <1>13 DEF Agree, StopOf
  <2> QED BY <1>3, <1>4, <1>14, <2>1, <2>2, <2>3 DEF Agree
<1> QED BY <1>0, <1>9, <1>10, <1>12, <1>15

LEMMA CallDelivered ==
  ASSUME NEW c, NEW q, NEW e, Streams(c, q, e), q # <<>>, IsNew(q[1]), NEW bad
  PROVE  LET d == Encode(e, q[1], bad).enc IN ~d.terminal /\ Agree(Tail(q), c, d)
<1> DEFINE i == q[1].item
           r == CloseText(e)
           tool == [output |-> c.output[i], index |-> e.nextIndex, args |-> 0, closed |-> FALSE]
           f == AddTool(e.tools, i, tool)
           d == [r.enc EXCEPT !.nextIndex = @ + 1, !.stopReason = "tool_use",
                              !.tools = AddTool(@, i, tool)]
<1>0. /\ q \in Seq(WireEvents) /\ e \in Encoders /\ ~e.terminal /\ Opening(q, c) /\ Agree(q, c, e)
      /\ Numbered(c)
  BY DEF Streams
<1>1. 1 \in DOMAIN q /\ q[1] \in WireEvents
  BY <1>0, TailOf
<1>2. i \in Begun(c) /\ q[1].size = 0 /\ q[1].output = c.output[i] /\ NewIn(q) = {i}
  BY <1>0, <1>1 DEF Opening, NewIn
<1>3. i \notin DOMAIN e.tools /\ i # 0 /\ DOMAIN e.tools = Begun(c) \ {i}
  BY <1>0, <1>2, ItemFacts DEF Agree, Begun
<1>4. ~Duplicate(e, i, c.output[i])
  <2>1. \A j \in DOMAIN e.tools : j \in DOMAIN c.output /\ e.tools[j].output = c.output[j] /\ j # i
    BY <1>0, <1>3 DEF Agree, Begun
  <2>2. i \in DOMAIN c.output
    BY <1>2 DEF Begun
  <2> QED BY <1>0, <2>1, <2>2 DEF Numbered, Duplicate
<1>5. Encode(e, q[1], bad) = ToolAdded(e, i, c.output[i], 0)
  BY <1>2 DEF Encode, IsNew
<1>6. ToolAdded(e, i, c.output[i], 0).enc = d
  BY <1>3, <1>4 DEF ToolAdded, NoItem, Emit
<1>7. SameWork(e, r.enc) /\ r.enc \in Encoders
  BY <1>0, CloseTextWork
<1> HIDE DEF r, i, tool
<1>8. /\ d.tools = f /\ d.refusalText = e.refusalText /\ d.stopReason = "tool_use" /\ d.terminal = e.terminal
  BY <1>7 DEF SameWork, Encoders
<1> HIDE DEF d
<1>9. /\ DOMAIN f = DOMAIN e.tools \cup {i} /\ f[i] = tool
      /\ \A j \in DOMAIN e.tools : f[j] = e.tools[j]
  BY <1>3 DEF AddTool
<1> HIDE DEF f
<1>10. DOMAIN d.tools = Begun(c) \ {} /\ NewIn(Tail(q)) = {}
  BY <1>0, <1>2, <1>3, <1>8, <1>9, OpeningRest
<1>11. \A j : /\ Pending(Tail(q), "refusal.delta", j) = Pending(q, "refusal.delta", j)
              /\ Pending(Tail(q), "function_call_arguments.delta", j)
                   = Pending(q, "function_call_arguments.delta", j)
  BY <1>0, OpeningRest DEF IsNew
<1>12. tool.output = c.output[i] /\ tool.args = 0 /\ ~tool.closed
  BY DEF tool
<1>13. c.tools[i].args \in Nat
  <2>1. c.tools \in CallMaps /\ i \in DOMAIN c.tools
    BY <1>0, <1>2 DEF Numbered, Chats, Begun
  <2> QED BY <2>1, CallMapFacts
<1>14. ASSUME NEW j \in DOMAIN d.tools
       PROVE  /\ d.tools[j].output = c.output[j] /\ ~d.tools[j].closed
              /\ d.tools[j].args + Pending(Tail(q), "function_call_arguments.delta", j) = c.tools[j].args
  <2>1. CASE j = i
    <3>1. d.tools[j] = tool /\ Pending(q, "function_call_arguments.delta", j) = c.tools[j].args
      BY <1>0, <1>2, <1>8, <1>9, <2>1 DEF Agree
    <3> QED BY <1>11, <1>12, <1>13, <2>1, <3>1
  <2>2. CASE j # i
    <3>1. j \in DOMAIN e.tools /\ d.tools[j] = e.tools[j]
      BY <1>8, <1>9, <2>2
    <3> QED BY <1>0, <1>11, <3>1 DEF Agree
  <2> QED BY <2>1, <2>2
<1>15. Agree(Tail(q), c, d)
  <2>1. d.refusalText + Pending(Tail(q), "refusal.delta", RefusalItem) = c.refusal
    BY <1>0, <1>8, <1>11 DEF Agree
  <2>2. d.stopReason = StopOf(d)
    BY <1>8, <1>9 DEF StopOf
  <2> QED BY <1>10, <1>14, <2>1, <2>2 DEF Agree
<1> QED BY <1>0, <1>5, <1>6, <1>8, <1>15

LEMMA StreamDelivered ==
  ASSUME NEW c, NEW q, NEW e, Streams(c, q, e), q # <<>>, NEW bad
  PROVE  LET d == Encode(e, q[1], bad).enc IN
         ~d.terminal /\ Opening(Tail(q), c) /\ Agree(Tail(q), c, d)
<1>0. q \in Seq(WireEvents) /\ e \in Encoders /\ ~e.terminal /\ Opening(q, c)
  BY DEF Streams
<1>1. Opening(Tail(q), c)
  BY <1>0, OpeningRest
<1>2. q[1].type \in OpeningTypes \cup Deltas
  BY <1>0, TailOf DEF Opening
<1>3. CASE q[1].type \in OpeningTypes /\ ~IsNew(q[1])
  <2>1. Encode(e, q[1], bad) = Emit(e, <<>>) /\ Agree(Tail(q), c, e)
    BY <1>3, QuietDelivered
  <2>2. Emit(e, <<>>).enc = e
    BY DEF Emit
  <2> QED BY <1>0, <1>1, <2>1, <2>2
<1>4. CASE IsNew(q[1])
  BY <1>1, <1>4, CallDelivered
<1>5. CASE q[1].type \in {"output_text.delta", "refusal.delta"}
  BY <1>1, <1>5, ContentDelivered
<1>6. CASE q[1].type = "function_call_arguments.delta"
  BY <1>1, <1>6, ArgumentsDelivered
<1> QED BY <1>2, <1>3, <1>4, <1>5, <1>6 DEF Deltas


-----------------------------------------------------------------------------
(* The chunks of a stream whose reasoning is not shown.                    *)

Balanced(c) ==
  /\ Numbered(c)
  /\ ~c.expose
  /\ c.text # 0 <=> TextItem \in DOMAIN c.output
  /\ c.refusal # 0 <=> RefusalItem \in DOMAIN c.output

LEMMA NoReasoning ==
  ASSUME NEW c, Numbered(c), ~c.expose
  PROVE  CloseReasoning(c) = Queue(c, <<>>)
BY DEF Numbered, CloseReasoning, Started

LEMMA AddItemFacts ==
  ASSUME NEW c, Numbered(c), NEW item, item \notin DOMAIN c.output, NEW d, d = AddItem(c, item)
  PROVE  /\ d.tools = c.tools /\ d.text = c.text /\ d.refusal = c.refusal /\ d.expose = c.expose
         /\ DOMAIN d.output = DOMAIN c.output \cup {item}
         /\ \A i \in DOMAIN c.output : d.output[i] = c.output[i]
<1> DEFINE f == [i \in DOMAIN c.output \cup {item} |->
                   IF i = item THEN Cardinality(DOMAIN c.output) ELSE c.output[i]]
<1>1. c \in Chats
  BY DEF Numbered
<1>2. d = [c EXCEPT !.output = f]
  BY DEF AddItem
<1>3. DOMAIN f = DOMAIN c.output \cup {item} /\ \A i \in DOMAIN c.output : f[i] = c.output[i]
  OBVIOUS
<1> HIDE DEF f
<1>4. d.output = f /\ d.tools = c.tools /\ d.text = c.text /\ d.refusal = c.refusal /\ d.expose = c.expose
  BY <1>1, <1>2 DEF Chats
<1> QED BY <1>3, <1>4

(* The queue of one event, or of a new message item. *)
LEMMA ShortQueue ==
  ASSUME NEW x \in WireEvents, NEW y \in WireEvents, NEW z \in WireEvents
  PROVE  /\ <<x>> # <<>> /\ Len(<<x>>) = 1 /\ <<x>>[1] = x /\ DOMAIN <<x>> = {1}
         /\ <<x, y>> # <<>> /\ Len(<<x, y>>) = 2 /\ DOMAIN <<x, y>> = {1, 2}
         /\ <<x, y>>[1] = x /\ <<x, y>>[2] = y
         /\ <<x, y, z>> # <<>> /\ Len(<<x, y, z>>) = 3 /\ DOMAIN <<x, y, z>> = {1, 2, 3}
         /\ <<x, y, z>>[1] = x /\ <<x, y, z>>[2] = y /\ <<x, y, z>>[3] = z
<1>1. DOMAIN <<x>> = {1} /\ DOMAIN <<x, y>> = {1, 2} /\ DOMAIN <<x, y, z>> = {1, 2, 3}
  OBVIOUS
<1>2. <<x>> # <<>> /\ <<x, y>> # <<>> /\ <<x, y, z>> # <<>>
  OBVIOUS
<1>3. /\ Len(<<x>>) = 1 /\ <<x>>[1] = x
      /\ Len(<<x, y>>) = 2 /\ <<x, y>>[1] = x /\ <<x, y>>[2] = y
      /\ Len(<<x, y, z>>) = 3 /\ <<x, y, z>>[1] = x /\ <<x, y, z>>[2] = y /\ <<x, y, z>>[3] = z
  OBVIOUS
<1> QED BY <1>1, <1>2, <1>3

(* What a message delta does: d is the new state, q the queue. *)
Writes(q, d, c, delta, item) ==
  /\ Opening(q, d) /\ NewIn(q) = {}
  /\ Pending(q, delta, item) = 1
  /\ \A type, i : type # delta => Pending(q, type, i) = 0
  /\ d.tools = c.tools /\ d.text = c.text /\ d.refusal = c.refusal /\ d.expose = c.expose
  /\ DOMAIN d.output = DOMAIN c.output \cup {item}
  /\ \A i \in DOMAIN c.output : d.output[i] = c.output[i]

LEMMA MessageOpens ==
  ASSUME NEW c, Numbered(c), ~c.expose, NEW delta, NEW item,
         \/ delta = "output_text.delta" /\ item = TextItem
         \/ delta = "refusal.delta" /\ item = RefusalItem,
         NEW A, Keeps(c, A)
  PROVE  LET r == AddMessage(c, item, delta) IN Writes(r.events, r.chat, c, delta, item)
<1> DEFINE r == AddMessage(c, item, delta)
           n == 1
<1>0. /\ delta \in {"output_text.delta", "refusal.delta"} /\ delta \in WireTypes /\ "" \in Kinds
      /\ delta \in Deltas /\ delta # "function_call_arguments.delta" /\ delta # "output_item.added"
      /\ delta = "output_text.delta" => item = TextItem
      /\ delta = "refusal.delta" => item = RefusalItem
      /\ item \in OtherItems /\ item # ReasoningItem /\ item \in {TextItem, RefusalItem}
      /\ 0 \in Nat /\ 1 \in Nat /\ 1 # 0
  BY DEF WireTypes, Kinds, Deltas, OtherItems, TextItem, RefusalItem, ReasoningItem
<1>a. delta \in WireTypes /\ "" \in Kinds /\ 0 \in Nat /\ n \in Nat
  BY <1>0
<1>1. CASE item \in DOMAIN c.output
  <2> DEFINE x == ItemEvent(c, delta, "", item, n)
  <2>1. r.events = <<x>> /\ r.chat = c
    BY <1>1 DEF AddMessage, Started, Queue
  <2>2. x \in WireEvents /\ x.type = delta /\ x.item = item /\ x.size = n
    <3>1. x \in WireEvents
      BY <1>a, <1>1, ItemEventType
    <3>2. x.type = delta /\ x.item = item /\ x.size = n
      BY DEF ItemEvent, Event
    <3> QED BY <3>1, <3>2
  <2> HIDE DEF x, r
  <2> DEFINE q == <<x>>
  <2>3. q # <<>> /\ Len(q) = 1 /\ q[1] = x /\ DOMAIN q = {1}
    BY <2>2, ShortQueue
  <2> HIDE DEF q
  <2>4. ~IsNew(x)
    BY <1>0, <2>2 DEF IsNew
  <2>5. Opening(q, c) /\ NewIn(q) = {}
    <3>1. x.type \in OpeningTypes \cup Deltas /\ x.size # 0
      BY <1>0, <2>2
    <3>2. \A k \in DOMAIN q : k = Len(q) /\ q[k] = x
      BY <2>3
    <3> QED BY <1>0, <2>2, <2>3, <2>4, <3>1, <3>2 DEF Opening, NewIn
  <2>6. Pending(q, delta, item) = 1 /\ \A type, i : type # delta => Pending(q, type, i) = 0
    BY <2>2, <2>3 DEF Pending
  <2>7. DOMAIN c.output = DOMAIN c.output \cup {item}
    BY <1>1
  <2>8. Writes(q, c, c, delta, item)
    BY <2>5, <2>6, <2>7 DEF Writes
  <2> QED BY <2>1, <2>8 DEF q, r
<1>2. CASE item \notin DOMAIN c.output
  <2> DEFINE d == AddItem(c, item)
             x == ItemEvent(d, "output_item.added", "message", item, 0)
             y == ItemEvent(d, "content_part.added", "", item, 0)
             z == ItemEvent(d, delta, "", item, n)
  <2>1. r = Queue(d, <<>> \o <<x, y, z>>)
    <3>1. CloseReasoning(c).chat = c /\ CloseReasoning(c).events = <<>>
      BY NoReasoning DEF Queue
    <3> QED BY <1>2, <3>1 DEF AddMessage, Started
  <2>2. /\ d.tools = c.tools /\ d.text = c.text /\ d.refusal = c.refusal /\ d.expose = c.expose
        /\ DOMAIN d.output = DOMAIN c.output \cup {item}
        /\ \A i \in DOMAIN c.output : d.output[i] = c.output[i]
    BY <1>2, AddItemFacts
  <2>3. Numbered(d)
    <3>1. Keeps(c, A) /\ item \in DOMAIN c.tools \cup OtherItems /\ ReasoningItem \notin DOMAIN c.output
          /\ "message" \in Kinds
      BY <1>0 DEF Numbered, Kinds
    <3>2. d = AddItem(c, item)
      OBVIOUS
    <3> HIDE DEF d
    <3> QED BY <1>0, <1>2, <3>1, <3>2, TellNew DEF Keeps
  <2>4. item \in DOMAIN d.output
    BY <2>2
  <2> HIDE DEF d, r
  <2>5. /\ x \in WireEvents /\ x.type = "output_item.added" /\ x.kind = "message"
        /\ y \in WireEvents /\ y.type = "content_part.added"
        /\ z \in WireEvents /\ z.type = delta /\ z.item = item /\ z.size = n
    <3>1. /\ "output_item.added" \in WireTypes /\ "content_part.added" \in WireTypes /\ "message" \in Kinds
          /\ 0 \in Nat /\ 1 \in Nat
      BY DEF WireTypes, Kinds
    <3>2. x \in WireEvents /\ x.type = "output_item.added" /\ x.kind = "message"
      BY <2>3, <2>4, <3>1, ItemEventType
    <3>3. y \in WireEvents /\ y.type = "content_part.added"
      <4>1. y \in WireEvents
        BY <1>a, <2>3, <2>4, <3>1, ItemEventType
      <4>2. y.type = "content_part.added"
        BY DEF ItemEvent, Event
      <4> QED BY <4>1, <4>2
    <3>4. z \in WireEvents /\ z.type = delta /\ z.item = item /\ z.size = n
      <4>1. z \in WireEvents
        BY <1>a, <2>3, <2>4, <3>1, ItemEventType
      <4>2. z.type = delta /\ z.item = item /\ z.size = n
        BY DEF ItemEvent, Event
      <4> QED BY <4>1, <4>2
    <3> QED BY <3>2, <3>3, <3>4
  <2> HIDE DEF x, y, z
  <2> DEFINE q == <<x, y, z>>
  <2>6. q # <<>> /\ Len(q) = 3 /\ DOMAIN q = {1, 2, 3} /\ q[1] = x /\ q[2] = y /\ q[3] = z
    <3>1. x \in WireEvents /\ y \in WireEvents /\ z \in WireEvents
      BY <2>5
    <3> QED BY <3>1, ShortQueue
  <2>7. <<>> \o q = q
    <3>1. q \in Seq(WireEvents)
      <4>1. x \in WireEvents /\ y \in WireEvents /\ z \in WireEvents
        BY <2>5
      <4> QED BY <4>1
    <3> HIDE DEF q
    <3> QED BY <3>1, NoEvents
  <2> HIDE DEF q
  <2>8. ~IsNew(x) /\ ~IsNew(y) /\ ~IsNew(z)
    BY <1>0, <2>5 DEF IsNew
  <2>9. Opening(q, d) /\ NewIn(q) = {}
    <3>1. "output_item.added" \in OpeningTypes /\ "content_part.added" \in OpeningTypes
          /\ "output_item.added" \notin Deltas /\ "content_part.added" \notin Deltas
      BY DEF OpeningTypes, Deltas
    <3>2. \A k \in DOMAIN q : k = 1 \/ k = 2 \/ k = 3
      BY <2>6
    <3> QED BY <1>0, <2>5, <2>6, <2>8, <3>1, <3>2 DEF Opening, NewIn
  <2>10. Pending(q, delta, item) = 1 /\ \A type, i : type # delta => Pending(q, type, i) = 0
    BY <2>5, <2>6 DEF Pending
  <2>11. Writes(q, d, c, delta, item)
    BY <2>2, <2>9, <2>10 DEF Writes
  <2>12. r.chat = d /\ r.events = q
    BY <2>1, <2>7 DEF Queue, q
  <2> QED BY <2>11, <2>12 DEF r
<1> QED BY <1>1, <1>2

(* The text a method has counted is in the queue. *)
Brings(r, c) == r.chat.text + r.chat.refusal = (c.text + c.refusal) + Pend(r.events)

(* The result r of a method keeps the encoder e and the adapter in step. *)
InStep(r, c, e) ==
  /\ Balanced(r.chat)
  /\ Opening(r.events, r.chat)
  /\ Agree(r.events, r.chat, e)
  /\ Brings(r, c)

LEMMA NothingPending ==
  /\ NewIn(<<>>) = {}
  /\ \A type, item : Pending(<<>>, type, item) = 0
  /\ \A c : Opening(<<>>, c)
  /\ Pend(<<>>) = 0
<1>1. \A type, item : Pending(<<>>, type, item) = 0
  BY DEF Pending
<1>2. Pend(<<>>) = 0
  BY <1>1 DEF Pend
<1> QED BY <1>1, <1>2 DEF NewIn, Opening

LEMMA ContentInStep ==
  ASSUME NEW c, Balanced(c), NEW A, Keeps(c, A), NEW e \in Encoders, Agree(<<>>, c, e)
  PROVE  InStep(AddText(c), c, e) /\ InStep(AddRefusal(c), c, e)
<1> DEFINE t == [c EXCEPT !.text = @ + 1]
           u == [c EXCEPT !.refusal = @ + 1]
<1>0. /\ Numbered(c) /\ c \in Chats /\ ~c.expose /\ c.text \in Nat /\ c.refusal \in Nat
      /\ e.refusalText \in Nat
  BY DEF Balanced, Numbered, Chats, Encoders
<1>1. c.text + 1 \in Nat /\ c.text + 1 # 0 /\ c.refusal + 1 \in Nat /\ c.refusal + 1 # 0
  <2> HIDE DEF t, u
  <2> QED BY <1>0
<1>2. /\ t \in Chats /\ t.output = c.output /\ t.tools = c.tools /\ t.expose = c.expose
      /\ t.reasoningClosed = c.reasoningClosed /\ t.text = c.text + 1 /\ t.refusal = c.refusal
      /\ u \in Chats /\ u.output = c.output /\ u.tools = c.tools /\ u.expose = c.expose
      /\ u.reasoningClosed = c.reasoningClosed /\ u.text = c.text /\ u.refusal = c.refusal + 1
  BY <1>0, <1>1 DEF Chats
<1>3. /\ AddText(c) = AddMessage(t, TextItem, "output_text.delta")
      /\ AddRefusal(c) = AddMessage(u, RefusalItem, "refusal.delta")
  BY DEF AddText, AddRefusal
<1> HIDE DEF t, u
<1>4. Keeps(t, A) /\ Keeps(u, A)
  BY <1>2, KeepsSame
<1>5. Numbered(t) /\ Numbered(u)
  BY <1>4 DEF Keeps
<1>6. \A i \in DOMAIN c.tools : i # TextItem /\ i # RefusalItem
  BY <1>0, ItemFacts DEF OtherItems
<1>7. TextItem # RefusalItem
  BY DEF TextItem, RefusalItem
<1>8. /\ DOMAIN e.tools = Begun(c)
      /\ \A i \in DOMAIN e.tools : /\ e.tools[i].output = c.output[i] /\ ~e.tools[i].closed
                                   /\ e.tools[i].args + 0 = c.tools[i].args
      /\ e.refusalText + 0 = c.refusal
      /\ c.refusal = 0 => e.stopReason = StopOf(e)
  BY NothingPending DEF Agree
<1>9. InStep(AddText(c), c, e)
  <2> DEFINE r == AddText(c)
             d == r.chat
             q == r.events
  <2>1. Writes(q, d, t, "output_text.delta", TextItem)
    BY <1>0, <1>2, <1>3, <1>4, <1>5, MessageOpens
  <2>2. Numbered(d)
    BY AddTextTells DEF Continues, Keeps
  <2> HIDE DEF r
  <2>3. /\ Opening(q, d) /\ NewIn(q) = {} /\ \A i : Pending(q, "function_call_arguments.delta", i) = 0
        /\ Pending(q, "refusal.delta", RefusalItem) = 0 /\ Pending(q, "output_text.delta", TextItem) = 1
        /\ d.tools = c.tools /\ d.text = c.text + 1 /\ d.refusal = c.refusal /\ d.expose = c.expose
        /\ DOMAIN d.output = DOMAIN c.output \cup {TextItem}
        /\ \A i \in DOMAIN c.output : d.output[i] = c.output[i]
    BY <1>2, <2>1 DEF Writes
  <2>4. Balanced(d)
    BY <1>0, <1>1, <1>7, <2>2, <2>3 DEF Balanced
  <2>5. Begun(d) = Begun(c)
    BY <1>6, <2>3 DEF Begun
  <2>6. \A i \in Begun(c) : d.output[i] = c.output[i]
    BY <2>3 DEF Begun
  <2>7. Agree(q, d, e)
    BY <1>8, <2>3, <2>5, <2>6 DEF Agree
  <2>8. d.text + d.refusal = (c.text + c.refusal) + Pend(q)
    BY <1>0, <2>3 DEF Pend
  <2>9. Brings(r, c)
    BY <2>8 DEF Brings
  <2> QED BY <2>3, <2>4, <2>7, <2>9 DEF InStep, r
<1>10. InStep(AddRefusal(c), c, e)
  <2> DEFINE r == AddRefusal(c)
             d == r.chat
             q == r.events
  <2>1. Writes(q, d, u, "refusal.delta", RefusalItem)
    BY <1>0, <1>2, <1>3, <1>4, <1>5, MessageOpens
  <2>2. Numbered(d)
    BY AddRefusalTells DEF Continues, Keeps
  <2> HIDE DEF r
  <2>3. /\ Opening(q, d) /\ NewIn(q) = {} /\ \A i : Pending(q, "function_call_arguments.delta", i) = 0
        /\ Pending(q, "refusal.delta", RefusalItem) = 1 /\ Pending(q, "output_text.delta", TextItem) = 0
        /\ d.tools = c.tools /\ d.text = c.text /\ d.refusal = c.refusal + 1 /\ d.expose = c.expose
        /\ DOMAIN d.output = DOMAIN c.output \cup {RefusalItem}
        /\ \A i \in DOMAIN c.output : d.output[i] = c.output[i]
    BY <1>2, <2>1 DEF Writes
  <2>4. Balanced(d)
    BY <1>0, <1>1, <1>7, <2>2, <2>3 DEF Balanced
  <2>5. Begun(d) = Begun(c)
    BY <1>6, <2>3 DEF Begun
  <2>6. \A i \in Begun(c) : d.output[i] = c.output[i]
    BY <2>3 DEF Begun
  <2>7. e.refusalText + 1 = d.refusal /\ d.refusal # 0
    BY <1>0, <1>1, <1>8, <2>3
  <2>8. Agree(q, d, e)
    BY <1>8, <2>3, <2>5, <2>6, <2>7 DEF Agree
  <2>9. d.text + d.refusal = (c.text + c.refusal) + Pend(q)
    BY <1>0, <2>3 DEF Pend
  <2>10. Brings(r, c)
    BY <2>9 DEF Brings
  <2> QED BY <2>3, <2>4, <2>8, <2>10 DEF InStep, r
<1> QED BY <1>9, <1>10

LEMMA ReasoningInStep ==
  ASSUME NEW c, Balanced(c), NEW A, Keeps(c, A), NEW e \in Encoders, Agree(<<>>, c, e)
  PROVE  InStep(AddReasoning(c), c, e)
<1> DEFINE t == [c EXCEPT !.reasoning = @ + 1]
<1>0. /\ Numbered(c) /\ c \in Chats /\ ~c.expose /\ c.reasoning \in Nat
      /\ c.text \in Nat /\ c.refusal \in Nat
  BY DEF Balanced, Numbered, Chats
<1>1. c.reasoning + 1 \in Nat
  <2> HIDE DEF t
  <2> QED BY <1>0
<1>2. /\ t.output = c.output /\ t.tools = c.tools /\ t.expose = c.expose
      /\ t.text = c.text /\ t.refusal = c.refusal
  BY <1>0, <1>1 DEF Chats
<1>3. AddReasoning(c) = Queue(t, <<>>)
  BY <1>0, <1>2 DEF AddReasoning
<1>4. Numbered(t)
  <2>1. Continues(AddReasoning(c), A) /\ AddReasoning(c).chat = t
    BY <1>3, AddReasoningTells DEF Queue
  <2> HIDE DEF t
  <2> QED BY <2>1 DEF Continues, Keeps
<1> HIDE DEF t
<1>5. Balanced(t)
  BY <1>0, <1>2, <1>4 DEF Balanced
<1>6. Agree(<<>>, t, e)
  BY <1>2 DEF Agree, Begun
<1>7. AddReasoning(c).chat = t /\ AddReasoning(c).events = <<>>
  BY <1>3 DEF Queue
<1>8. Brings(AddReasoning(c), c)
  BY <1>0, <1>2, <1>7, NothingPending DEF Brings
<1> QED BY <1>5, <1>6, <1>7, <1>8, NothingPending DEF InStep


(* The queue of an arguments delta. *)
LEMMA ArgumentsQueue ==
  ASSUME NEW c, Numbered(c), NEW i \in Begun(c), NEW n \in Nat
  PROVE  LET q == ArgumentsDelta(c, i, n) IN
         /\ Opening(q, c) /\ NewIn(q) = {}
         /\ \A j : Pending(q, "function_call_arguments.delta", j) = IF j = i THEN n ELSE 0
         /\ Pending(q, "refusal.delta", RefusalItem) = 0 /\ Pend(q) = 0
         /\ q = <<>> \/ \E y \in WireEvents : /\ q = <<y>> /\ y.type = "function_call_arguments.delta"
                                              /\ y.item = i /\ y.size = n /\ n # 0
<1> DEFINE q == ArgumentsDelta(c, i, n)
<1>1. CASE n = 0
  <2>1. q = <<>>
    BY <1>1 DEF ArgumentsDelta
  <2> HIDE DEF q
  <2> QED BY <1>1, <2>1, NothingPending DEF q
<1>2. CASE n # 0
  <2> DEFINE y == ItemEvent(c, "function_call_arguments.delta", "", i, n)
  <2>1. q = <<y>>
    BY <1>2 DEF ArgumentsDelta
  <2>2. y \in WireEvents
    <3>1. "function_call_arguments.delta" \in WireTypes /\ "" \in Kinds /\ i \in DOMAIN c.output
      BY DEF WireTypes, Kinds, Begun
    <3> QED BY <3>1, ItemEventType
  <2>3. y.type = "function_call_arguments.delta" /\ y.item = i /\ y.size = n
    BY DEF ItemEvent, Event
  <2> HIDE DEF y, q
  <2>4. q # <<>> /\ Len(q) = 1 /\ q[1] = y /\ DOMAIN q = {1}
    BY <2>1, <2>2, ShortQueue
  <2>5. Opening(q, c) /\ NewIn(q) = {}
    <3>1. y.type \in Deltas /\ ~IsNew(y)
      BY <2>3 DEF Deltas, IsNew
    <3>2. \A k \in DOMAIN q : k = Len(q) /\ q[k] = y
      BY <2>4
    <3> QED BY <1>2, <2>3, <2>4, <3>1, <3>2 DEF Opening, NewIn
  <2>6. /\ \A j : Pending(q, "function_call_arguments.delta", j) = IF j = i THEN n ELSE 0
        /\ Pending(q, "refusal.delta", RefusalItem) = 0
        /\ Pending(q, "output_text.delta", TextItem) = 0
    BY <2>3, <2>4 DEF Pending
  <2>7. Pend(q) = 0
    BY <2>6 DEF Pend
  <2> QED BY <1>2, <2>1, <2>2, <2>3, <2>5, <2>6, <2>7 DEF q
<1> QED BY <1>1, <1>2

LEMMA TwoEvents ==
  ASSUME NEW x \in WireEvents, NEW y \in WireEvents
  PROVE  <<x>> \o <<y>> = <<x, y>>
<1>1. <<x>> \in Seq(WireEvents) /\ <<x, y>> \in Seq(WireEvents) /\ <<>> \in Seq(WireEvents)
  OBVIOUS
<1>2. <<x>> \o <<y>> = Append(<<x>>, y)
  BY <1>1, Joined3
<1>3. <<>> \o <<x>> = Append(<<>>, x) /\ <<>> \o <<x, y>> = Append(Append(<<>>, x), y)
  BY <1>1, Joined3
<1>4. <<>> \o <<x>> = <<x>> /\ <<>> \o <<x, y>> = <<x, y>>
  BY <1>1, NoEvents
<1> QED BY <1>2, <1>3, <1>4, Zenon

(* The queue of a new tool call. *)
LEMMA CallQueue ==
  ASSUME NEW d, Numbered(d), NEW i \in Begun(d), NEW n \in Nat
  PROVE  LET q == <<ItemEvent(d, "output_item.added", "function_call", i, 0)>> \o ArgumentsDelta(d, i, n) IN
         /\ Opening(q, d) /\ NewIn(q) = {i}
         /\ Pending(q, "function_call_arguments.delta", i) = n
         /\ \A j : j # i => Pending(q, "function_call_arguments.delta", j) = 0
         /\ Pending(q, "refusal.delta", RefusalItem) = 0 /\ Pend(q) = 0
<1> DEFINE x == ItemEvent(d, "output_item.added", "function_call", i, 0)
           b == ArgumentsDelta(d, i, n)
           q == <<x>> \o b
<1>1. i \in DOMAIN d.output
  BY DEF Begun
<1>2. x \in WireEvents
  <2>1. "output_item.added" \in WireTypes /\ "function_call" \in Kinds /\ 0 \in Nat
    BY DEF WireTypes, Kinds
  <2> QED BY <1>1, <2>1, ItemEventType
<1>3. /\ x.type = "output_item.added" /\ x.kind = "function_call" /\ x.item = i /\ x.size = 0
      /\ x.output = d.output[i]
  BY DEF ItemEvent, Event
<1>4. /\ b = <<>> \/ \E y \in WireEvents : /\ b = <<y>> /\ y.type = "function_call_arguments.delta"
                                           /\ y.item = i /\ y.size = n /\ n # 0
      /\ b = <<>> => n = 0
  <2>1. n # 0 => b # <<>>
    BY DEF ArgumentsDelta
  <2>2. /\ b = <<>> \/ \E y \in WireEvents : /\ b = <<y>> /\ y.type = "function_call_arguments.delta"
                                             /\ y.item = i /\ y.size = n /\ n # 0
    BY ArgumentsQueue
  <2> QED BY <2>1, <2>2
<1> HIDE DEF x, b
<1>5. IsNew(x) /\ x.type \in OpeningTypes /\ x.type \notin Deltas
  BY <1>3 DEF IsNew, OpeningTypes, Deltas
<1>6. CASE b = <<>>
  <2>1. q = <<x>>
    <3>1. <<x>> \in Seq(WireEvents)
      BY <1>2
    <3> QED BY <1>6, <3>1, NoEvents
  <2>2. q # <<>> /\ Len(q) = 1 /\ q[1] = x /\ DOMAIN q = {1}
    BY <1>2, <2>1, ShortQueue
  <2> HIDE DEF q
  <2>3. \A k \in DOMAIN q : k = 1 /\ q[k] = x
    BY <2>2
  <2>4. Opening(q, d)
    BY <1>3, <1>5, <2>3 DEF Opening
  <2>5. NewIn(q) = {i} /\ \A type, j : type \in Deltas => Pending(q, type, j) = 0
    BY <1>3, <1>5, <2>2 DEF NewIn, Pending
  <2>6. /\ "function_call_arguments.delta" \in Deltas /\ "refusal.delta" \in Deltas
        /\ "output_text.delta" \in Deltas
    BY DEF Deltas
  <2>7. Pend(q) = 0
    BY <2>5, <2>6 DEF Pend
  <2> QED BY <1>4, <1>6, <2>4, <2>5, <2>6, <2>7 DEF q, x, b
<1>7. CASE b # <<>>
  <2>1. PICK y \in WireEvents : /\ b = <<y>> /\ y.type = "function_call_arguments.delta"
                                /\ y.item = i /\ y.size = n /\ n # 0
    BY <1>4, <1>7
  <2>a. y \in WireEvents /\ b = <<y>>
    BY <2>1
  <2>b. <<x>> \o <<y>> = <<x, y>>
    BY <1>2, <2>a, TwoEvents
  <2>2. q = <<x, y>>
    BY <2>a, <2>b
  <2>c. /\ <<x, y>> # <<>> /\ Len(<<x, y>>) = 2 /\ DOMAIN <<x, y>> = {1, 2}
        /\ <<x, y>>[1] = x /\ <<x, y>>[2] = y
    BY <1>2, <2>a, ShortQueue
  <2> HIDE DEF q
  <2>3. q # <<>> /\ Len(q) = 2 /\ q[1] = x /\ q[2] = y /\ DOMAIN q = {1, 2}
    BY <2>2, <2>c
  <2>4. ~IsNew(y) /\ y.type \in Deltas
    BY <2>1 DEF IsNew, Deltas
  <2>5. \A k \in DOMAIN q : k = 1 \/ k = 2
    BY <2>3
  <2>6. Opening(q, d)
    BY <1>3, <1>5, <2>1, <2>3, <2>4, <2>5 DEF Opening
  <2>7. NewIn(q) = {i}
    BY <1>3, <1>5, <2>3 DEF NewIn
  <2>8. /\ Pending(q, "function_call_arguments.delta", i) = n
        /\ \A j : j # i => Pending(q, "function_call_arguments.delta", j) = 0
        /\ Pending(q, "refusal.delta", RefusalItem) = 0
        /\ Pending(q, "output_text.delta", TextItem) = 0
    BY <2>1, <2>3 DEF Pending
  <2>9. Pend(q) = 0
    BY <2>8 DEF Pend
  <2> QED BY <2>6, <2>7, <2>8, <2>9 DEF q, x, b
<1> QED BY <1>6, <1>7

LEMMA CallInStep ==
  ASSUME NEW c0, Balanced(c0), NEW A, Keeps(c0, A), NEW e \in Encoders, Agree(<<>>, c0, e),
         NEW i \in Calls, NEW id \in BOOLEAN, NEW name \in BOOLEAN, NEW n \in Nat
  PROVE  InStep(AddToolDelta(c0, i, id, name, n), c0, e)
<1> DEFINE c == Merge(c0, i, id, name, n)
           r == AddToolDelta(c0, i, id, name, n)
           old == IF i \in DOMAIN c0.tools THEN c0.tools[i].args ELSE 0
<1>0. Numbered(c0) /\ c0 \in Chats /\ ~c0.expose /\ c0.text \in Nat /\ c0.refusal \in Nat
  BY DEF Balanced, Numbered, Chats
<1>a. ASSUME r.chat.text = c0.text, r.chat.refusal = c0.refusal, Pend(r.events) = 0
      PROVE  Brings(r, c0)
  <2> HIDE DEF c, r, old
  <2> QED BY <1>0, <1>a DEF Brings
<1>1. /\ c \in Chats /\ DOMAIN c.tools = DOMAIN c0.tools \cup {i}
      /\ \A j \in DOMAIN c0.tools : j # i => c.tools[j] = c0.tools[j]
      /\ c.tools[i].args = old + n
      /\ c = [c0 EXCEPT !.tools = c.tools]
  <2>1. c = Merge(c0, i, id, name, n)
    OBVIOUS
  <2> HIDE DEF c
  <2> QED BY <1>0, <2>1, MergeKeeps
<1>2. Numbered(r.chat)
  BY AddToolDeltaTells DEF Continues, Keeps
<1>3. \/ Started(c, i) /\ r = Queue(c, ArgumentsDelta(c, i, n))
      \/ ~Started(c, i) /\ r = Queue(c, <<>>)
      \/ ~Started(c, i) /\ r = Queue(AddItem(CloseReasoning(c).chat, i),
                 CloseReasoning(c).events
                   \o <<ItemEvent(AddItem(CloseReasoning(c).chat, i), "output_item.added", "function_call", i, 0)>>
                   \o ArgumentsDelta(AddItem(CloseReasoning(c).chat, i), i, c.tools[i].args))
  BY DEF AddToolDelta
<1> HIDE DEF c, r
<1>4. /\ c.output = c0.output /\ c.text = c0.text /\ c.refusal = c0.refusal /\ c.expose = c0.expose
      /\ c.reasoningClosed = c0.reasoningClosed
  BY <1>0, <1>1 DEF Chats
<1>5. Numbered(c)
  <2>1. Keeps(c, A)
    BY <1>1, <1>4, KeepsSame
  <2> QED BY <2>1 DEF Keeps
<1>6. i \in DOMAIN c.tools /\ i \notin OtherItems
  <2>1. i \in DOMAIN c.tools
    BY <1>1
  <2> QED BY <1>5, <2>1, ItemFacts
<1>7. c.tools[i].args \in Nat
  <2>1. c.tools \in CallMaps
    BY <1>1 DEF Chats
  <2> QED BY <1>6, <2>1, CallMapFacts
<1>8. Balanced(c)
  BY <1>4, <1>5 DEF Balanced
<1>9. /\ DOMAIN e.tools = Begun(c0)
      /\ \A j \in DOMAIN e.tools : /\ e.tools[j].output = c0.output[j] /\ ~e.tools[j].closed
                                   /\ e.tools[j].args + 0 = c0.tools[j].args
      /\ e.refusalText + 0 = c0.refusal
      /\ c0.refusal = 0 => e.stopReason = StopOf(e)
  BY NothingPending DEF Agree
<1>10. \A j \in DOMAIN e.tools : e.tools[j].args \in Nat
  <2>1. e.tools \in ToolMaps
    BY DEF Encoders
  <2> QED BY <2>1, ToolMapFacts
<1>11. CASE Started(c, i) /\ r = Queue(c, ArgumentsDelta(c, i, n))
  <2> DEFINE q == ArgumentsDelta(c, i, n)
  <2>1. i \in DOMAIN c0.output /\ i \in DOMAIN c0.tools /\ i \in Begun(c)
    BY <1>0, <1>4, <1>6, <1>11 DEF Started, Numbered, Begun
  <2>2. /\ Opening(q, c) /\ NewIn(q) = {}
        /\ \A j : Pending(q, "function_call_arguments.delta", j) = IF j = i THEN n ELSE 0
        /\ Pending(q, "refusal.delta", RefusalItem) = 0 /\ Pend(q) = 0
    BY <1>5, <2>1, ArgumentsQueue
  <2> HIDE DEF q
  <2>3. Begun(c) = Begun(c0)
    BY <1>1, <1>4, <2>1 DEF Begun
  <2>4. ASSUME NEW j \in DOMAIN e.tools
        PROVE  /\ e.tools[j].output = c.output[j] /\ ~e.tools[j].closed
               /\ e.tools[j].args + Pending(q, "function_call_arguments.delta", j) = c.tools[j].args
    <3>1. j \in DOMAIN c0.tools /\ e.tools[j].args + 0 = c0.tools[j].args /\ e.tools[j].args \in Nat
          /\ e.tools[j].output = c.output[j] /\ ~e.tools[j].closed
      BY <1>4, <1>9, <1>10 DEF Begun
    <3>2. CASE j = i
      <4>1. c.tools[j].args = e.tools[j].args + n
        BY <1>1, <2>1, <3>1, <3>2
      <4>2. Pending(q, "function_call_arguments.delta", j) = n
        BY <2>2, <3>2
      <4> QED BY <3>1, <4>1, <4>2
    <3>3. CASE j # i
      <4>1. c.tools[j] = c0.tools[j] /\ Pending(q, "function_call_arguments.delta", j) = 0
        BY <1>1, <2>2, <3>1, <3>3
      <4> QED BY <3>1, <4>1
    <3> QED BY <3>2, <3>3
  <2>5. Agree(q, c, e)
    BY <1>4, <1>9, <2>2, <2>3, <2>4 DEF Agree
  <2>6. r.chat = c /\ r.events = q
    BY <1>11 DEF Queue, q
  <2>7. Brings(r, c0)
    BY <1>a, <1>4, <2>2, <2>6
  <2> QED BY <1>8, <2>2, <2>5, <2>6, <2>7 DEF InStep, r
<1>12. CASE ~Started(c, i) /\ r = Queue(c, <<>>)
  <2>1. i \notin DOMAIN c0.output /\ i \notin Begun(c0)
    BY <1>4, <1>12 DEF Started, Begun
  <2>2. Begun(c) = Begun(c0)
    BY <1>1, <1>4, <2>1 DEF Begun
  <2>3. \A j \in Begun(c0) : c.tools[j] = c0.tools[j]
    BY <1>1, <2>1 DEF Begun
  <2>4. Agree(<<>>, c, e)
    BY <1>4, <1>9, <2>2, <2>3, NothingPending DEF Agree
  <2>5. r.chat = c /\ r.events = <<>>
    BY <1>12 DEF Queue
  <2>6. Brings(r, c0)
    BY <1>a, <1>4, <2>5, NothingPending
  <2> QED BY <1>8, <2>4, <2>5, <2>6, NothingPending DEF InStep, r
<1>13. CASE ~Started(c, i) /\ r = Queue(AddItem(CloseReasoning(c).chat, i),
                 CloseReasoning(c).events
                   \o <<ItemEvent(AddItem(CloseReasoning(c).chat, i), "output_item.added", "function_call", i, 0)>>
                   \o ArgumentsDelta(AddItem(CloseReasoning(c).chat, i), i, c.tools[i].args))
  <2> DEFINE d == AddItem(c, i)
             x == ItemEvent(d, "output_item.added", "function_call", i, 0)
             b == ArgumentsDelta(d, i, c.tools[i].args)
             q == <<x>> \o b
  <2>1. r = Queue(d, (<<>> \o <<x>>) \o b)
    <3>1. CloseReasoning(c).chat = c /\ CloseReasoning(c).events = <<>>
      BY <1>0, <1>4, <1>5, NoReasoning DEF Queue
    <3> QED BY <1>13, <3>1
  <2>2. r.chat = d /\ r.events = (<<>> \o <<x>>) \o b
    BY <2>1 DEF Queue
  <2>3. i \notin DOMAIN c.output /\ i \notin Begun(c0)
    BY <1>4, <1>13 DEF Started, Begun
  <2>4. /\ d.tools = c.tools /\ d.text = c.text /\ d.refusal = c.refusal /\ d.expose = c.expose
        /\ DOMAIN d.output = DOMAIN c.output \cup {i}
        /\ \A j \in DOMAIN c.output : d.output[j] = c.output[j]
    BY <1>5, <2>3, AddItemFacts
  <2> HIDE DEF d
  <2>5. Numbered(d)
    BY <1>2, <2>2
  <2>6. i \in Begun(d) /\ i \in DOMAIN d.output
    BY <1>6, <2>4 DEF Begun
  <2>7. <<>> \o <<x>> = <<x>>
    <3>1. x \in WireEvents
      <4>1. "output_item.added" \in WireTypes /\ "function_call" \in Kinds /\ 0 \in Nat
        BY DEF WireTypes, Kinds
      <4> QED BY <2>5, <2>6, <4>1, ItemEventType
    <3>2. <<x>> \in Seq(WireEvents)
      <4> HIDE DEF x
      <4> QED BY <3>1
    <3> HIDE DEF x
    <3> QED BY <3>2, NoEvents
  <2>8. /\ Opening(q, d) /\ NewIn(q) = {i}
        /\ Pending(q, "function_call_arguments.delta", i) = c.tools[i].args
        /\ \A j : j # i => Pending(q, "function_call_arguments.delta", j) = 0
        /\ Pending(q, "refusal.delta", RefusalItem) = 0 /\ Pend(q) = 0
    BY <1>7, <2>5, <2>6, CallQueue
  <2>9. r.events = q
    <3> HIDE DEF x, b
    <3> QED BY <2>2, <2>7
  <2> HIDE DEF q
  <2>10. Balanced(d)
    <3>1. TextItem # i /\ RefusalItem # i
      BY <1>6 DEF OtherItems
    <3> QED BY <1>8, <2>4, <2>5, <3>1 DEF Balanced
  <2>11. Begun(d) = Begun(c0) \cup {i}
    BY <1>1, <1>4, <2>4 DEF Begun
  <2>12. \A j \in Begun(c0) : /\ j # i /\ d.tools[j] = c0.tools[j] /\ d.output[j] = c0.output[j]
                              /\ Pending(q, "function_call_arguments.delta", j) = 0
    BY <1>1, <1>4, <2>3, <2>4, <2>8 DEF Begun
  <2>13. Agree(q, d, e)
    <3>1. DOMAIN e.tools = Begun(d) \ NewIn(q)
      BY <1>9, <2>3, <2>8, <2>11
    <3> QED BY <1>4, <1>9, <2>4, <2>8, <2>12, <3>1 DEF Agree
  <2>14. Brings(r, c0)
    BY <1>a, <1>4, <2>2, <2>4, <2>8, <2>9
  <2> QED BY <2>2, <2>8, <2>9, <2>10, <2>13, <2>14 DEF InStep, r
<1> QED BY <1>3, <1>11, <1>12, <1>13


-----------------------------------------------------------------------------
(***************************************************************************)
(* The end of the stream: finishOutput queues the done events and the      *)
(* terminal event at once.  The final values they carry are those of the   *)
(* deltas before them, so the encoder accepts each of them.                *)
(***************************************************************************)
Whole(n) == IF n = 0 THEN 1 ELSE n

CallDone(ev) ==
  \/ ev.type = "function_call_arguments.done"
  \/ ev.type = "output_item.done" /\ ev.kind = "function_call"

(* What finishOutput of chat c may queue before the terminal event. *)
Closing(c, ev) ==
  \/ ev.type \in {"output_text.done", "content_part.done"}
  \/ ev.type = "output_item.done" /\ ev.kind = "message"
  \/ ev.type = "refusal.done" /\ ev.size = c.refusal /\ c.refusal # 0
  \/ CallDone(ev) /\ ev.item \in DOMAIN c.tools /\ ev.size = Whole(c.tools[ev.item].args)

ClosingEvents(c) == {ev \in WireEvents : Closing(c, ev)}

HasRefusal(q) == \E k \in DOMAIN q : q[k].type = "refusal.done"

Ending(q, c) ==
  /\ q # <<>>
  /\ q[Len(q)] = Terminal(c)
  /\ \A k \in DOMAIN q : k # Len(q) => Closing(c, q[k])

(* The encoder has every call, each with all its arguments. *)
Holds(c, e) ==
  /\ DOMAIN e.tools = DOMAIN c.tools
  /\ \A i \in DOMAIN e.tools :
       e.tools[i].args = IF e.tools[i].closed THEN Whole(c.tools[i].args) ELSE c.tools[i].args
  /\ e.refusalText = c.refusal

Closes(q, c, e) ==
  /\ Ending(q, c)
  /\ Holds(c, e)
  /\ IF c.refusal = 0 THEN e.stopReason = StopOf(e) ELSE e.stopReason = "refusal" \/ HasRefusal(q)

LEMMA ClosingQueue ==
  ASSUME NEW c, NEW s \in Seq(ClosingEvents(c)), NEW t \in Seq(ClosingEvents(c))
  PROVE  /\ s \o t \in Seq(ClosingEvents(c))
         /\ HasRefusal(s) \/ HasRefusal(t) => HasRefusal(s \o t)
<1> DEFINE X == ClosingEvents(c)
<1> HIDE DEF X
<1>1. s \in Seq(X) /\ t \in Seq(X)
  BY DEF X
<1>2. s \o t \in Seq(X)
  BY <1>1
<1>3. /\ DOMAIN s = 1 .. Len(s) /\ DOMAIN t = 1 .. Len(t) /\ DOMAIN (s \o t) = 1 .. Len(s) + Len(t)
      /\ Len(s) \in Nat /\ Len(t) \in Nat
      /\ \A k \in 1 .. Len(s) : (s \o t)[k] = s[k]
      /\ \A k \in 1 .. Len(t) : (s \o t)[Len(s) + k] = t[k]
  BY <1>1
<1>4. ASSUME NEW k \in DOMAIN s
      PROVE  k \in DOMAIN (s \o t) /\ (s \o t)[k] = s[k]
  BY <1>3, <1>4
<1>5. ASSUME NEW k \in DOMAIN t
      PROVE  Len(s) + k \in DOMAIN (s \o t) /\ (s \o t)[Len(s) + k] = t[k]
  BY <1>3, <1>5
<1>6. HasRefusal(s) => HasRefusal(s \o t)
  BY <1>4 DEF HasRefusal
<1>7. HasRefusal(t) => HasRefusal(s \o t)
  BY <1>5 DEF HasRefusal
<1> QED BY <1>2, <1>6, <1>7 DEF X

LEMMA MessageCloses ==
  ASSUME NEW c, Balanced(c), NEW item, NEW type,
         \/ item = TextItem /\ type = "output_text.done"
         \/ item = RefusalItem /\ type = "refusal.done",
         NEW size \in Nat, item = RefusalItem => size = c.refusal
  PROVE  /\ MessageDone(c, item, type, size) \in Seq(ClosingEvents(c))
         /\ item = RefusalItem /\ c.refusal # 0 => HasRefusal(MessageDone(c, item, type, size))
<1>1. Numbered(c) /\ (c.refusal # 0 <=> RefusalItem \in DOMAIN c.output)
  BY DEF Balanced
<1>2. CASE item \notin DOMAIN c.output
  <2>1. MessageDone(c, item, type, size) = <<>>
    BY <1>2 DEF MessageDone, Started
  <2>2. <<>> \in Seq(ClosingEvents(c))
    OBVIOUS
  <2> QED BY <1>1, <1>2, <2>1, <2>2
<1>3. CASE item \in DOMAIN c.output
  <2> DEFINE x == ItemEvent(c, type, "", item, size)
             y == ItemEvent(c, "content_part.done", "", item, size)
             z == ItemEvent(c, "output_item.done", "message", item, size)
  <2>1. MessageDone(c, item, type, size) = <<x, y, z>>
    BY <1>3 DEF MessageDone, Started
  <2>2. /\ type \in WireTypes /\ "content_part.done" \in WireTypes /\ "output_item.done" \in WireTypes
        /\ "" \in Kinds /\ "message" \in Kinds
    BY DEF WireTypes, Kinds
  <2>3. x \in WireEvents /\ y \in WireEvents /\ z \in WireEvents
    BY <1>1, <1>3, <2>2, ItemEventType
  <2>4. /\ x.type = type /\ x.size = size
        /\ y.type = "content_part.done" /\ z.type = "output_item.done" /\ z.kind = "message"
    BY DEF ItemEvent, Event
  <2> HIDE DEF x, y, z
  <2>5. item = RefusalItem => c.refusal # 0 /\ size = c.refusal
    BY <1>1, <1>3
  <2>6. Closing(c, x) /\ Closing(c, y) /\ Closing(c, z)
    BY <2>4, <2>5 DEF Closing
  <2>7. x \in ClosingEvents(c) /\ y \in ClosingEvents(c) /\ z \in ClosingEvents(c)
    BY <2>3, <2>6 DEF ClosingEvents
  <2>8. <<x, y, z>> \in Seq(ClosingEvents(c))
    BY <2>7
  <2>9. 1 \in DOMAIN <<x, y, z>> /\ <<x, y, z>>[1] = x
    BY <2>3, ShortQueue
  <2>10. item = RefusalItem => HasRefusal(<<x, y, z>>)
    <3>1. TextItem # RefusalItem
      BY DEF TextItem, RefusalItem
    <3> QED BY <2>4, <2>9, <3>1 DEF HasRefusal
  <2> QED BY <2>1, <2>8, <2>10
<1> QED BY <1>2, <1>3

LEMMA CallsClose ==
  ASSUME NEW c, Balanced(c), Complete(c)
  PROVE  FlattenSeq(AllDone(c)) \in Seq(ClosingEvents(c))
<1> DEFINE n == Cardinality(DOMAIN c.tools)
           X == ClosingEvents(c)
<1>1. Numbered(c)
  BY DEF Balanced
<1>2. n \in Nat /\ ToolsInOrder(c) \in [1 .. n -> DOMAIN c.tools]
  BY <1>1, CallsInOrder
<1>3. ASSUME NEW i \in DOMAIN c.tools
      PROVE  ToolDone(c, i) \in Seq(X)
  <2> DEFINE w == Whole(c.tools[i].args)
             x == ItemEvent(c, "function_call_arguments.done", "", i, w)
             y == ItemEvent(c, "output_item.done", "function_call", i, w)
  <2>1. i \in DOMAIN c.output
    BY DEF Complete, Started
  <2>2. w \in Nat
    <3>1. c.tools \in CallMaps
      BY <1>1 DEF Numbered, Chats
    <3> QED BY <3>1, CallMapFacts DEF Whole
  <2>3. ToolDone(c, i) = <<x, y>>
    BY DEF ToolDone, Whole
  <2>4. /\ "function_call_arguments.done" \in WireTypes /\ "output_item.done" \in WireTypes
        /\ "" \in Kinds /\ "function_call" \in Kinds
    BY DEF WireTypes, Kinds
  <2>5. x \in WireEvents /\ y \in WireEvents
    <3> HIDE DEF w
    <3> QED BY <1>1, <2>1, <2>2, <2>4, ItemEventType
  <2>6. /\ x.type = "function_call_arguments.done" /\ x.item = i /\ x.size = w
        /\ y.type = "output_item.done" /\ y.kind = "function_call" /\ y.item = i /\ y.size = w
    BY DEF ItemEvent, Event
  <2> HIDE DEF x, y
  <2>7. Closing(c, x) /\ Closing(c, y)
    BY <2>6 DEF Closing, CallDone
  <2>8. x \in X /\ y \in X
    BY <2>5, <2>7 DEF ClosingEvents
  <2> HIDE DEF X
  <2> QED BY <2>3, <2>8
<1>4. AllDone(c) \in Seq(Seq(X))
  <2> HIDE DEF X, n
  <2>1. DOMAIN ToolsInOrder(c) = 1 .. n
    BY <1>2
  <2>2. AllDone(c) = [k \in 1 .. n |-> ToolDone(c, ToolsInOrder(c)[k])]
    BY <2>1 DEF AllDone
  <2>3. \A k \in 1 .. n : ToolDone(c, ToolsInOrder(c)[k]) \in Seq(X)
    BY <1>2, <1>3
  <2>4. AllDone(c) \in [1 .. n -> Seq(X)]
    BY <2>2, <2>3
  <2> QED BY <1>2, <2>4
<1> HIDE DEF X
<1>5. PICK fl \in [0 .. Len(AllDone(c)) -> Seq(X)] : FlattenSeq(AllDone(c)) = fl[Len(AllDone(c))]
  BY <1>4, Flattening
<1>6. Len(AllDone(c)) \in Nat
  BY <1>4
<1> QED BY <1>5, <1>6 DEF X


(* What finishOutput and the end of the stream queue. *)
LEMMA EndQueue ==
  ASSUME NEW c, Balanced(c), Complete(c)
  PROVE  LET r == FinishOutput(c)
             q == Append(r.events, Terminal(c)) IN
         /\ r.chat = c
         /\ Ending(q, c)
         /\ c.refusal # 0 => HasRefusal(q)
<1> DEFINE X == ClosingEvents(c)
           s == MessageDone(c, TextItem, "output_text.done", c.text)
           t == MessageDone(c, RefusalItem, "refusal.done", c.refusal)
           u == FlattenSeq(AllDone(c))
           w == (s \o t) \o u
           q == Append(w, Terminal(c))
<1>1. Numbered(c) /\ c \in Chats /\ ~c.expose /\ c.text \in Nat /\ c.refusal \in Nat
  BY DEF Balanced, Numbered, Chats
<1>2. TextItem # RefusalItem
  BY DEF TextItem, RefusalItem
<1>3. s \in Seq(X)
  BY <1>1, <1>2, MessageCloses
<1>4. t \in Seq(X) /\ (c.refusal # 0 => HasRefusal(t))
  BY <1>1, MessageCloses
<1>5. u \in Seq(X)
  BY CallsClose
<1>6. FinishOutput(c).chat = c /\ FinishOutput(c).events = w
  <2>1. CloseReasoning(c) = Queue(c, <<>>)
    BY <1>1, NoReasoning
  <2>2. CloseReasoning(c).chat = c /\ CloseReasoning(c).events = <<>>
    BY <2>1 DEF Queue
  <2>3. /\ FinishOutput(c).chat = CloseReasoning(c).chat
        /\ FinishOutput(c).events = ((CloseReasoning(c).events \o s) \o t) \o u
    BY DEF FinishOutput, AllDone, Queue
  <2> HIDE DEF s, t, u, X
  <2>4. <<>> \o s = s
    BY <1>3
  <2> QED BY <2>2, <2>3, <2>4
<1>7. w \in Seq(X) /\ (c.refusal # 0 => HasRefusal(w))
  <2> HIDE DEF s, t, u
  <2>1. s \o t \in Seq(X) /\ (c.refusal # 0 => HasRefusal(s \o t))
    BY <1>3, <1>4, ClosingQueue
  <2> DEFINE v == s \o t
  <2> HIDE DEF v
  <2>2. v \in Seq(X) /\ (c.refusal # 0 => HasRefusal(v))
    BY <2>1 DEF v
  <2>3. v \o u \in Seq(X) /\ (c.refusal # 0 => HasRefusal(v \o u))
    BY <1>5, <2>2, ClosingQueue
  <2> QED BY <2>3 DEF v
<1> HIDE DEF w, X
<1>8. /\ q # <<>> /\ Len(q) = Len(w) + 1 /\ q[Len(q)] = Terminal(c)
      /\ DOMAIN q = 1 .. Len(w) + 1 /\ DOMAIN w = 1 .. Len(w) /\ Len(w) \in Nat
      /\ \A k \in 1 .. Len(w) : q[k] = w[k] /\ w[k] \in X
  BY <1>7
<1> HIDE DEF q
<1>9. \A k \in DOMAIN q : k # Len(q) => k \in DOMAIN w /\ q[k] = w[k] /\ w[k] \in X
  BY <1>8
<1>10. Ending(q, c)
  BY <1>8, <1>9 DEF Ending, X, ClosingEvents
<1>11. c.refusal # 0 => HasRefusal(q)
  <2>1. \A k \in DOMAIN w : k \in DOMAIN q /\ q[k] = w[k]
    BY <1>8
  <2> QED BY <1>7, <2>1 DEF HasRefusal
<1> QED BY <1>6, <1>10, <1>11 DEF q

(* When the stream ends well, the encoder is ready for what was queued. *)
LEMMA EndInStep ==
  ASSUME NEW c, Balanced(c), Complete(c), NEW e \in Encoders, Agree(<<>>, c, e)
  PROVE  Closes(Append(FinishOutput(c).events, Terminal(c)), c, e)
<1> DEFINE q == Append(FinishOutput(c).events, Terminal(c))
<1>1. Ending(q, c) /\ (c.refusal # 0 => HasRefusal(q))
  BY EndQueue
<1>2. NewIn(<<>>) = {} /\ \A type, item : Pending(<<>>, type, item) = 0
  BY NothingPending
<1>3. Begun(c) = DOMAIN c.tools
  BY DEF Begun, Complete, Started
<1>4. /\ e.refusalText \in Nat /\ e.tools \in ToolMaps
      /\ \A i \in DOMAIN e.tools : e.tools[i].args \in Nat
  BY ToolMapFacts DEF Encoders
<1>5. Holds(c, e)
  <2>1. DOMAIN e.tools = DOMAIN c.tools
    BY <1>2, <1>3 DEF Agree
  <2>2. \A i \in DOMAIN e.tools : e.tools[i].args = c.tools[i].args /\ ~e.tools[i].closed
    BY <1>2, <1>4 DEF Agree
  <2>3. e.refusalText = c.refusal
    BY <1>2, <1>4 DEF Agree
  <2> QED BY <2>1, <2>2, <2>3 DEF Holds
<1>6. c.refusal = 0 => e.stopReason = StopOf(e)
  BY DEF Agree
<1> HIDE DEF q
<1> QED BY <1>1, <1>5, <1>6 DEF Closes, q

LEMMA EndingRest ==
  ASSUME NEW q \in Seq(WireEvents), NEW c, Ending(q, c), Len(q) # 1
  PROVE  /\ Closing(c, q[1])
         /\ Ending(Tail(q), c)
         /\ q[1].type # "refusal.done" => (HasRefusal(q) <=> HasRefusal(Tail(q)))
<1>1. q # <<>>
  BY DEF Ending
<1> DEFINE p == Tail(q)
<1>2. /\ 1 \in DOMAIN q /\ DOMAIN q = 1 .. Len(q) /\ Len(q) \in Nat /\ Len(q) >= 1
      /\ Len(p) = Len(q) - 1 /\ DOMAIN p = 1 .. Len(q) - 1
      /\ \A k \in DOMAIN p : k \in Nat /\ k + 1 \in DOMAIN q /\ p[k] = q[k + 1]
      /\ p # <<>>
  BY <1>1, TailOf
<1> HIDE DEF p
<1>3. Closing(c, q[1])
  BY <1>2 DEF Ending
<1>4. \A k \in DOMAIN p : k # Len(p) => Closing(c, p[k])
  <2> TAKE k \in DOMAIN p
  <2> HAVE k # Len(p)
  <2>1. k + 1 \in DOMAIN q /\ k + 1 # Len(q) /\ p[k] = q[k + 1]
    BY <1>2
  <2> QED BY <2>1 DEF Ending
<1>5. Len(p) \in DOMAIN p /\ p[Len(p)] = q[Len(q)]
  <2>1. Len(p) \in DOMAIN p
    BY <1>2
  <2>2. p[Len(p)] = q[Len(p) + 1]
    BY <1>2, <2>1
  <2> QED BY <1>2, <2>1, <2>2
<1>6. Ending(p, c)
  BY <1>2, <1>4, <1>5 DEF Ending
<1>7. ASSUME q[1].type # "refusal.done"
      PROVE  HasRefusal(q) <=> HasRefusal(p)
  <2>1. ASSUME NEW k \in DOMAIN q, q[k].type = "refusal.done"
        PROVE  HasRefusal(p)
    <3>1. k - 1 \in DOMAIN p
      BY <1>2, <1>7, <2>1
    <3>2. p[k - 1] = q[(k - 1) + 1]
      BY <1>2, <3>1
    <3>3. (k - 1) + 1 = k
      BY <1>2
    <3> QED BY <2>1, <3>1, <3>2, <3>3 DEF HasRefusal
  <2>2. ASSUME NEW k \in DOMAIN p, p[k].type = "refusal.done"
        PROVE  HasRefusal(q)
    BY <1>2, <2>2 DEF HasRefusal
  <2> QED BY <2>1, <2>2 DEF HasRefusal
<1> QED BY <1>3, <1>6, <1>7 DEF p


LEMMA HoldsSame ==
  ASSUME NEW c, NEW e, Holds(c, e), NEW d, d.tools = e.tools, d.refusalText = e.refusalText
  PROVE  Holds(c, d)
BY DEF Holds

(* A done event of a tool call finds the arguments the encoder has. *)
LEMMA CallCloses ==
  ASSUME NEW c, Numbered(c), NEW e \in Encoders, Distinct(e), Holds(c, e),
         NEW i \in DOMAIN c.tools, NEW d, d = FinishTool(e, i, Whole(c.tools[i].args)).enc
  PROVE  /\ d.terminal = e.terminal /\ d.stopReason = e.stopReason /\ DOMAIN d.tools = DOMAIN e.tools
         /\ Holds(c, d)
<1> DEFINE tool == e.tools[i]
           n == c.tools[i].args
           w == Whole(n)
<1>1. i \in DOMAIN e.tools /\ tool.args = IF tool.closed THEN w ELSE n
  BY DEF Holds
<1>2. n \in Nat
  <2>1. c.tools \in CallMaps
    BY DEF Numbered, Chats
  <2> QED BY <2>1, CallMapFacts
<1>3. tool \in StreamTools /\ tool.args \in Nat /\ tool.closed \in BOOLEAN
  <2>1. e.tools \in ToolMaps
    BY DEF Encoders
  <2> QED BY <1>1, <2>1, ToolMapFacts
<1> HIDE DEF n, tool
<1>4. w \in Nat /\ w # 0 /\ (n # 0 => w = n) /\ (n = 0 => w = 1)
  BY <1>2 DEF Whole
<1> HIDE DEF w
<1>5. d = FinishTool(e, i, w).enc
  BY DEF w, n
<1>6. CASE tool.closed
  <2>1. FinishTool(e, i, w) = Emit(e, <<>>)
    BY <1>1, <1>6 DEF FinishTool, tool
  <2> QED BY <1>5, <2>1 DEF Emit
<1>7. CASE ~tool.closed
  <2>1. tool.args = n /\ ~(w # 0 /\ w # tool.args /\ tool.args # 0)
    BY <1>1, <1>4, <1>7
  <2>2. FinishTool(e, i, w) = Emit(Put(e, i, Finished(tool, w)), LastEvents(tool, w))
    BY <1>7, <2>1, FinishToolIs DEF tool
  <2> DEFINE done == Finished(tool, w)
  <2>3. /\ done \in StreamTools /\ done.index = tool.index /\ done.output = tool.output
        /\ done.args = FinalArgs(tool, w) /\ done.closed
    BY <1>3, <1>4, FinishedTool
  <2>4. done.args = w
    BY <1>4, <2>1, <2>3 DEF FinalArgs
  <2> HIDE DEF done
  <2>5. d = Put(e, i, done)
    BY <1>5, <2>2 DEF Emit, done
  <2>6. /\ d.terminal = e.terminal /\ d.stopReason = e.stopReason /\ d.refusalText = e.refusalText
        /\ DOMAIN d.tools = DOMAIN e.tools /\ d.tools[i] = done
        /\ \A t \in DOMAIN e.tools : t # i => d.tools[t] = e.tools[t]
    BY <1>1, <2>3, <2>5, SetTool DEF tool
  <2>7. ASSUME NEW t \in DOMAIN d.tools
        PROVE  d.tools[t].args = IF d.tools[t].closed THEN Whole(c.tools[t].args) ELSE c.tools[t].args
    <3>1. CASE t = i
      BY <2>3, <2>4, <2>6, <3>1 DEF w, n
    <3>2. CASE t # i
      BY <2>6, <3>2 DEF Holds
    <3> QED BY <3>1, <3>2
  <2>8. Holds(c, d)
    BY <2>6, <2>7 DEF Holds
  <2> QED BY <2>6, <2>8
<1> QED BY <1>6, <1>7

(* A done event before the last one is accepted. *)
LEMMA CloseDelivered ==
  ASSUME NEW c, Numbered(c), NEW q \in Seq(WireEvents), NEW e, NEW s, Shows(e, s), Closes(q, c, e),
         Len(q) # 1, NEW bad
  PROVE  LET d == Encode(e, q[1], bad).enc IN ~d.terminal /\ Closes(Tail(q), c, d)
<1> DEFINE ev == q[1]
           d == Encode(e, ev, bad).enc
<1>1. e \in Encoders /\ ~e.terminal /\ Distinct(e)
  BY DEF Shows
<1>2. /\ Closing(c, ev) /\ Ending(Tail(q), c) /\ Holds(c, e)
      /\ ev.type # "refusal.done" => (HasRefusal(q) <=> HasRefusal(Tail(q)))
  BY EndingRest DEF Closes
<1>3. IF c.refusal = 0 THEN e.stopReason = StopOf(e) ELSE e.stopReason = "refusal" \/ HasRefusal(q)
  BY DEF Closes
<1> HIDE DEF ev
<1>4. CASE ev.type \in {"output_text.done", "content_part.done"}
  <2>1. d = CloseText(e).enc
    BY <1>4 DEF Encode
  <2>2. SameWork(e, d)
    BY <1>1, <2>1, CloseTextWork
  <2> HIDE DEF d
  <2>3. ~d.terminal /\ d.stopReason = e.stopReason /\ StopOf(d) = StopOf(e) /\ Holds(c, d)
    BY <1>1, <1>2, <2>2, HoldsSame DEF SameWork, StopOf
  <2> QED BY <1>2, <1>3, <1>4, <2>3 DEF Closes, d, ev
<1>5. CASE ev.type = "output_item.done" /\ ev.kind = "message"
  <2>1. Encode(e, ev, bad) = Emit(e, <<>>)
    BY <1>5 DEF Encode
  <2>2. d = e
    BY <2>1 DEF Emit
  <2> HIDE DEF d
  <2> QED BY <1>1, <1>2, <1>3, <1>5, <2>2 DEF Closes, d, ev
<1>6. CASE ev.type = "refusal.done" /\ ev.size = c.refusal /\ c.refusal # 0
  <2> DEFINE r == [e EXCEPT !.stopReason = "refusal"]
  <2>1. /\ r \in Encoders /\ r.refusalText = e.refusalText /\ r.stopReason = "refusal"
        /\ r.tools = e.tools /\ r.terminal = e.terminal
    BY <1>1 DEF Encoders, StopReasons
  <2>2. Encode(e, ev, bad) = RefusalDone(e, ev.size)
    BY <1>6 DEF Encode
  <2>3. RefusalDone(e, ev.size) = CloseText(r)
    BY <1>2, <1>6, <2>1 DEF RefusalDone, Holds
  <2> HIDE DEF r
  <2>4. SameWork(r, d)
    BY <2>1, <2>2, <2>3, CloseTextWork
  <2> HIDE DEF d
  <2>5. ~d.terminal /\ d.stopReason = "refusal" /\ Holds(c, d)
    BY <1>1, <1>2, <2>1, <2>4, HoldsSame DEF SameWork
  <2> QED BY <1>2, <1>6, <2>5 DEF Closes, d, ev
<1>7. CASE CallDone(ev) /\ ev.item \in DOMAIN c.tools /\ ev.size = Whole(c.tools[ev.item].args)
  <2>1. Encode(e, ev, bad) = WithTool(e, ev, FinishTool)
    BY <1>7 DEF Encode, CallDone
  <2>2. ev.item # 0 /\ ev.item \in DOMAIN e.tools
    BY <1>2, <1>7, ItemFacts DEF Holds
  <2>3. WithTool(e, ev, FinishTool) = FinishTool(e, ev.item, ev.size)
    BY <2>2, ToolFound
  <2>4. d = FinishTool(e, ev.item, Whole(c.tools[ev.item].args)).enc
    BY <1>7, <2>1, <2>3
  <2> HIDE DEF d
  <2>5. /\ d.terminal = e.terminal /\ d.stopReason = e.stopReason /\ DOMAIN d.tools = DOMAIN e.tools
        /\ Holds(c, d)
    BY <1>1, <1>2, <1>7, <2>4, CallCloses
  <2>6. ev.type # "refusal.done"
    BY <1>7 DEF CallDone
  <2>7. StopOf(d) = StopOf(e)
    BY <2>5 DEF StopOf
  <2> QED BY <1>1, <1>2, <1>3, <2>5, <2>6, <2>7 DEF Closes, d, ev
<1> QED BY <1>2, <1>4, <1>5, <1>6, <1>7 DEF Closing, ev


(* What a message that ended well says about the chat stream. *)
Honest(c, e) ==
  /\ e.success <=> e.stopReason # "max_tokens"
  /\ e.stopReason = "max_tokens" <=> c.finish = "length"
  /\ e.success => IF c.refusal # 0 THEN e.stopReason = "refusal"
                  ELSE IF DOMAIN c.tools # {} THEN e.stopReason = "tool_use"
                  ELSE e.stopReason = "end_turn"

Delivered(c, e) ==
  /\ DOMAIN e.tools = DOMAIN c.tools
  /\ \A i \in DOMAIN e.tools : e.tools[i].args = Whole(c.tools[i].args)

LastIs(s, type) == s[Len(s)].type = type

LEMMA LastEvent ==
  ASSUME NEW s \in Seq(Sse), NEW a \in Sse, NEW b \in Sse, NEW t \in Seq(Sse)
  PROVE  /\ LastIs(s \o <<a>>, a.type)
         /\ LastIs(s \o (t \o <<a, b>>), b.type)
<1>1. LastIs(s \o <<a>>, a.type)
  <2>1. s \o <<a>> = Append(s, a)
    BY Joined
  <2>2. Append(s, a)[Len(Append(s, a))] = a
    OBVIOUS
  <2> QED BY <2>1, <2>2 DEF LastIs
<1>2. LastIs(s \o (t \o <<a, b>>), b.type)
  <2>1. <<a, b>> \in Seq(Sse)
    BY Joined
  <2>2. s \o (t \o <<a, b>>) = (s \o t) \o <<a, b>>
    BY <2>1, Assoc, Zenon
  <2>3. s \o t \in Seq(Sse)
    OBVIOUS
  <2> DEFINE u == s \o t
  <2> HIDE DEF u
  <2>4. u \in Seq(Sse)
    BY <2>3 DEF u
  <2>5. u \o <<a, b>> = Append(Append(u, a), b)
    BY <2>4, Joined
  <2>6. Append(Append(u, a), b)[Len(Append(Append(u, a), b))] = b
    BY <2>4
  <2> QED BY <2>2, <2>5, <2>6 DEF LastIs, u
<1> QED BY <1>1, <1>2

LEMMA FailSays ==
  ASSUME NEW e \in Encoders, NEW s \in Seq(Sse)
  PROVE  Fail(e).enc.terminal /\ LastIs(s \o Fail(e).events, "error")
<1> DEFINE a == Terminator("error")
<1>1. a \in Sse /\ a.type = "error"
  BY EventTypes DEF Terminator
<1>2. Fail(e).events = <<a>> /\ Fail(e).enc.terminal
  BY DEF Fail, Emit, Encoders
<1> HIDE DEF a
<1> QED BY <1>1, <1>2, LastEvent

(* Finish: the arguments are no JSON object, or the message stops. *)
Stops(r, e, s, stop) ==
  /\ LastIs(s \o r.events, "message_stop")
  /\ r.enc = [e EXCEPT !.textOpen = FALSE, !.tools = AllFinished(e),
                       !.stopReason = stop, !.terminal = TRUE, !.success = TRUE]

LEMMA FinishSays ==
  ASSUME NEW e, NEW s, Shows(e, s), NEW stop \in StopReasons, NEW bad \in BOOLEAN
  PROVE  /\ Finish(e, stop, bad).enc.terminal
         /\ \/ LastIs(s \o Finish(e, stop, bad).events, "error") /\ bad /\ stop # "max_tokens"
            \/ Stops(Finish(e, stop, bad), e, s, stop)
<1> DEFINE f == FinishTools(e)
           a == Terminator("message_delta")
           b == Terminator("message_stop")
           d == [f.enc EXCEPT !.stopReason = stop, !.terminal = TRUE, !.success = TRUE]
<1>1. /\ f.events \in Seq(Sse) /\ f.enc \in Encoders
      /\ f.enc = [e EXCEPT !.textOpen = FALSE, !.tools = AllFinished(e)]
  BY FinishToolsGood DEF Shows
<1>2. s \in Seq(Sse) /\ e \in Encoders
  BY DEF Shows, Running
<1> HIDE DEF f
<1>3. CASE stop # "max_tokens" /\ bad
  <2>1. Finish(e, stop, bad) = Fail(f.enc)
    BY <1>3 DEF Finish, f
  <2> QED BY <1>1, <1>2, <1>3, <2>1, FailSays
<1>4. CASE ~(stop # "max_tokens" /\ bad)
  <2>1. Finish(e, stop, bad) = Emit(d, f.events \o <<a, b>>)
    BY <1>4 DEF Finish, f
  <2>2. a \in Sse /\ b \in Sse /\ b.type = "message_stop"
    BY EventTypes DEF Terminator
  <2>3. /\ d.terminal
        /\ d = [e EXCEPT !.textOpen = FALSE, !.tools = AllFinished(e),
                         !.stopReason = stop, !.terminal = TRUE, !.success = TRUE]
    BY <1>1, <1>2 DEF Encoders
  <2> HIDE DEF a, b, d
  <2>4. LastIs(s \o (f.events \o <<a, b>>), "message_stop")
    <3>1. LastIs(s \o (f.events \o <<a, b>>), b.type)
      BY <1>1, <1>2, <2>2, LastEvent, Zenon
    <3> QED BY <2>2, <3>1
  <2>5. Finish(e, stop, bad).enc = d /\ Finish(e, stop, bad).events = f.events \o <<a, b>>
    BY <2>1 DEF Emit
  <2> QED BY <2>3, <2>4, <2>5 DEF Stops
<1> QED BY <1>3, <1>4

LEMMA AllFinishedHold ==
  ASSUME NEW c, Numbered(c), NEW e \in Encoders, Holds(c, e), NEW d, d.tools = AllFinished(e)
  PROVE  Delivered(c, d)
<1>1. DOMAIN d.tools = DOMAIN e.tools /\ DOMAIN e.tools = DOMAIN c.tools
  BY DEF AllFinished, Holds
<1>2. ASSUME NEW i \in DOMAIN e.tools
      PROVE  d.tools[i].args = Whole(c.tools[i].args)
  <2>1. e.tools[i] \in StreamTools
    <3>1. e.tools \in ToolMaps
      BY DEF Encoders
    <3> QED BY <3>1, ToolMapFacts
  <2>2. e.tools[i].args = IF e.tools[i].closed THEN Whole(c.tools[i].args) ELSE c.tools[i].args
    BY DEF Holds
  <2>3. CASE e.tools[i].closed
    BY <2>2, <2>3 DEF AllFinished
  <2>4. CASE ~e.tools[i].closed
    <3>1. d.tools[i] = Finished(e.tools[i], 0)
      BY <2>4 DEF AllFinished
    <3>2. Finished(e.tools[i], 0).args = FinalArgs(e.tools[i], 0)
      BY <2>1, FinishedTool
    <3>3. e.tools[i].args = c.tools[i].args
      BY <2>2, <2>4
    <3> QED BY <3>1, <3>2, <3>3 DEF FinalArgs, Whole
  <2> QED BY <2>3, <2>4
<1> QED BY <1>1, <1>2 DEF Delivered

(* The terminal event ends the message, and rightly. *)
LEMMA TerminalDelivered ==
  ASSUME NEW c, Numbered(c), NEW q \in Seq(WireEvents), NEW e, NEW s, Shows(e, s), Closes(q, c, e),
         Len(q) = 1, NEW bad \in BOOLEAN
  PROVE  LET r == Encode(e, q[1], bad) IN
         /\ r.enc.terminal
         /\ \/ LastIs(s \o r.events, "error") /\ bad
            \/ LastIs(s \o r.events, "message_stop") /\ Honest(c, r.enc) /\ Delivered(c, r.enc)
<1> DEFINE ev == q[1]
           r == Encode(e, ev, bad)
<1>1. e \in Encoders /\ e.stopReason \in StopReasons
  BY DEF Shows, Encoders
<1>2. ev = Terminal(c) /\ Holds(c, e)
  BY DEF Closes, Ending
<1>3. ev.type = IF c.finish = "length" THEN "incomplete" ELSE "completed"
  <2>1. Terminal(c).type = IF c.finish = "length" THEN "incomplete" ELSE "completed"
    BY DEF Terminal, Lifecycle, Event
  <2> QED BY <1>2, <2>1
<1>4. c.refusal # 0 => e.stopReason = "refusal"
  <2>1. DOMAIN q = {1}
    <3>1. DOMAIN q = 1 .. Len(q)
      OBVIOUS
    <3> QED BY <3>1
  <2>2. ~HasRefusal(q)
    BY <1>3, <2>1 DEF HasRefusal, ev
  <2> QED BY <2>2 DEF Closes
<1>5. c.refusal = 0 => e.stopReason = StopOf(e)
  BY DEF Closes
<1>6. DOMAIN e.tools = DOMAIN c.tools
  BY <1>2 DEF Holds
<1> HIDE DEF ev
<1>7. CASE c.finish = "length"
  <2> DEFINE f == Finish(e, "max_tokens", bad)
  <2>1. r = FinishTruncated(e, bad)
    BY <1>3, <1>7 DEF Encode
  <2>2. r.enc = [f.enc EXCEPT !.success = FALSE] /\ r.events = f.events
    BY <2>1 DEF FinishTruncated, Emit
  <2>3. "max_tokens" \in StopReasons
    BY DEF StopReasons
  <2>4. Stops(f, e, s, "max_tokens")
    BY <2>3, FinishSays, Zenon
  <2> HIDE DEF f, r
  <2>5. /\ r.enc.tools = AllFinished(e) /\ r.enc.terminal /\ r.enc.success = FALSE
        /\ r.enc.stopReason = "max_tokens"
    BY <1>1, <2>2, <2>4 DEF Encoders, Stops
  <2>6. Honest(c, r.enc)
    BY <1>7, <2>5 DEF Honest
  <2>7. Delivered(c, r.enc)
    BY <1>1, <1>2, <2>5, AllFinishedHold
  <2> QED BY <2>2, <2>4, <2>5, <2>6, <2>7 DEF r, ev, Stops
<1>8. CASE c.finish # "length"
  <2>1. r = Finish(e, e.stopReason, bad)
    BY <1>3, <1>8 DEF Encode
  <2>2. /\ r.enc.terminal
        /\ \/ LastIs(s \o r.events, "error") /\ bad
           \/ Stops(r, e, s, e.stopReason)
    BY <1>1, <2>1, FinishSays, Zenon
  <2> HIDE DEF r
  <2>3. CASE Stops(r, e, s, e.stopReason)
    <3>1. r.enc.tools = AllFinished(e) /\ r.enc.success = TRUE /\ r.enc.stopReason = e.stopReason
      BY <1>1, <2>3 DEF Encoders, Stops
    <3>2. e.stopReason # "max_tokens"
      BY <1>4, <1>5 DEF StopOf
    <3>3. IF c.refusal # 0 THEN e.stopReason = "refusal"
          ELSE IF DOMAIN c.tools # {} THEN e.stopReason = "tool_use"
          ELSE e.stopReason = "end_turn"
      BY <1>4, <1>5, <1>6 DEF StopOf
    <3>4. Honest(c, r.enc)
      BY <1>8, <3>1, <3>2, <3>3 DEF Honest
    <3>5. Delivered(c, r.enc)
      BY <1>1, <1>2, <3>1, AllFinishedHold
    <3> QED BY <2>2, <2>3, <3>4, <3>5 DEF r, ev, Stops
  <2> QED BY <2>2, <2>3 DEF r, ev
<1> QED BY <1>7, <1>8


-----------------------------------------------------------------------------
(***************************************************************************)
(* The invariant of the handover: while the chat stream is read, encoder   *)
(* and queue together hold what the adapter has (Agree); when it ended     *)
(* well, the queue closes what the encoder holds (Closes); a message that  *)
(* is over ended in an error for a cause, or tells the truth.              *)
(***************************************************************************)
Phase(q, c, e) ==
  IF c.ended /\ ~c.err THEN Closes(q, c, e) ELSE Opening(q, c) /\ Agree(q, c, e)

Ended ==
  /\ chat.ended
  /\ \/ LastIs(sse, "error") /\ (chat.err \/ badArgs)
     \/ LastIs(sse, "message_stop") /\ Honest(chat, enc) /\ Delivered(chat, enc)

HandInv ==
  /\ client = "hoard" => ~enc.terminal
  /\ Chat /\ client = "messages" =>
       Balanced(chat) /\ IF enc.terminal THEN Ended ELSE Phase(queue, chat, enc)

LEMMA SameChat ==
  ASSUME NEW c, Balanced(c), NEW d \in Chats, d.tools = c.tools, d.output = c.output,
         d.text = c.text, d.refusal = c.refusal, d.expose = c.expose,
         d.reasoningClosed = c.reasoningClosed
  PROVE  /\ Balanced(d)
         /\ \A q : Opening(q, c) => Opening(q, d)
         /\ \A q, e : Agree(q, c, e) => Agree(q, d, e)
         /\ \A q, e : Closes(q, c, e) /\ d.finish = c.finish => Closes(q, d, e)
<1>1. Balanced(d)
  <2>1. Numbered(d)
    BY DEF Balanced, Numbered
  <2> QED BY <2>1 DEF Balanced
<1>2. Begun(d) = Begun(c)
  BY DEF Begun
<1>3. ASSUME NEW q, Opening(q, c) PROVE Opening(q, d)
  BY <1>2, <1>3 DEF Opening
<1>4. ASSUME NEW q, NEW e, Agree(q, c, e) PROVE Agree(q, d, e)
  BY <1>2, <1>4 DEF Agree
<1>5. ASSUME NEW q, NEW e, Closes(q, c, e), d.finish = c.finish PROVE Closes(q, d, e)
  <2>1. Terminal(d) = Terminal(c)
    BY <1>5 DEF Terminal
  <2>2. \A ev : Closing(d, ev) <=> Closing(c, ev)
    BY DEF Closing
  <2>3. Ending(q, d)
    BY <1>5, <2>1, <2>2 DEF Closes, Ending
  <2>4. Holds(d, e)
    BY <1>5 DEF Closes, Holds
  <2> QED BY <1>5, <2>3, <2>4 DEF Closes
<1> QED BY <1>1, <1>3, <1>4, <1>5

LEMMA HandInit == Init => HandInv
<1> SUFFICES ASSUME Init PROVE HandInv
  OBVIOUS
<1>1. /\ enc = NewStreamEncoder /\ queue = <<>> /\ (chat.expose <=> client = "hoard")
      /\ client \in {"messages", "hoard"}
  BY DEF Init, EncoderInit, ChatInit
<1>2. Numbered(chat)
  BY StreamInit DEF StreamInv
<1>3. /\ ~chat.ended /\ chat.text = 0 /\ chat.refusal = 0 /\ chat.output = <<>> /\ chat.tools = <<>>
  <2>1. PICK expose \in BOOLEAN :
          chat = [started |-> FALSE, ended |-> FALSE, err |-> FALSE, finish |-> "",
                  text |-> 0, refusal |-> 0, reasoning |-> 0, expose |-> expose,
                  reasoningClosed |-> FALSE, output |-> <<>>, tools |-> <<>>]
    BY DEF Init, ChatInit
  <2> QED BY <2>1
<1>4. /\ ~enc.terminal /\ enc.tools = <<>> /\ enc.refusalText = 0 /\ enc.stopReason = "end_turn"
  BY <1>1 DEF NewStreamEncoder
<1>5. DOMAIN <<>> = {}
  OBVIOUS
<1>6. client = "messages" => Balanced(chat)
  BY <1>1, <1>2, <1>3, <1>5 DEF Balanced
<1>7. Opening(queue, chat)
  BY <1>1, NothingPending
<1>8. Agree(queue, chat, enc)
  <2>1. NewIn(queue) = {} /\ \A type, item : Pending(queue, type, item) = 0
    BY <1>1, NothingPending
  <2>2. DOMAIN enc.tools = {} /\ Begun(chat) = {} /\ StopOf(enc) = "end_turn"
    BY <1>3, <1>4, <1>5 DEF Begun, StopOf
  <2> QED BY <1>3, <1>4, <2>1, <2>2 DEF Agree
<1> QED BY <1>3, <1>4, <1>6, <1>7, <1>8 DEF HandInv, Phase

(* The adapter's steps leave the encoder alone. *)
LEMMA HandChat ==
  ASSUME HandInv, Chat, client = "messages", ~enc.terminal, UNCHANGED <<encoderVars, client, wireAPI>>,
         Balanced(chat'), Phase(queue', chat', enc)
  PROVE  HandInv'
<1>1. enc' = enc /\ client' = client /\ Chat'
  BY DEF encoderVars, Chat
<1> QED BY <1>1 DEF HandInv

LEMMA HandReading ==
  ASSUME HandInv, Chat, client = "messages", ~chat.ended
  PROVE  ~enc.terminal /\ Balanced(chat) /\ Opening(queue, chat) /\ Agree(queue, chat, enc)
BY DEF HandInv, Ended, Phase

LEMMA HandReceive ==
  ASSUME StreamInv, HandInv, Chat, client = "messages", UNCHANGED <<encoderVars, client, wireAPI>>,
         ~chat.ended, NEW r, InStep(r, chat, enc), SameRun(chat, r.chat), Receive(r)
  PROVE  HandInv'
<1>1. ~enc.terminal
  BY HandReading
<1>2. chat' = r.chat /\ queue' = r.events
  BY DEF Receive
<1>3. Balanced(chat') /\ Opening(queue', chat') /\ Agree(queue', chat', enc)
  BY <1>2 DEF InStep
<1>4. ~chat'.ended
  BY <1>2 DEF SameRun
<1>5. Phase(queue', chat', enc)
  BY <1>3, <1>4 DEF Phase
<1> QED BY <1>1, <1>3, <1>5, HandChat

LEMMA HandChunk ==
  ASSUME StreamInv, ShowInv, HandInv, client = "messages", ChatChunk
  PROVE  HandInv'
<1>1. Chat /\ UNCHANGED <<encoderVars, client, wireAPI>>
  BY DEF ChatChunk, Chat
<1>2. enc \in Encoders
  BY DEF ShowInv
<1>3. ASSUME Reading
      PROVE  /\ queue = <<>> /\ ~chat.ended /\ Keeps(chat, log) /\ chat \in Chats
             /\ Balanced(chat) /\ Agree(<<>>, chat, enc) /\ ~enc.terminal
  BY <1>1, <1>3, StreamIdle, HandReading DEF Reading
<1>4. CASE ReceiveText
  <2>1. InStep(AddText(chat), chat, enc) /\ SameRun(chat, AddText(chat).chat)
    BY <1>2, <1>3, <1>4, ContentInStep, AddContentRun DEF ReceiveText
  <2> QED BY <1>1, <1>3, <1>4, <2>1, HandReceive DEF ReceiveText
<1>5. CASE ReceiveRefusal
  <2>1. InStep(AddRefusal(chat), chat, enc) /\ SameRun(chat, AddRefusal(chat).chat)
    BY <1>2, <1>3, <1>5, ContentInStep, AddContentRun DEF ReceiveRefusal
  <2> QED BY <1>1, <1>3, <1>5, <2>1, HandReceive DEF ReceiveRefusal
<1>6. CASE ReceiveReasoning
  <2>1. InStep(AddReasoning(chat), chat, enc) /\ SameRun(chat, AddReasoning(chat).chat)
    BY <1>2, <1>3, <1>6, ReasoningInStep, AddContentRun DEF ReceiveReasoning
  <2> QED BY <1>1, <1>3, <1>6, <2>1, HandReceive DEF ReceiveReasoning
<1>7. ASSUME NEW i \in Calls, NEW id \in BOOLEAN, NEW name \in BOOLEAN, NEW n \in 0 .. 1,
             ReceiveToolDelta(i, id, name, n)
      PROVE  HandInv'
  <2> DEFINE r == AddToolDelta(chat, i, id, name, n)
  <2>0. n \in Nat /\ Reading /\ Receive(r)
    BY <1>7 DEF ReceiveToolDelta
  <2>1. InStep(r, chat, enc) /\ SameRun(chat, r.chat)
    BY <1>2, <1>3, <2>0, CallInStep, AddToolDeltaRun
  <2> HIDE DEF r
  <2> QED BY <1>1, <1>3, <2>0, <2>1, HandReceive
<1>8. ASSUME NEW reason \in {"stop", "length"}, ReceiveFinish(reason) PROVE HandInv'
  <2>1. Reading /\ queue' = queue /\ chat' = [chat EXCEPT !.finish = reason]
    BY <1>8 DEF ReceiveFinish
  <2>2. /\ chat' \in Chats /\ chat'.tools = chat.tools /\ chat'.output = chat.output
        /\ chat'.text = chat.text /\ chat'.refusal = chat.refusal /\ chat'.expose = chat.expose
        /\ chat'.reasoningClosed = chat.reasoningClosed /\ chat'.ended = chat.ended
    BY <1>3, <2>1 DEF Chats
  <2>3. Balanced(chat') /\ Agree(<<>>, chat', enc) /\ Opening(<<>>, chat')
    BY <1>3, <2>1, <2>2, SameChat, NothingPending
  <2>4. Phase(queue', chat', enc)
    BY <1>3, <2>1, <2>2, <2>3 DEF Phase
  <2> QED BY <1>1, <1>3, <2>1, <2>3, <2>4, HandChat
<1> QED BY <1>4, <1>5, <1>6, <1>7, <1>8 DEF ChatChunk


LEMMA HandEdge ==
  ASSUME StreamInv, ShowInv, HandInv, client = "messages", ChatEdge
  PROVE  HandInv'
<1>1. Chat /\ UNCHANGED <<encoderVars, client, wireAPI>>
  BY DEF ChatEdge, Chat
<1>2. enc \in Encoders /\ chat \in Chats
  BY DEF ShowInv, StreamInv, Numbered
<1>3. CASE Announce
  <2> DEFINE ev == Lifecycle("created")
             q == <<ev>>
  <2>1. queue = <<>> /\ ~chat.started /\ chat' = [chat EXCEPT !.started = TRUE] /\ queue' = q
    BY <1>3 DEF Announce
  <2>2. ~chat.ended
    BY <2>1 DEF StreamInv
  <2>3. ~enc.terminal /\ Balanced(chat) /\ Agree(<<>>, chat, enc)
    BY <1>1, <2>1, <2>2, HandReading
  <2>4. /\ chat' \in Chats /\ chat'.tools = chat.tools /\ chat'.output = chat.output
        /\ chat'.text = chat.text /\ chat'.refusal = chat.refusal /\ chat'.expose = chat.expose
        /\ chat'.reasoningClosed = chat.reasoningClosed /\ chat'.ended = chat.ended
    BY <1>2, <2>1 DEF Chats
  <2>5. Balanced(chat') /\ Agree(<<>>, chat', enc)
    BY <2>3, <2>4, SameChat
  <2>6. ev \in WireEvents /\ ev.type = "created"
    <3>1. ev = [type |-> "created", kind |-> "", item |-> 0, output |-> -1, size |-> 0]
      BY DEF Lifecycle, Event
    <3>2. "" \in Kinds /\ "" # "function_call" /\ "created" \in WireTypes
      BY DEF Kinds, WireTypes
    <3>3. 0 \in Int /\ -1 \in Int /\ 0 \in Nat
      OBVIOUS
    <3> HIDE DEF ev
    <3> QED BY <3>1, <3>2, <3>3 DEF WireEvents
  <2> HIDE DEF ev
  <2>7. q # <<>> /\ Len(q) = 1 /\ q[1] = ev /\ DOMAIN q = {1}
    BY <2>6, ShortQueue
  <2> HIDE DEF q
  <2>8. Opening(q, chat')
    BY <2>6, <2>7 DEF Opening, OpeningTypes, Deltas, IsNew
  <2>9. /\ NewIn(q) = {} /\ Pending(q, "refusal.delta", RefusalItem) = 0
        /\ \A i : Pending(q, "function_call_arguments.delta", i) = 0
    BY <2>6, <2>7 DEF NewIn, Pending, IsNew
  <2>10. NewIn(<<>>) = {} /\ \A type, item : Pending(<<>>, type, item) = 0
    BY NothingPending
  <2>11. Agree(q, chat', enc)
    BY <2>5, <2>9, <2>10 DEF Agree
  <2>12. Phase(queue', chat', enc)
    BY <2>1, <2>2, <2>4, <2>8, <2>11 DEF Phase
  <2> QED BY <1>1, <2>3, <2>5, <2>12, HandChat
<1>4. ASSUME Reading
      PROVE  /\ queue = <<>> /\ ~chat.ended /\ Balanced(chat) /\ Agree(<<>>, chat, enc) /\ ~enc.terminal
  BY <1>1, <1>4, HandReading DEF Reading
<1>5. ASSUME Reading, queue' = queue, chat' = [chat EXCEPT !.ended = TRUE, !.err = TRUE]
      PROVE  HandInv'
  <2>1. /\ chat' \in Chats /\ chat'.tools = chat.tools /\ chat'.output = chat.output
        /\ chat'.text = chat.text /\ chat'.refusal = chat.refusal /\ chat'.expose = chat.expose
        /\ chat'.reasoningClosed = chat.reasoningClosed /\ chat'.err
    BY <1>2, <1>5 DEF Chats
  <2>2. Balanced(chat') /\ Agree(<<>>, chat', enc) /\ Opening(<<>>, chat')
    BY <1>4, <1>5, <2>1, SameChat, NothingPending
  <2>3. Phase(queue', chat', enc)
    BY <1>4, <1>5, <2>1, <2>2 DEF Phase
  <2> QED BY <1>1, <1>4, <1>5, <2>2, <2>3, HandChat
<1>6. CASE InnerFails
  BY <1>5, <1>6 DEF InnerFails
<1>7. CASE InnerEnds
  <2>1. CASE ~Complete(chat)
    BY <1>5, <1>7, <2>1 DEF InnerEnds
  <2>2. CASE Complete(chat)
    <3> DEFINE c == [chat EXCEPT !.finish = IF @ = "" THEN "stop" ELSE @]
               r == FinishOutput(c)
               q == Append(r.events, Terminal(c))
    <3>1. Reading /\ chat' = [r.chat EXCEPT !.ended = TRUE] /\ queue' = q
      BY <1>7, <2>2 DEF InnerEnds
    <3>2. /\ c \in Chats /\ c.tools = chat.tools /\ c.output = chat.output
          /\ c.text = chat.text /\ c.refusal = chat.refusal /\ c.expose = chat.expose
          /\ c.reasoningClosed = chat.reasoningClosed /\ c.err = chat.err
      BY <1>2 DEF Chats
    <3> HIDE DEF c
    <3>3. Balanced(c) /\ Agree(<<>>, c, enc)
      BY <1>4, <3>1, <3>2, SameChat
    <3>4. Complete(c)
      BY <2>2, <3>2 DEF Complete, Started
    <3>5. r.chat = c
      BY <3>3, <3>4, EndQueue
    <3>6. Closes(q, c, enc)
      BY <1>2, <3>3, <3>4, EndInStep
    <3> HIDE DEF q, r
    <3>7. chat' = [c EXCEPT !.ended = TRUE]
      BY <3>1, <3>5
    <3>8. /\ chat' \in Chats /\ chat'.tools = c.tools /\ chat'.output = c.output
          /\ chat'.text = c.text /\ chat'.refusal = c.refusal /\ chat'.expose = c.expose
          /\ chat'.reasoningClosed = c.reasoningClosed /\ chat'.finish = c.finish
          /\ chat'.ended /\ chat'.err = chat.err
      BY <3>2, <3>7 DEF Chats
    <3>9. Balanced(chat') /\ Closes(q, chat', enc)
      BY <3>3, <3>6, <3>8, SameChat
    <3>10. ~chat.err
      BY <1>4, <3>1 DEF StreamInv
    <3>11. Phase(queue', chat', enc)
      BY <3>1, <3>8, <3>9, <3>10 DEF Phase
    <3> QED BY <1>1, <1>4, <3>1, <3>9, <3>11, HandChat
  <2> QED BY <2>1, <2>2
<1> QED BY <1>3, <1>6, <1>7 DEF ChatEdge

(* An event reaches the encoder. *)
LEMMA HandDeliver ==
  ASSUME StreamInv, ShowInv, HandInv, Chat, Deliver
  PROVE  HandInv'
<1>1. /\ client = "messages" /\ queue # <<>> /\ ~enc.terminal /\ queue' = Tail(queue)
      /\ UNCHANGED <<chat, client, wireAPI>>
  BY DEF Deliver
<1>2. PICK bad \in BOOLEAN : badArgs' = bad /\ HandleResponsesEvent(Head(queue), bad)
  BY DEF Deliver
<1>3. Shows(enc, sse) /\ enc \in Encoders
  BY <1>1 DEF ShowInv
<1>4. queue \in Seq(WireEvents) /\ Numbered(chat) /\ (chat.err => chat.ended)
  BY DEF StreamInv
<1>5. Head(queue) = queue[1]
  BY <1>1, <1>4, TailOf
<1> DEFINE r == Encode(enc, queue[1], bad)
<1>6. enc' = r.enc /\ sse' = sse \o r.events
  BY <1>1, <1>2, <1>5 DEF HandleResponsesEvent
<1>7. Balanced(chat) /\ Phase(queue, chat, enc)
  BY <1>1 DEF HandInv
<1>8. Chat' /\ chat' = chat /\ client' = "messages"
  BY <1>1 DEF Chat
<1>9. CASE ~(chat.ended /\ ~chat.err)
  <2>1. Streams(chat, queue, enc)
    BY <1>1, <1>3, <1>4, <1>7, <1>9 DEF Streams, Phase
  <2>2. ~r.enc.terminal /\ Opening(Tail(queue), chat) /\ Agree(Tail(queue), chat, r.enc)
    BY <1>1, <2>1, StreamDelivered
  <2> HIDE DEF r
  <2> QED BY <1>1, <1>6, <1>7, <1>8, <1>9, <2>2 DEF HandInv, Phase
<1>10. CASE chat.ended /\ ~chat.err
  <2>1. Closes(queue, chat, enc)
    BY <1>7, <1>10 DEF Phase
  <2>2. CASE Len(queue) # 1
    <3>1. ~r.enc.terminal /\ Closes(Tail(queue), chat, r.enc)
      BY <1>3, <1>4, <2>1, <2>2, CloseDelivered
    <3> HIDE DEF r
    <3> QED BY <1>1, <1>6, <1>7, <1>8, <1>10, <3>1 DEF HandInv, Phase
  <2>3. CASE Len(queue) = 1
    <3>1. /\ r.enc.terminal
          /\ \/ LastIs(sse \o r.events, "error") /\ bad
             \/ LastIs(sse \o r.events, "message_stop") /\ Honest(chat, r.enc) /\ Delivered(chat, r.enc)
      BY <1>3, <1>4, <2>1, <2>3, TerminalDelivered, Zenon
    <3> HIDE DEF r
    <3>2. /\ enc'.terminal
          /\ \/ LastIs(sse', "error") /\ badArgs'
             \/ LastIs(sse', "message_stop") /\ Honest(chat', enc') /\ Delivered(chat', enc')
      <4>1. bad = badArgs'
        BY <1>2
      <4> QED BY <1>6, <1>8, <3>1, <4>1
    <3>3. Ended'
      BY <1>8, <1>10, <3>2 DEF Ended
    <3> QED BY <1>7, <1>8, <3>2, <3>3 DEF HandInv
  <2> QED BY <2>2, <2>3
<1> QED BY <1>9, <1>10

LEMMA HandBroken ==
  ASSUME StreamInv, ShowInv, HandInv, Chat, Broken
  PROVE  HandInv'
<1>1. /\ client = "messages" /\ queue = <<>> /\ ~enc.terminal /\ chat.ended
      /\ enc' = Fail(enc).enc /\ sse' = sse \o Fail(enc).events
      /\ UNCHANGED <<chat, client, wireAPI, badArgs>>
  BY DEF Broken, Chat, chatVars
<1>2. enc \in Encoders /\ sse \in Seq(Sse)
  BY <1>1 DEF ShowInv, Shows, Running
<1>3. enc'.terminal /\ LastIs(sse', "error")
  BY <1>1, <1>2, FailSays
<1>4. Balanced(chat) /\ Phase(queue, chat, enc)
  BY <1>1 DEF HandInv
<1>5. chat.err
  BY <1>1, <1>4 DEF Phase, Closes, Ending
<1>6. Ended'
  BY <1>1, <1>3, <1>5 DEF Ended
<1>7. Chat' /\ client' = "messages"
  BY <1>1 DEF Chat
<1> QED BY <1>1, <1>3, <1>4, <1>6, <1>7 DEF HandInv

LEMMA HandStep == StreamInv /\ ShowInv /\ HandInv /\ [Next]_vars => HandInv'
<1> SUFFICES ASSUME StreamInv, ShowInv, HandInv, [Next]_vars PROVE HandInv'
  OBVIOUS
<1>1. client \in {"messages", "hoard"} /\ (client = "hoard" => Chat)
  BY DEF StreamInv
<1>2. client' = client /\ (Chat' <=> Chat)
  BY DEF Next, ChatChunk, ChatEdge, ResponsesEvent, Deliver, Forward, Broken, Done, vars, Chat
<1>3. CASE client = "hoard"
  <2>1. enc' = enc
    BY <1>3 DEF Next, ChatChunk, ChatEdge, ResponsesEvent, Deliver, Forward, Broken, Done, vars, encoderVars
  <2> QED BY <1>2, <1>3, <2>1 DEF HandInv
<1>4. CASE client = "messages" /\ ~Chat
  BY <1>2, <1>4 DEF HandInv
<1>5. CASE client = "messages" /\ Chat
  <2>1. CASE ChatChunk
    BY <1>5, <2>1, HandChunk
  <2>2. CASE ChatEdge
    BY <1>5, <2>2, HandEdge
  <2>3. CASE ResponsesEvent
    BY <1>5, <2>3 DEF ResponsesEvent, Chat
  <2>4. CASE Deliver
    BY <1>5, <2>4, HandDeliver
  <2>5. CASE Forward
    BY <1>5, <2>5 DEF Forward
  <2>6. CASE Broken
    BY <1>5, <2>6, HandBroken
  <2>7. CASE UNCHANGED vars
    <3>1. UNCHANGED <<chat, queue, enc, sse, client, wireAPI, badArgs>>
      BY <2>7 DEF vars, chatVars, encoderVars
    <3> QED BY <3>1 DEF HandInv, Chat, Ended
  <2> QED BY <2>1, <2>2, <2>3, <2>4, <2>5, <2>6, <2>7 DEF Next, Done
<1> QED BY <1>1, <1>3, <1>4, <1>5

LEMMA NoCalls ==
  ASSUME NEW f \in CallMaps
  PROVE  f = <<>> <=> DOMAIN f = {}
<1>1. f \in [DOMAIN f -> ToolCalls]
  BY CallMapFacts
<1>2. <<>> \in [{} -> ToolCalls]
  OBVIOUS
<1>3. DOMAIN f = {} => f = <<>>
  <2> SUFFICES ASSUME DOMAIN f = {} PROVE f = <<>>
    OBVIOUS
  <2>1. f \in [{} -> ToolCalls]
    BY <1>1
  <2> QED BY <1>2, <2>1
<1>4. DOMAIN <<>> = {}
  OBVIOUS
<1> QED BY <1>3, <1>4

LEMMA EndsRightly == StreamInv /\ HandInv => NoSpuriousError /\ StopReasonHonest
<1> SUFFICES ASSUME StreamInv, HandInv, Chat, enc.terminal
             PROVE  /\ sse[Len(sse)].type = "error" => chat.err \/ badArgs
                    /\ sse[Len(sse)].type = "message_stop" =>
                         /\ enc.success <=> enc.stopReason # "max_tokens"
                         /\ enc.stopReason = "max_tokens" <=> chat.finish = "length"
                         /\ enc.success => IF chat.refusal # 0 THEN enc.stopReason = "refusal"
                                           ELSE IF chat.tools # <<>> THEN enc.stopReason = "tool_use"
                                           ELSE enc.stopReason = "end_turn"
  BY DEF NoSpuriousError, StopReasonHonest
<1>1. client = "messages"
  BY DEF StreamInv, HandInv
<1>2. Ended
  BY <1>1 DEF HandInv
<1>3. chat.tools \in CallMaps
  BY DEF StreamInv, Numbered, Chats
<1>4. chat.tools = <<>> <=> DOMAIN chat.tools = {}
  BY <1>3, NoCalls
<1>5. sse[Len(sse)].type = "error" => chat.err \/ badArgs
  BY <1>2 DEF Ended, LastIs
<1>6. sse[Len(sse)].type = "message_stop" => Honest(chat, enc)
  BY <1>2 DEF Ended, LastIs
<1> QED BY <1>4, <1>5, <1>6 DEF Honest

(* The adapter and the encoder never contradict each other: a chat stream  *)
(* reaches the client as an error only if it broke off, left a call        *)
(* without id or name, or sent arguments that are no JSON object.  None of *)
(* the encoder's checks (a duplicate or unknown call, deltas after done,   *)
(* final arguments or a refusal that differ from the deltas) can fire on   *)
(* what the adapter produces.                                              *)
THEOREM ErrorsHaveACause == Spec => []NoSpuriousError
<1>1. Init => StreamInv /\ ShowInv /\ HandInv
  BY StreamInit, ShowInit, HandInit
<1>2. StreamInv /\ ShowInv /\ HandInv /\ [Next]_vars => (StreamInv /\ ShowInv /\ HandInv)'
  BY StreamStep, ShowStep, HandStep
<1>3. StreamInv /\ HandInv => NoSpuriousError
  BY EndsRightly
<1> QED BY <1>1, <1>2, <1>3, PTL DEF Spec

(* The stop_reason of a message translated from a chat stream, and whether *)
(* the handler counts it as a success, follow from what the model sent:    *)
(* max_tokens exactly for finish_reason length, else refusal, tool_use or  *)
(* end_turn as the stream had a refusal, a tool call, or neither.          *)
THEOREM StopReasonStaysHonest == Spec => []StopReasonHonest
<1>1. Init => StreamInv /\ ShowInv /\ HandInv
  BY StreamInit, ShowInit, HandInit
<1>2. StreamInv /\ ShowInv /\ HandInv /\ [Next]_vars => (StreamInv /\ ShowInv /\ HandInv)'
  BY StreamStep, ShowStep, HandStep
<1>3. StreamInv /\ HandInv => StopReasonHonest
  BY EndsRightly
<1> QED BY <1>1, <1>2, <1>3, PTL DEF Spec


-----------------------------------------------------------------------------
(***************************************************************************)
(* Whatever a Responses stream brings, the encoder's events carry it: an   *)
(* event adds its text (Gain) to the text the client has, or its arguments *)
(* to the block of its tool, unless it ends the message with an error.     *)
(***************************************************************************)
Gain(e, ev) ==
  IF ev.type \in {"output_text.delta", "refusal.delta"} THEN ev.size
  ELSE IF ev.type = "refusal.done" /\ ev.size # e.refusalText THEN ev.size
  ELSE 0

Carries(r, s, n) ==
  \/ r.enc.terminal /\ LastIs(s \o r.events, "error")
  \/ Carried(r.enc, s \o r.events, n)

LEMMA FailCarries ==
  ASSUME NEW e, NEW s, Shows(e, s), NEW n
  PROVE  Carries(Fail(e), s, n)
<1>1. e \in Encoders /\ s \in Seq(Sse)
  BY DEF Shows, Running
<1> QED BY <1>1, FailSays DEF Carries

LEMMA QuietCarries ==
  ASSUME NEW e, NEW s, Shows(e, s), NEW n, Carried(e, s, n)
  PROVE  Carries(Emit(e, <<>>), s, n)
<1>1. s \in Seq(Sse)
  BY DEF Shows, Running
<1>2. s \o <<>> = s
  BY <1>1, ConcatEmptySeq
<1> QED BY <1>2 DEF Carries, Emit

LEMMA TextDeltaCarries ==
  ASSUME NEW e, NEW s, Shows(e, s), NEW n, Carried(e, s, n), NEW k \in Nat
  PROVE  Carries(TextDelta(e, k), s, n + k)
<1>0. /\ e \in Encoders /\ Distinct(e) /\ s \in Seq(Sse) /\ n \in Nat
      /\ e.textIndex \in Nat /\ e.nextIndex \in Nat /\ Running(s, e.nextIndex, OpenIn(e))
  BY DEF Shows, Running, Encoders, Carried
<1>1. CASE k = 0
  <2>1. TextDelta(e, k) = Emit(e, <<>>) /\ n + k = n
    BY <1>0, <1>1 DEF TextDelta
  <2> QED BY <2>1, QuietCarries
<1>2. CASE k # 0 /\ e.textOpen
  <2> DEFINE a == BlockDelta(e.textIndex, k)
  <2>1. TextDelta(e, k) = Emit(e, <<a>>)
    BY <1>2 DEF TextDelta
  <2>2. e.textIndex \notin Indices(e)
    BY <1>2, <1>0 DEF Distinct, Indices
  <2>3. e.textIndex < e.nextIndex
    <3>1. e.textIndex \in Opened(s, Len(s))
      BY <1>0, <1>2 DEF Running, OpenIn
    <3>2. PICK j \in 1 .. Len(s) : s[j] = BlockStart(e.textIndex)
      BY <3>1 DEF Opened
    <3>3. j \in DOMAIN s
      BY <1>0
    <3>4. s[j].index = e.textIndex
      BY <3>2 DEF BlockStart
    <3> QED BY <1>0, <3>3, <3>4 DEF Running
  <2>4. Carried(e, Append(s, a), n + k)
    BY <1>0, <2>2, <2>3, CarryText
  <2>5. a \in Sse
    BY <1>0, EventTypes
  <2> HIDE DEF a
  <2>6. s \o <<a>> = Append(s, a)
    BY <1>0, <2>5, Joined
  <2>7. TextDelta(e, k).enc = e /\ TextDelta(e, k).events = <<a>>
    BY <2>1 DEF Emit
  <2>8. Carried(TextDelta(e, k).enc, s \o TextDelta(e, k).events, n + k)
    BY <2>4, <2>6, <2>7
  <2> QED BY <2>8 DEF Carries
<1>3. CASE k # 0 /\ ~e.textOpen
  <2> DEFINE i == e.nextIndex
             a == BlockStart(i)
             b == BlockDelta(i, k)
             d == [e EXCEPT !.textOpen = TRUE, !.textIndex = i, !.nextIndex = @ + 1]
  <2>1. TextDelta(e, k) = Emit(d, <<a, b>>)
    BY <1>3 DEF TextDelta
  <2>2. d.nextIndex = e.nextIndex + 1 /\ d.tools = e.tools
    BY <1>0 DEF Encoders
  <2>3. \A m \in Indices(e) : m \in Nat /\ m < e.nextIndex
    BY <1>0, BlockIndices
  <2> HIDE DEF d
  <2>4. Carried(d, Append(Append(s, a), b), n + k)
    BY <1>0, <1>3, <2>2, <2>3, CarryNewText
  <2>5. a \in Sse /\ b \in Sse
    BY <1>0, EventTypes
  <2> HIDE DEF a, b
  <2>6. s \o <<a, b>> = Append(Append(s, a), b)
    BY <1>0, <2>5, Joined
  <2>7. TextDelta(e, k).enc = d /\ TextDelta(e, k).events = <<a, b>>
    BY <2>1 DEF Emit
  <2>8. Carried(TextDelta(e, k).enc, s \o TextDelta(e, k).events, n + k)
    BY <2>4, <2>6, <2>7
  <2> QED BY <2>8 DEF Carries
<1> QED BY <1>1, <1>2, <1>3

LEMMA RefusalCarries ==
  ASSUME NEW e, NEW s, Shows(e, s), NEW n, Carried(e, s, n), NEW k \in Nat
  PROVE  /\ Carries(TextDelta([e EXCEPT !.stopReason = "refusal", !.refusalText = @ + k], k), s, n + k)
         /\ k = e.refusalText => Carries(RefusalDone(e, k), s, n)
         /\ k # e.refusalText => Carries(RefusalDone(e, k), s, n + k)
<1>0. e \in Encoders /\ e.refusalText + k \in Nat /\ "refusal" \in StopReasons /\ ~e.terminal
  BY DEF Shows, Encoders, StopReasons
<1>1. ASSUME NEW d \in Encoders, ~d.terminal, d.tools = e.tools, d.nextIndex = e.nextIndex,
             d.textOpen = e.textOpen, d.textIndex = e.textIndex
      PROVE  Shows(d, s) /\ Carried(d, s, n)
  BY <1>1, SameShows, CarriedSame
<1>2. Carries(TextDelta([e EXCEPT !.stopReason = "refusal", !.refusalText = @ + k], k), s, n + k)
  <2> DEFINE d == [e EXCEPT !.stopReason = "refusal", !.refusalText = @ + k]
  <2>1. /\ d \in Encoders /\ ~d.terminal /\ d.tools = e.tools /\ d.nextIndex = e.nextIndex
        /\ d.textOpen = e.textOpen /\ d.textIndex = e.textIndex
    BY <1>0 DEF Encoders
  <2> HIDE DEF d
  <2>2. Carries(TextDelta(d, k), s, n + k)
    BY <1>1, <2>1, TextDeltaCarries
  <2> QED BY <2>2 DEF d
<1> DEFINE r == [e EXCEPT !.stopReason = "refusal"]
<1>3. /\ r \in Encoders /\ ~r.terminal /\ r.tools = e.tools /\ r.nextIndex = e.nextIndex
      /\ r.textOpen = e.textOpen /\ r.textIndex = e.textIndex /\ r.refusalText = e.refusalText
  BY <1>0 DEF Encoders
<1>4. RefusalDone(e, k) = IF k = r.refusalText THEN CloseText(r)
                          ELSE IF r.refusalText = 0 THEN TextDelta([r EXCEPT !.refusalText = k], k)
                          ELSE Fail(r)
  BY DEF RefusalDone
<1> HIDE DEF r
<1>5. Shows(r, s) /\ Carried(r, s, n)
  BY <1>1, <1>3
<1>6. k = e.refusalText => Carries(RefusalDone(e, k), s, n)
  <2>1. Carried(CloseText(r).enc, s \o CloseText(r).events, n)
    BY <1>5, CloseTextCarries
  <2> QED BY <1>3, <1>4, <2>1 DEF Carries
<1>7. ASSUME k # e.refusalText, e.refusalText = 0
      PROVE  Carries(RefusalDone(e, k), s, n + k)
  <2> DEFINE d == [r EXCEPT !.refusalText = k]
  <2>1. /\ d \in Encoders /\ ~d.terminal /\ d.tools = e.tools /\ d.nextIndex = e.nextIndex
        /\ d.textOpen = e.textOpen /\ d.textIndex = e.textIndex
    BY <1>3 DEF Encoders
  <2>2. RefusalDone(e, k) = TextDelta(d, k)
    BY <1>3, <1>4, <1>7
  <2> HIDE DEF d
  <2>3. Carries(TextDelta(d, k), s, n + k)
    BY <1>1, <2>1, TextDeltaCarries
  <2> QED BY <2>2, <2>3
<1>8. ASSUME k # e.refusalText, e.refusalText # 0
      PROVE  Carries(RefusalDone(e, k), s, n + k)
  BY <1>3, <1>4, <1>5, <1>8, FailCarries
<1> QED BY <1>2, <1>6, <1>7, <1>8


LEMMA ToolAddedCarries ==
  ASSUME NEW e, NEW s, Shows(e, s), NEW n, Carried(e, s, n), NEW item \in Int, NEW out \in Nat, NEW k \in Nat
  PROVE  Carries(ToolAdded(e, item, out, k), s, n)
<1>1. CASE item = NoItem \/ Duplicate(e, item, out)
  BY <1>1, FailCarries DEF ToolAdded
<1>2. CASE ~(item = NoItem \/ Duplicate(e, item, out))
  <2> DEFINE r == CloseText(e)
             c == r.enc
             i == e.nextIndex
             u == s \o r.events
             Tool(m) == [output |-> out, index |-> i, args |-> m, closed |-> FALSE]
             New(m) == [c EXCEPT !.nextIndex = @ + 1, !.stopReason = "tool_use",
                                 !.tools = AddTool(@, item, Tool(m))]
             a == BlockStart(i)
             x == BlockDelta(i, k)
             b == IF k # 0 THEN <<x>> ELSE <<>>
  <2>0. e \in Encoders /\ Distinct(e) /\ ~e.terminal /\ s \in Seq(Sse) /\ i \in Nat
    BY DEF Shows, Running, Encoders
  <2>1. ToolAdded(e, item, out, k) = Emit(New(k), r.events \o <<a>> \o b)
    BY <1>2 DEF ToolAdded
  <2>2. Good(r, s) /\ c = [e EXCEPT !.textOpen = FALSE]
    BY CloseTextGood
  <2>3. c \in Encoders /\ c.nextIndex = i /\ c.tools = e.tools /\ c.terminal = FALSE
    BY <2>0, <2>2 DEF Encoders
  <2>4. Shows(c, u) /\ r.events \in Seq(Sse) /\ u \in Seq(Sse) /\ Distinct(c)
    BY <2>2, <2>3 DEF Good, Shows, Running
  <2>5. Carried(c, u, n)
    BY CloseTextCarries
  <2> HIDE DEF c, u, r
  <2>6. \A m : /\ New(m).nextIndex = c.nextIndex + 1
               /\ DOMAIN New(m).tools = DOMAIN c.tools \cup {item}
               /\ New(m).tools[item] = Tool(m)
               /\ \A t \in DOMAIN c.tools : t # item /\ New(m).tools[t] = c.tools[t]
    <3> TAKE m
    <3>1. New(m).nextIndex = c.nextIndex + 1 /\ New(m).tools = AddTool(c.tools, item, Tool(m))
      <4> HIDE DEF Tool
      <4> QED BY <2>3 DEF Encoders
    <3> HIDE DEF New, Tool
    <3> QED BY <1>2, <2>3, <3>1 DEF AddTool, Duplicate
  <2>7. \A m : Tool(m).index = i /\ Tool(m).args = m
    OBVIOUS
  <2> HIDE DEF New, Tool
  <2>8. /\ c.nextIndex \in Nat
        /\ \A m \in Indices(c) : m \in Nat /\ m < c.nextIndex
        /\ \A t, v \in DOMAIN c.tools : c.tools[t].index = c.tools[v].index => t = v
    BY <2>3, <2>4, BlockIndices
  <2>9. item \notin DOMAIN c.tools
    BY <2>6
  <2>10. /\ New(0).tools[item].index = c.nextIndex /\ New(0).tools[item].args = 0
         /\ New(k).tools[item].index = c.nextIndex /\ New(k).tools[item].args = k
    BY <2>3, <2>6, <2>7
  <2> DEFINE d0 == New(0)
             d == New(k)
  <2>11. /\ d0.nextIndex = c.nextIndex + 1 /\ d0.tools[item].index = c.nextIndex /\ d0.tools[item].args = 0
         /\ DOMAIN d0.tools = DOMAIN c.tools \cup {item}
         /\ \A t \in DOMAIN c.tools : d0.tools[t] = c.tools[t]
         /\ d.nextIndex = d0.nextIndex /\ DOMAIN d.tools = DOMAIN d0.tools
         /\ \A t \in DOMAIN d0.tools : t # item => d.tools[t] = d0.tools[t]
         /\ d.tools[item].index = d0.tools[item].index /\ d.tools[item].args = k
    BY <2>6, <2>10
  <2>12. k = 0 => d = d0
    OBVIOUS
  <2> HIDE DEF d0, d
  <2>13. Carried(d0, Append(u, BlockStart(c.nextIndex)), n)
    BY <2>4, <2>5, <2>8, <2>9, <2>11, CarryNewTool
  <2>14. a \in Sse /\ x \in Sse /\ Append(u, a) \in Seq(Sse)
    BY <2>0, <2>4, EventTypes
  <2>15. Carried(d0, Append(u, a), n)
    BY <2>3, <2>13
  <2>16. b \in Seq(Sse) /\ <<a>> \in Seq(Sse)
    <3> HIDE DEF a, x
    <3> QED BY <2>14
  <2>17. s \o (r.events \o <<a>> \o b) = Append(u, a) \o b
    <3> HIDE DEF a, b
    <3>1. r.events \o <<a>> \in Seq(Sse)
      BY <2>4, <2>16
    <3>2. s \o ((r.events \o <<a>>) \o b) = (s \o (r.events \o <<a>>)) \o b
      BY <2>0, <2>16, <3>1, Assoc, Zenon
    <3>3. s \o (r.events \o <<a>>) = u \o <<a>>
      BY <2>0, <2>4, <2>16, Assoc, Zenon DEF u
    <3>4. u \o <<a>> = Append(u, a)
      BY <2>4, <2>14, Joined
    <3> QED BY <3>2, <3>3, <3>4
  <2>18. Carried(d, Append(u, a) \o b, n)
    <3> DEFINE v == Append(u, a)
    <3>1. v \in Seq(Sse) /\ Carried(d0, v, n)
      BY <2>14, <2>15
    <3> HIDE DEF v
    <3>2. CASE k = 0
      <4>1. b = <<>> /\ v \o <<>> = v
        BY <3>1, <3>2, ConcatEmptySeq
      <4> QED BY <2>12, <3>1, <3>2, <4>1 DEF v
    <3>3. CASE k # 0
      <4>1. d0.nextIndex \in Nat
        BY <2>8, <2>11
      <4>2. \A m \in Indices(d0) : m \in Nat /\ m < d0.nextIndex
        <5> SUFFICES ASSUME NEW t \in DOMAIN d0.tools
                     PROVE  d0.tools[t].index \in Nat /\ d0.tools[t].index < d0.nextIndex
          BY DEF Indices
        <5>1. CASE t = item
          BY <2>8, <2>11, <5>1
        <5>2. CASE t # item
          <6>1. t \in DOMAIN c.tools /\ d0.tools[t] = c.tools[t]
            BY <2>11, <5>2
          <6>2. c.tools[t].index \in Nat /\ c.tools[t].index < c.nextIndex
            BY <2>8, <6>1 DEF Indices
          <6> QED BY <2>8, <2>11, <6>1, <6>2
        <5> QED BY <5>1, <5>2
      <4>3. \A t, w \in DOMAIN d0.tools : d0.tools[t].index = d0.tools[w].index => t = w
        <5>1. \A t \in DOMAIN c.tools : c.tools[t].index # c.nextIndex
          BY <2>8 DEF Indices
        <5> QED BY <2>8, <2>9, <2>11, <5>1
      <4>4. d.tools[item].args = d0.tools[item].args + k /\ item \in DOMAIN d0.tools
        BY <2>11
      <4>5. \A t \in DOMAIN d0.tools : /\ d.tools[t].index = d0.tools[t].index
                                       /\ t # item => d.tools[t].args = d0.tools[t].args
        BY <2>11
      <4>6. Carried(d, Append(v, BlockDelta(d0.tools[item].index, k)), n)
        BY <2>11, <3>1, <4>1, <4>2, <4>3, <4>4, <4>5, CarryArgs
      <4>7. BlockDelta(d0.tools[item].index, k) = x
        BY <2>3, <2>11
      <4> HIDE DEF x
      <4>8. b = <<x>> /\ v \o <<x>> = Append(v, x)
        BY <2>14, <3>1, <3>3, Joined
      <4> QED BY <4>6, <4>7, <4>8 DEF v
    <3> QED BY <3>2, <3>3
  <2> HIDE DEF a, b
  <2>19. /\ ToolAdded(e, item, out, k).enc = d
         /\ ToolAdded(e, item, out, k).events = r.events \o <<a>> \o b
    BY <2>1 DEF Emit, d
  <2>20. Carried(ToolAdded(e, item, out, k).enc, s \o ToolAdded(e, item, out, k).events, n)
    BY <2>17, <2>18, <2>19
  <2> QED BY <2>20 DEF Carries
<1> QED BY <1>1, <1>2

LEMMA ToolDeltaCarries ==
  ASSUME NEW e, NEW s, Shows(e, s), NEW n, Carried(e, s, n), NEW item \in DOMAIN e.tools, NEW k \in Nat
  PROVE  Carries(ToolDelta(e, item, k), s, n)
<1>1. CASE e.tools[item].closed
  BY <1>1, FailCarries DEF ToolDelta
<1>2. CASE ~e.tools[item].closed /\ k = 0
  BY <1>2, QuietCarries DEF ToolDelta
<1>3. CASE ~e.tools[item].closed /\ k # 0
  <2> DEFINE tool == [e.tools[item] EXCEPT !.args = @ + k]
             d == Put(e, item, tool)
             a == BlockDelta(e.tools[item].index, k)
  <2>0. e \in Encoders /\ Distinct(e) /\ s \in Seq(Sse)
    BY DEF Shows, Running
  <2>1. e.tools \in ToolMaps
    BY <2>0 DEF Encoders
  <2>2. /\ e.tools[item].args + k \in Nat /\ e.tools[item].index \in Nat
        /\ e.tools[item] \in StreamTools
    BY <2>1, ToolMapFacts
  <2>3. ToolDelta(e, item, k) = Emit(d, <<a>>)
    BY <1>3 DEF ToolDelta, Put
  <2>4. /\ tool \in StreamTools /\ tool.index = e.tools[item].index
        /\ tool.output = e.tools[item].output /\ tool.args = e.tools[item].args + k
    BY <2>2 DEF StreamTools
  <2> HIDE DEF tool
  <2>5. /\ d.nextIndex = e.nextIndex /\ DOMAIN d.tools = DOMAIN e.tools /\ d.tools[item] = tool
        /\ \A t \in DOMAIN e.tools : d.tools[t].index = e.tools[t].index
        /\ \A t \in DOMAIN e.tools : t # item => d.tools[t] = e.tools[t]
    BY <2>0, <2>4, SetTool
  <2> HIDE DEF d
  <2>6. /\ e.nextIndex \in Nat
        /\ \A m \in Indices(e) : m \in Nat /\ m < e.nextIndex
        /\ \A t, u \in DOMAIN e.tools : e.tools[t].index = e.tools[u].index => t = u
    BY <2>0, BlockIndices
  <2>7. Carried(d, Append(s, a), n)
    BY <2>0, <2>4, <2>5, <2>6, CarryArgs
  <2>8. s \o <<a>> = Append(s, a)
    BY <2>0, <2>2, EventTypes, Joined
  <2> HIDE DEF a
  <2>9. ToolDelta(e, item, k).enc = d /\ ToolDelta(e, item, k).events = <<a>>
    BY <2>3 DEF Emit
  <2>10. Carried(ToolDelta(e, item, k).enc, s \o ToolDelta(e, item, k).events, n)
    BY <2>7, <2>8, <2>9
  <2> QED BY <2>10 DEF Carries
<1> QED BY <1>1, <1>2, <1>3

LEMMA FinishToolCarries ==
  ASSUME NEW e, NEW s, Shows(e, s), NEW n, Carried(e, s, n), NEW item \in DOMAIN e.tools, NEW k \in Nat
  PROVE  Carries(FinishTool(e, item, k), s, n)
<1> DEFINE tool == e.tools[item]
<1>1. CASE k # 0 /\ k # tool.args /\ (tool.closed \/ tool.args # 0)
  <2>1. FinishTool(e, item, k) = Fail(e)
    BY <1>1 DEF FinishTool
  <2> QED BY <2>1, FailCarries
<1>2. CASE ~(k # 0 /\ k # tool.args /\ (tool.closed \/ tool.args # 0)) /\ tool.closed
  <2>1. FinishTool(e, item, k) = Emit(e, <<>>)
    BY <1>2 DEF FinishTool
  <2> QED BY <2>1, QuietCarries
<1>3. CASE ~(k # 0 /\ k # tool.args /\ (tool.closed \/ tool.args # 0)) /\ ~tool.closed
  <2> DEFINE d == Put(e, item, Finished(tool, k))
             l == LastEvents(tool, k)
  <2>1. FinishTool(e, item, k) = Emit(d, l)
    BY <1>3, FinishToolIs
  <2>2. Carried(d, s \o l, n)
    BY <1>3, FinishOpenToolCarries
  <2> HIDE DEF d, l
  <2>3. FinishTool(e, item, k).enc = d /\ FinishTool(e, item, k).events = l
    BY <2>1 DEF Emit
  <2> QED BY <2>2, <2>3 DEF Carries
<1> QED BY <1>1, <1>2, <1>3

LEMMA ToolCarries ==
  ASSUME NEW e, NEW s, Shows(e, s), NEW n, Carried(e, s, n), NEW ev \in WireEvents
  PROVE  /\ Carries(WithTool(e, ev, ToolDelta), s, n)
         /\ Carries(WithTool(e, ev, FinishTool), s, n)
<1> DEFINE found == FindTool(e, ev.item, ev.output)
           item == CHOOSE i \in found : TRUE
<1>1. ev.size \in Nat
  BY DEF WireEvents
<1>2. CASE found = {}
  BY <1>2, FailCarries DEF WithTool
<1>3. CASE found # {}
  <2>1. item \in found /\ found \subseteq DOMAIN e.tools
    BY <1>3 DEF FindTool
  <2>2. /\ WithTool(e, ev, ToolDelta) = ToolDelta(e, item, ev.size)
        /\ WithTool(e, ev, FinishTool) = FinishTool(e, item, ev.size)
    BY <1>3 DEF WithTool
  <2> HIDE DEF item, found
  <2> QED BY <1>1, <2>1, <2>2, ToolDeltaCarries, FinishToolCarries
<1> QED BY <1>2, <1>3


LEMMA FinishCarries ==
  ASSUME NEW e, NEW s, Shows(e, s), NEW n, Carried(e, s, n), NEW stop, NEW bad \in BOOLEAN
  PROVE  Carries(Finish(e, stop, bad), s, n)
<1> DEFINE f == FinishTools(e)
           a == Terminator("message_delta")
           b == Terminator("message_stop")
           d == [f.enc EXCEPT !.stopReason = stop, !.terminal = TRUE, !.success = TRUE]
           u == s \o f.events
<1>1. f.events \in Seq(Sse) /\ f.enc \in Encoders /\ Carried(f.enc, u, n)
  BY FinishToolsGood DEF Shows
<1>2. s \in Seq(Sse)
  BY DEF Shows, Running
<1> HIDE DEF f
<1>3. CASE stop # "max_tokens" /\ bad
  <2>1. Finish(e, stop, bad) = Fail(f.enc)
    BY <1>3 DEF Finish, f
  <2> QED BY <1>1, <1>2, <2>1, FailSays DEF Carries
<1>4. CASE ~(stop # "max_tokens" /\ bad)
  <2>1. Finish(e, stop, bad) = Emit(d, f.events \o <<a, b>>)
    BY <1>4 DEF Finish, f
  <2>2. /\ a \in Sse /\ a.type # "content_block_start" /\ a.type # "content_block_delta"
        /\ b \in Sse /\ b.type # "content_block_start" /\ b.type # "content_block_delta"
    BY EventTypes DEF Terminator
  <2>3. d.tools = f.enc.tools /\ d.nextIndex = f.enc.nextIndex
    BY <1>1 DEF Encoders
  <2>4. u \in Seq(Sse)
    BY <1>1, <1>2
  <2> HIDE DEF a, b, d
  <2>5. s \o (f.events \o <<a, b>>) = Append(Append(u, a), b)
    <3>1. <<a, b>> \in Seq(Sse)
      BY <2>2
    <3>2. s \o (f.events \o <<a, b>>) = u \o <<a, b>>
      BY <1>1, <1>2, <3>1, Assoc, Zenon
    <3> HIDE DEF u
    <3>3. u \o <<a, b>> = Append(Append(u, a), b)
      BY <2>2, <2>4, Joined
    <3> QED BY <3>2, <3>3
  <2> HIDE DEF u
  <2>6. Carried(f.enc, Append(u, a), n) /\ Append(u, a) \in Seq(Sse)
    BY <1>1, <2>2, <2>4, CarryQuiet
  <2>7. Carried(f.enc, Append(Append(u, a), b), n)
    BY <2>2, <2>6, CarryQuiet
  <2>8. Carried(d, Append(Append(u, a), b), n)
    BY <2>3, <2>7, CarriedSame
  <2>9. Finish(e, stop, bad).enc = d /\ Finish(e, stop, bad).events = f.events \o <<a, b>>
    BY <2>1 DEF Emit
  <2>10. Carried(Finish(e, stop, bad).enc, s \o Finish(e, stop, bad).events, n)
    BY <2>5, <2>8, <2>9
  <2> QED BY <2>10 DEF Carries
<1> QED BY <1>3, <1>4

LEMMA FinishTruncatedCarries ==
  ASSUME NEW e, NEW s, Shows(e, s), NEW n, Carried(e, s, n), NEW bad \in BOOLEAN
  PROVE  Carries(FinishTruncated(e, bad), s, n)
<1> DEFINE r == Finish(e, "max_tokens", bad)
           d == [r.enc EXCEPT !.success = FALSE]
<1>1. Carries(r, s, n)
  BY FinishCarries, Zenon
<1>2. FinishTruncated(e, bad) = Emit(d, r.events)
  BY DEF FinishTruncated
<1>3. r.enc \in Encoders
  <2>1. "max_tokens" \in StopReasons
    BY DEF StopReasons
  <2>2. Good(r, s)
    BY <2>1, FinishGood, Zenon
  <2> QED BY <2>2 DEF Good, Shows
<1>4. d.terminal = r.enc.terminal /\ d.tools = r.enc.tools /\ d.nextIndex = r.enc.nextIndex
  BY <1>3 DEF Encoders
<1> HIDE DEF r, d
<1>5. FinishTruncated(e, bad).enc = d /\ FinishTruncated(e, bad).events = r.events
  BY <1>2 DEF Emit
<1>6. Carried(r.enc, s \o r.events, n) => Carried(d, s \o r.events, n)
  BY <1>4, CarriedSame
<1> QED BY <1>1, <1>4, <1>5, <1>6 DEF Carries

LEMMA EncodeCarries ==
  ASSUME NEW e, NEW s, Shows(e, s), NEW n, Carried(e, s, n), NEW ev \in WireEvents, NEW bad \in BOOLEAN
  PROVE  Carries(Encode(e, ev, bad), s, n + Gain(e, ev))
<1>0. /\ ev.size \in Nat /\ ev.item \in Int /\ n \in Nat /\ n + 0 = n
      /\ ev.kind = "function_call" => ev.output \in Nat
  BY DEF WireEvents, Carried
<1>1. CASE ev.type = "output_text.delta"
  <2>1. Encode(e, ev, bad) = TextDelta(e, ev.size) /\ Gain(e, ev) = ev.size
    BY <1>1 DEF Encode, Gain
  <2> QED BY <1>0, <2>1, TextDeltaCarries
<1>2. CASE ev.type = "refusal.delta"
  <2>1. /\ Encode(e, ev, bad) = TextDelta([e EXCEPT !.stopReason = "refusal", !.refusalText = @ + ev.size], ev.size)
        /\ Gain(e, ev) = ev.size
    BY <1>2 DEF Encode, Gain
  <2> QED BY <1>0, <2>1, RefusalCarries
<1>3. CASE ev.type = "refusal.done"
  <2>1. /\ Encode(e, ev, bad) = RefusalDone(e, ev.size)
        /\ Gain(e, ev) = IF ev.size # e.refusalText THEN ev.size ELSE 0
    BY <1>3 DEF Encode, Gain
  <2> QED BY <1>0, <2>1, RefusalCarries
<1> SUFFICES ASSUME ev.type \notin {"output_text.delta", "refusal.delta", "refusal.done"}
             PROVE  Carries(Encode(e, ev, bad), s, n)
  <2>1. CASE ev.type \notin {"output_text.delta", "refusal.delta", "refusal.done"}
    <3>1. Gain(e, ev) = 0
      BY <2>1 DEF Gain
    <3> QED BY <1>0, <2>1, <3>1
  <2> QED BY <1>1, <1>2, <1>3, <2>1
<1>4. CASE ev.type \in {"output_text.done", "content_part.done"}
  <2>1. Encode(e, ev, bad) = CloseText(e)
    BY <1>4 DEF Encode
  <2> QED BY <2>1, CloseTextCarries DEF Carries
<1>5. CASE ev.type = "output_item.added" /\ ev.kind = "function_call"
  <2>1. Encode(e, ev, bad) = ToolAdded(e, ev.item, ev.output, ev.size)
    BY <1>5 DEF Encode
  <2> QED BY <1>0, <1>5, <2>1, ToolAddedCarries
<1>6. CASE ev.type = "function_call_arguments.delta"
  <2>1. Encode(e, ev, bad) = WithTool(e, ev, ToolDelta)
    BY <1>6 DEF Encode
  <2> QED BY <2>1, ToolCarries
<1>7. CASE ev.type = "function_call_arguments.done" \/ (ev.type = "output_item.done" /\ ev.kind = "function_call")
  <2>1. Encode(e, ev, bad) = WithTool(e, ev, FinishTool)
    BY <1>7 DEF Encode
  <2> QED BY <2>1, ToolCarries
<1>8. CASE ev.type = "completed"
  <2>1. Encode(e, ev, bad) = Finish(e, e.stopReason, bad)
    BY <1>8 DEF Encode
  <2>2. Carries(Finish(e, e.stopReason, bad), s, n)
    BY FinishCarries, Zenon
  <2> QED BY <2>1, <2>2
<1>9. CASE ev.type = "incomplete"
  <2>1. Encode(e, ev, bad) = FinishTruncated(e, bad)
    BY <1>9 DEF Encode
  <2>2. Carries(FinishTruncated(e, bad), s, n)
    BY FinishTruncatedCarries, Zenon
  <2> QED BY <2>1, <2>2
<1>10. CASE ev.type = "failed"
  <2>1. Encode(e, ev, bad) = Fail(e)
    BY <1>10 DEF Encode
  <2> QED BY <2>1, FailCarries
<1>11. CASE /\ ev.type \notin {"output_text.delta", "refusal.delta", "refusal.done",
                               "output_text.done", "content_part.done",
                               "function_call_arguments.delta", "function_call_arguments.done",
                               "completed", "incomplete", "failed"}
            /\ ~(ev.type = "output_item.added" /\ ev.kind = "function_call")
            /\ ~(ev.type = "output_item.done" /\ ev.kind = "function_call")
  <2>1. Encode(e, ev, bad) = Emit(e, <<>>)
    BY <1>11 DEF Encode
  <2> QED BY <2>1, QuietCarries
<1> QED BY <1>4, <1>5, <1>6, <1>7, <1>8, <1>9, <1>10, <1>11


-----------------------------------------------------------------------------
(***************************************************************************)
(* The invariant of the text: what the client has and what is still in the *)
(* queue together are the text and the refusal the adapter has read.       *)
(***************************************************************************)
CarryInv ==
  Chat /\ client = "messages" =>
    IF enc.terminal
    THEN LastIs(sse, "message_stop") => Carried(enc, sse, chat.text + chat.refusal)
    ELSE \E m \in Nat : Carried(enc, sse, m) /\ m + Pend(queue) = chat.text + chat.refusal

LEMMA PendType ==
  ASSUME NEW q \in Seq(WireEvents)
  PROVE  /\ Pend(q) \in Nat
         /\ \A type, item : Pending(q, type, item) \in Nat
<1>1. ASSUME NEW type, NEW item PROVE Pending(q, type, item) \in Nat
  <2>1. CASE q = <<>>
    BY <2>1, NothingPending
  <2>2. CASE q # <<>>
    <3>1. Len(q) \in DOMAIN q
      BY <2>2, TailOf
    <3>2. q[Len(q)] \in WireEvents
      BY <3>1
    <3>3. q[Len(q)].size \in Nat
      BY <3>2 DEF WireEvents
    <3> QED BY <3>3 DEF Pending
  <2> QED BY <2>1, <2>2
<1>2. Pend(q) \in Nat
  BY <1>1 DEF Pend
<1> QED BY <1>1, <1>2

(* A delta of text moves from the queue to the client. *)
LEMMA StreamGain ==
  ASSUME NEW c, NEW q, NEW e, Streams(c, q, e), q # <<>>
  PROVE  Gain(e, q[1]) + Pend(Tail(q)) = Pend(q)
<1> DEFINE ev == q[1]
           t == Tail(q)
<1>0. q \in Seq(WireEvents) /\ Opening(q, c)
  BY DEF Streams
<1>1. /\ 1 \in DOMAIN q /\ ev \in WireEvents /\ t \in Seq(WireEvents)
  BY <1>0, TailOf
<1>2. ev.size \in Nat
  BY <1>1 DEF WireEvents
<1>3. /\ ev.type \in OpeningTypes \cup Deltas
      /\ ev.type = "output_text.delta" => ev.item = TextItem
      /\ ev.type = "refusal.delta" => ev.item = RefusalItem
  BY <1>0, <1>1 DEF Opening
<1>4. ev.type # "refusal.done"
  BY <1>3 DEF OpeningTypes, Deltas
<1>5. /\ t = <<>> => \A type, item : Pending(t, type, item) = 0
      /\ t # <<>> => \A type, item : Pending(t, type, item) = Pending(q, type, item)
      /\ ev.type \in Deltas => t = <<>>
      /\ t = <<>> => \A type, item : Pending(q, type, item) =
                       IF ev.type = type /\ ev.item = item THEN ev.size ELSE 0
  BY <1>0, OpeningRest
<1>6. Pend(q) \in Nat /\ Pend(t) \in Nat
  BY <1>0, <1>1, PendType
<1> HIDE DEF ev, t
<1>7. CASE ev.type = "output_text.delta"
  <2>1. Gain(e, ev) = ev.size
    BY <1>7 DEF Gain
  <2>2. t = <<>>
    BY <1>5, <1>7 DEF Deltas
  <2>3. /\ Pending(q, "output_text.delta", TextItem) = ev.size
        /\ Pending(q, "refusal.delta", RefusalItem) = 0
    BY <1>3, <1>5, <1>7, <2>2
  <2>4. Pend(q) = ev.size
    BY <1>2, <2>3 DEF Pend
  <2>5. Pend(t) = 0
    BY <2>2, NothingPending
  <2> QED BY <1>2, <2>1, <2>4, <2>5 DEF ev, t
<1>8. CASE ev.type = "refusal.delta"
  <2>1. Gain(e, ev) = ev.size
    BY <1>8 DEF Gain
  <2>2. t = <<>>
    BY <1>5, <1>8 DEF Deltas
  <2>3. /\ Pending(q, "output_text.delta", TextItem) = 0
        /\ Pending(q, "refusal.delta", RefusalItem) = ev.size
    BY <1>3, <1>5, <1>8, <2>2
  <2>4. Pend(q) = ev.size
    BY <1>2, <2>3 DEF Pend
  <2>5. Pend(t) = 0
    BY <2>2, NothingPending
  <2> QED BY <1>2, <2>1, <2>4, <2>5 DEF ev, t
<1>9. CASE ev.type \notin {"output_text.delta", "refusal.delta"}
  <2>1. Gain(e, ev) = 0
    BY <1>4, <1>9 DEF Gain
  <2>2. /\ Pending(q, "output_text.delta", TextItem) = Pending(t, "output_text.delta", TextItem)
        /\ Pending(q, "refusal.delta", RefusalItem) = Pending(t, "refusal.delta", RefusalItem)
    <3>1. CASE t = <<>>
      BY <1>5, <1>9, <3>1
    <3>2. CASE t # <<>>
      BY <1>5, <3>2
    <3> QED BY <3>1, <3>2
  <2>3. Pend(q) = Pend(t)
    BY <2>2 DEF Pend
  <2> QED BY <1>6, <2>1, <2>3 DEF ev, t
<1> QED BY <1>7, <1>8, <1>9

(* The end of the stream brings no more text. *)
LEMMA EndingPend ==
  ASSUME NEW q \in Seq(WireEvents), NEW c, Ending(q, c)
  PROVE  Pend(q) = 0
<1>1. q[Len(q)] = Terminal(c)
  BY DEF Ending
<1>2. Terminal(c).type # "output_text.delta" /\ Terminal(c).type # "refusal.delta"
  BY DEF Terminal, Lifecycle, Event
<1>3. /\ Pending(q, "output_text.delta", TextItem) = 0
      /\ Pending(q, "refusal.delta", RefusalItem) = 0
  BY <1>1, <1>2 DEF Pending
<1> QED BY <1>3 DEF Pend

LEMMA CloseGain ==
  ASSUME NEW q \in Seq(WireEvents), NEW c, NEW e, Closes(q, c, e)
  PROVE  Gain(e, q[1]) = 0
<1>0. Ending(q, c) /\ e.refusalText = c.refusal
  BY DEF Closes, Holds
<1>1. CASE Len(q) = 1
  <2>1. q[1] = Terminal(c)
    BY <1>0, <1>1 DEF Ending
  <2>2. Terminal(c).type \notin {"output_text.delta", "refusal.delta", "refusal.done"}
    BY DEF Terminal, Lifecycle, Event
  <2> QED BY <2>1, <2>2 DEF Gain
<1>2. CASE Len(q) # 1
  <2>1. Closing(c, q[1])
    BY <1>0, <1>2, EndingRest
  <2> QED BY <1>0, <2>1 DEF Closing, CallDone, Gain
<1> QED BY <1>1, <1>2

LEMMA CarryInit == Init => CarryInv
<1> SUFFICES ASSUME Init PROVE CarryInv
  OBVIOUS
<1>1. enc = NewStreamEncoder /\ sse = <<>> /\ queue = <<>>
  BY DEF Init, EncoderInit, ChatInit
<1>2. chat.text = 0 /\ chat.refusal = 0
  <2>1. PICK expose \in BOOLEAN :
          chat = [started |-> FALSE, ended |-> FALSE, err |-> FALSE, finish |-> "",
                  text |-> 0, refusal |-> 0, reasoning |-> 0, expose |-> expose,
                  reasoningClosed |-> FALSE, output |-> <<>>, tools |-> <<>>]
    BY DEF Init, ChatInit
  <2> QED BY <2>1
<1>3. ~enc.terminal /\ enc.tools = <<>> /\ DOMAIN <<>> = {}
  BY <1>1 DEF NewStreamEncoder
<1>4. Carried(enc, sse, 0)
  BY <1>1, <1>3, NoAmount DEF Carried
<1>5. 0 + Pend(queue) = chat.text + chat.refusal
  BY <1>1, <1>2, NothingPending
<1> QED BY <1>3, <1>4, <1>5 DEF CarryInv

(* What the adapter reads goes to the queue. *)
LEMMA ChunkBrings ==
  ASSUME StreamInv, ShowInv, HandInv, client = "messages", ChatChunk
  PROVE  /\ queue = <<>> /\ ~enc.terminal
         /\ chat'.text + chat'.refusal = (chat.text + chat.refusal) + Pend(queue')
<1>1. Chat
  BY DEF ChatChunk, Chat
<1>2. enc \in Encoders
  BY DEF ShowInv
<1>3. Reading
  BY DEF ChatChunk, ReceiveText, ReceiveRefusal, ReceiveReasoning, ReceiveToolDelta, ReceiveFinish
<1>4. /\ queue = <<>> /\ ~chat.ended /\ Keeps(chat, log) /\ chat \in Chats
      /\ Balanced(chat) /\ Agree(<<>>, chat, enc) /\ ~enc.terminal
  BY <1>1, <1>3, StreamIdle, HandReading DEF Reading
<1>5. ASSUME NEW r, InStep(r, chat, enc), Receive(r)
      PROVE  chat'.text + chat'.refusal = (chat.text + chat.refusal) + Pend(queue')
  BY <1>5 DEF InStep, Brings, Receive
<1>6. CASE ReceiveText \/ ReceiveRefusal
  <2>1. InStep(AddText(chat), chat, enc) /\ InStep(AddRefusal(chat), chat, enc)
    BY <1>2, <1>4, ContentInStep
  <2> QED BY <1>4, <1>5, <1>6, <2>1 DEF ReceiveText, ReceiveRefusal
<1>7. CASE ReceiveReasoning
  <2>1. InStep(AddReasoning(chat), chat, enc)
    BY <1>2, <1>4, ReasoningInStep
  <2> QED BY <1>4, <1>5, <1>7, <2>1 DEF ReceiveReasoning
<1>8. ASSUME NEW i \in Calls, NEW id \in BOOLEAN, NEW name \in BOOLEAN, NEW n \in 0 .. 1,
             ReceiveToolDelta(i, id, name, n)
      PROVE  chat'.text + chat'.refusal = (chat.text + chat.refusal) + Pend(queue')
  <2> DEFINE r == AddToolDelta(chat, i, id, name, n)
  <2>0. n \in Nat /\ Receive(r)
    BY <1>8 DEF ReceiveToolDelta
  <2>1. InStep(r, chat, enc)
    BY <1>2, <1>4, <2>0, CallInStep
  <2> HIDE DEF r
  <2> QED BY <1>5, <2>0, <2>1
<1>9. ASSUME NEW reason \in {"stop", "length"}, ReceiveFinish(reason)
      PROVE  chat'.text + chat'.refusal = (chat.text + chat.refusal) + Pend(queue')
  <2>1. queue' = queue /\ chat' = [chat EXCEPT !.finish = reason]
    BY <1>9 DEF ReceiveFinish
  <2>2. /\ chat'.text = chat.text /\ chat'.refusal = chat.refusal
        /\ chat.text \in Nat /\ chat.refusal \in Nat
    BY <1>4, <2>1 DEF Chats
  <2> QED BY <1>4, <2>1, <2>2, NothingPending
<1> QED BY <1>4, <1>6, <1>7, <1>8, <1>9 DEF ChatChunk

LEMMA EdgeBrings ==
  ASSUME StreamInv, ShowInv, HandInv, client = "messages", ChatEdge
  PROVE  /\ queue = <<>> /\ ~enc.terminal
         /\ chat'.text + chat'.refusal = (chat.text + chat.refusal) + Pend(queue')
<1>1. Chat /\ enc' = enc /\ client' = client /\ Chat'
  BY DEF ChatEdge, Chat, encoderVars
<1>2. queue = <<>> /\ ~chat.ended /\ chat \in Chats /\ chat.text \in Nat /\ chat.refusal \in Nat
  BY DEF ChatEdge, Announce, InnerFails, InnerEnds, Reading, StreamInv, Numbered, Chats
<1>3. ~enc.terminal /\ Balanced(chat)
  BY <1>1, <1>2, HandReading
<1> SUFFICES chat'.text = chat.text /\ chat'.refusal = chat.refusal /\ Pend(queue') = 0
  BY <1>2, <1>3
<1>4. CASE Announce
  <2> DEFINE ev == Lifecycle("created")
  <2>1. chat' = [chat EXCEPT !.started = TRUE] /\ queue' = <<ev>>
    BY <1>4 DEF Announce
  <2>2. chat'.text = chat.text /\ chat'.refusal = chat.refusal
    BY <1>2, <2>1 DEF Chats
  <2>3. ev.type = "created"
    BY DEF Lifecycle, Event
  <2> HIDE DEF ev
  <2>4. Len(<<ev>>) = 1 /\ <<ev>>[1] = ev
    OBVIOUS
  <2>5. /\ Pending(queue', "output_text.delta", TextItem) = 0
        /\ Pending(queue', "refusal.delta", RefusalItem) = 0
    BY <2>1, <2>3, <2>4 DEF Pending
  <2>6. Pend(queue') = 0
    BY <2>5 DEF Pend
  <2> QED BY <2>2, <2>6
<1>5. ASSUME queue' = queue, chat' = [chat EXCEPT !.ended = TRUE, !.err = TRUE]
      PROVE  chat'.text = chat.text /\ chat'.refusal = chat.refusal /\ Pend(queue') = 0
  BY <1>2, <1>5, NothingPending DEF Chats
<1>6. CASE InnerFails
  BY <1>5, <1>6 DEF InnerFails
<1>7. CASE InnerEnds
  <2>1. CASE ~Complete(chat)
    BY <1>5, <1>7, <2>1 DEF InnerEnds
  <2>2. CASE Complete(chat)
    <3> DEFINE c == [chat EXCEPT !.finish = IF @ = "" THEN "stop" ELSE @]
               r == FinishOutput(c)
    <3>1. chat' = [r.chat EXCEPT !.ended = TRUE] /\ queue' = Append(r.events, Terminal(c))
      BY <1>7, <2>2 DEF InnerEnds
    <3>2. /\ c \in Chats /\ c.tools = chat.tools /\ c.output = chat.output
          /\ c.text = chat.text /\ c.refusal = chat.refusal /\ c.expose = chat.expose
          /\ c.reasoningClosed = chat.reasoningClosed
      BY <1>2 DEF Chats
    <3> HIDE DEF c
    <3>3. Balanced(c)
      BY <1>3, <3>2, SameChat
    <3>4. Complete(c)
      BY <2>2, <3>2 DEF Complete, Started
    <3>5. r.chat = c /\ Ending(Append(r.events, Terminal(c)), c)
      BY <3>3, <3>4, EndQueue
    <3> HIDE DEF r
    <3>6. chat' = [c EXCEPT !.ended = TRUE]
      BY <3>1, <3>5
    <3>7. chat'.text = chat.text /\ chat'.refusal = chat.refusal
      BY <3>2, <3>6 DEF Chats
    <3>8. queue' \in Seq(WireEvents)
      BY StreamStep DEF StreamInv, Next
    <3>9. Pend(queue') = 0
      BY <3>1, <3>5, <3>8, EndingPend
    <3> QED BY <3>7, <3>9
  <2> QED BY <2>1, <2>2
<1> QED BY <1>4, <1>6, <1>7 DEF ChatEdge

LEMMA CarryDeliver ==
  ASSUME StreamInv, ShowInv, HandInv, CarryInv, Chat, Deliver
  PROVE  CarryInv'
<1>1. /\ client = "messages" /\ queue # <<>> /\ ~enc.terminal /\ queue' = Tail(queue)
      /\ UNCHANGED <<chat, client, wireAPI>>
  BY DEF Deliver
<1>2. PICK bad \in BOOLEAN : HandleResponsesEvent(Head(queue), bad)
  BY DEF Deliver
<1>3. Shows(enc, sse) /\ enc \in Encoders
  BY <1>1 DEF ShowInv
<1>4. queue \in Seq(WireEvents) /\ Numbered(chat) /\ chat \in Chats
  BY DEF StreamInv, Numbered
<1>5. Head(queue) = queue[1] /\ queue[1] \in WireEvents /\ Tail(queue) \in Seq(WireEvents)
  BY <1>1, <1>4, TailOf
<1> DEFINE r == Encode(enc, queue[1], bad)
           g == Gain(enc, queue[1])
           n == chat.text + chat.refusal
<1>6. enc' = r.enc /\ sse' = sse \o r.events
  BY <1>1, <1>2, <1>5 DEF HandleResponsesEvent
<1>7. Balanced(chat) /\ Phase(queue, chat, enc)
  BY <1>1 DEF HandInv
<1>8. chat' = chat
  BY <1>1
<1>9. PICK m \in Nat : Carried(enc, sse, m) /\ m + Pend(queue) = n
  BY <1>1 DEF CarryInv
<1>10. Carries(r, sse, m + g)
  BY <1>3, <1>5, <1>9, EncodeCarries, Zenon
<1>11. n \in Nat /\ Pend(queue) \in Nat /\ Pend(Tail(queue)) \in Nat
  <2> HIDE DEF r, g
  <2>1. chat.text \in Nat /\ chat.refusal \in Nat
    BY <1>4 DEF Chats
  <2>2. n \in Nat
    BY <2>1
  <2> HIDE DEF n
  <2>3. Pend(queue) \in Nat
    BY <1>4, PendType
  <2>4. Pend(Tail(queue)) \in Nat
    BY <1>5, PendType
  <2> QED BY <2>2, <2>3, <2>4
<1>12. g \in Nat
  BY <1>5 DEF Gain, WireEvents
<1>13. SUFFICES IF r.enc.terminal
                THEN LastIs(sse \o r.events, "message_stop") => Carried(r.enc, sse \o r.events, n)
                ELSE \E k \in Nat : Carried(r.enc, sse \o r.events, k) /\ k + Pend(Tail(queue)) = n
  <2> HIDE DEF r, n
  <2>1. n = chat'.text + chat'.refusal
    BY <1>8 DEF n
  <2> QED BY <1>1, <1>6, <1>13, <2>1 DEF CarryInv
<1>14. LastIs(sse \o r.events, "error") => ~LastIs(sse \o r.events, "message_stop")
  <2> HIDE DEF r
  <2> QED BY DEF LastIs
<1>15. CASE ~(chat.ended /\ ~chat.err)
  <2>1. Streams(chat, queue, enc)
    BY <1>1, <1>3, <1>4, <1>7, <1>15 DEF Streams, Phase
  <2>2. ~r.enc.terminal
    BY <1>1, <2>1, StreamDelivered
  <2>3. g + Pend(Tail(queue)) = Pend(queue)
    BY <1>1, <2>1, StreamGain
  <2> HIDE DEF r, g, n
  <2>4. Carried(r.enc, sse \o r.events, m + g)
    BY <1>10, <2>2 DEF Carries
  <2>5. m + g \in Nat /\ (m + g) + Pend(Tail(queue)) = n
    BY <1>9, <1>11, <1>12, <2>3
  <2> QED BY <2>2, <2>4, <2>5
<1>16. CASE chat.ended /\ ~chat.err
  <2>1. Closes(queue, chat, enc)
    BY <1>7, <1>16 DEF Phase
  <2>2. g = 0 /\ Pend(queue) = 0
    BY <1>4, <2>1, CloseGain, EndingPend DEF Closes
  <2>3. m + g = n
    <3> HIDE DEF g, n
    <3> QED BY <1>9, <1>11, <2>2
  <2>4. CASE Len(queue) # 1
    <3>1. ~r.enc.terminal /\ Closes(Tail(queue), chat, r.enc)
      BY <1>3, <1>4, <2>1, <2>4, CloseDelivered
    <3>2. Pend(Tail(queue)) = 0
      BY <1>5, <3>1, EndingPend DEF Closes
    <3> HIDE DEF r, g, n
    <3>3. Carried(r.enc, sse \o r.events, n)
      BY <1>10, <2>3, <3>1 DEF Carries
    <3>4. n + Pend(Tail(queue)) = n
      BY <1>11, <3>2
    <3> QED BY <1>11, <3>1, <3>3, <3>4
  <2>5. CASE Len(queue) = 1
    <3>1. r.enc.terminal
      BY <1>3, <1>4, <2>1, <2>5, TerminalDelivered, Zenon
    <3> HIDE DEF r, g, n
    <3> QED BY <1>10, <1>14, <2>3, <3>1 DEF Carries
  <2> QED BY <2>4, <2>5
<1> QED BY <1>15, <1>16

LEMMA CarryStep == StreamInv /\ ShowInv /\ HandInv /\ CarryInv /\ [Next]_vars => CarryInv'
<1> SUFFICES ASSUME StreamInv, ShowInv, HandInv, CarryInv, [Next]_vars, Chat', client' = "messages"
             PROVE  CarryInv'
  BY DEF CarryInv
<1>1. Chat /\ client = "messages"
  BY DEF Next, ChatChunk, ChatEdge, ResponsesEvent, Deliver, Forward, Broken, Done, vars, Chat
<1>2. ASSUME queue = <<>>, ~enc.terminal, UNCHANGED encoderVars,
             chat'.text + chat'.refusal = (chat.text + chat.refusal) + Pend(queue')
      PROVE  CarryInv'
  <2>1. PICK m \in Nat : Carried(enc, sse, m) /\ m + Pend(queue) = chat.text + chat.refusal
    BY <1>1, <1>2 DEF CarryInv
  <2>2. m = chat.text + chat.refusal
    BY <1>2, <2>1, NothingPending
  <2>3. enc' = enc /\ sse' = sse
    BY <1>2 DEF encoderVars
  <2> QED BY <1>2, <2>1, <2>2, <2>3 DEF CarryInv
<1>3. CASE ChatChunk
  <2>1. UNCHANGED encoderVars
    BY <1>3 DEF ChatChunk
  <2> QED BY <1>1, <1>2, <1>3, <2>1, ChunkBrings
<1>4. CASE ChatEdge
  <2>1. UNCHANGED encoderVars
    BY <1>4 DEF ChatEdge
  <2> QED BY <1>1, <1>2, <1>4, <2>1, EdgeBrings
<1>5. CASE ResponsesEvent
  BY <1>1, <1>5 DEF ResponsesEvent, Chat
<1>6. CASE Deliver
  BY <1>1, <1>6, CarryDeliver
<1>7. CASE Forward
  BY <1>1, <1>7 DEF Forward
<1>8. CASE Broken
  <2>1. ~enc.terminal /\ enc' = Fail(enc).enc /\ sse' = sse \o Fail(enc).events
    BY <1>8 DEF Broken
  <2>2. enc \in Encoders /\ sse \in Seq(Sse)
    BY <2>1 DEF ShowInv, Shows, Running
  <2>3. enc'.terminal /\ LastIs(sse', "error")
    BY <2>1, <2>2, FailSays
  <2>4. ~LastIs(sse', "message_stop")
    BY <2>3 DEF LastIs
  <2> QED BY <2>3, <2>4 DEF CarryInv
<1>9. CASE UNCHANGED vars
  <2>1. UNCHANGED <<chat, queue, enc, sse, client, wireAPI>>
    BY <1>9 DEF vars, chatVars, encoderVars
  <2> QED BY <2>1 DEF CarryInv, Chat
<1> QED BY <1>3, <1>4, <1>5, <1>6, <1>7, <1>8, <1>9 DEF Next, Done

LEMMA CarriesMessage == StreamInv /\ ShowInv /\ HandInv /\ CarryInv => FaithfulMessage
<1> SUFFICES ASSUME StreamInv, ShowInv, HandInv, CarryInv, Chat, enc.terminal, LastIs(sse, "message_stop")
             PROVE  /\ SentText = chat.text + chat.refusal
                    /\ DOMAIN enc.tools = DOMAIN chat.tools
                    /\ \A i \in DOMAIN chat.tools :
                         Sent(enc.tools[i].index) = IF chat.tools[i].args = 0 THEN 1 ELSE chat.tools[i].args
                    /\ \A b \in Blocks : b \in ToolBlocks \/ Sent(b) > 0
  BY DEF FaithfulMessage, LastIs
<1>1. client = "messages"
  BY DEF StreamInv, HandInv
<1>2. Delivered(chat, enc)
  <2>1. Ended
    BY <1>1 DEF HandInv
  <2> QED BY <2>1 DEF Ended, LastIs
<1>3. Carried(enc, sse, chat.text + chat.refusal)
  BY <1>1 DEF CarryInv
<1>4. ToolBlocks = Indices(enc) /\ Indices(enc) \in Beside(enc)
  <2>1. ToolBlocks = Indices(enc)
    BY DEF ToolBlocks, Indices
  <2>2. enc.tools \in ToolMaps
    BY DEF ShowInv, Encoders
  <2>3. \A i \in DOMAIN enc.tools : enc.tools[i].index \in Nat
    BY <2>2, ToolMapFacts
  <2>4. Indices(enc) \in SUBSET Nat
    BY <2>3 DEF Indices
  <2> QED BY <2>1, <2>4 DEF Beside
<1>5. SentText = chat.text + chat.refusal
  BY <1>3, <1>4 DEF Carried, SentText
<1>6. \A i \in DOMAIN chat.tools :
        Sent(enc.tools[i].index) = IF chat.tools[i].args = 0 THEN 1 ELSE chat.tools[i].args
  <2> TAKE i \in DOMAIN chat.tools
  <2>1. i \in DOMAIN enc.tools /\ enc.tools[i].args = Whole(chat.tools[i].args)
    BY <1>2 DEF Delivered
  <2>2. Amount(sse, {enc.tools[i].index}) = enc.tools[i].args
    BY <1>3, <2>1 DEF Carried
  <2>3. Sent(enc.tools[i].index) = Amount(sse, {enc.tools[i].index})
    BY DEF Sent
  <2> QED BY <2>1, <2>2, <2>3 DEF Whole
<1>7. \A b \in Blocks : b \in ToolBlocks \/ Sent(b) > 0
  BY <1>3, <1>4 DEF Carried, Blocks, Sent
<1>8. DOMAIN enc.tools = DOMAIN chat.tools
  BY <1>2 DEF Delivered
<1> QED BY <1>5, <1>6, <1>7, <1>8

(* The message a client gets for a chat stream that ended well is the      *)
(* model's, for streams of any length with any number of tool calls: each  *)
(* fragment of text and refusal is shown exactly once, outside the tool    *)
(* blocks; each call has one block with exactly its arguments, those that  *)
(* came before its id and name included, or "{}"; and there is no other    *)
(* block.                                                                  *)
THEOREM MessageStaysFaithful == Spec => []FaithfulMessage
<1>1. Init => StreamInv /\ ShowInv /\ HandInv /\ CarryInv
  BY StreamInit, ShowInit, HandInit, CarryInit
<1>2. StreamInv /\ ShowInv /\ HandInv /\ CarryInv /\ [Next]_vars
        => (StreamInv /\ ShowInv /\ HandInv /\ CarryInv)'
  BY StreamStep, ShowStep, HandStep, CarryStep
<1>3. StreamInv /\ ShowInv /\ HandInv /\ CarryInv => FaithfulMessage
  BY CarriesMessage
<1> QED BY <1>1, <1>2, <1>3, PTL DEF Spec
=============================================================================
