--------------------------- MODULE TranslationProofs ---------------------------
(***************************************************************************)
(* Proofs about the translation of a conversation, for histories of any    *)
(* length.  Requirements match what is sent; the history reaches the       *)
(* upstream whole; reasoning stays with its turn; what Parse accepts the   *)
(* Chat Completions adapter converts; results follow their calls.          *)
(*                                                                         *)
(* The properties are facts about typed states.  The two translation loops *)
(* are unfolded by induction over the natural numbers, and composed over   *)
(* the turns of the history, at whose boundaries the invariants are        *)
(* stated.                                                                 *)
(***************************************************************************)
EXTENDS Translation, FiniteSetTheorems, SequenceTheorems, WellFoundedInduction, TLAPS

-----------------------------------------------------------------------------
(* Induction, and sequences that are joined.                               *)

(* Every set of natural numbers has a least element: the library's order   *)
(* theorem, without the operator that none of the provers can instantiate. *)
LEMMA LeastNumber ==
  ASSUME NEW T \in SUBSET Nat, T # {}
  PROVE  \E n \in T : \A m \in T : n <= m
<1>1. PICK R : IsWellFoundedOn(R, Nat) /\ \A n, m \in Nat : <<m, n>> \in R <=> m < n
  <2>1. IsWellFoundedOn(OpToRel(<, Nat), Nat)
    BY NatLessThanWellFounded
  <2>2. \A n, m \in Nat : <<m, n>> \in OpToRel(<, Nat) <=> m < n
    BY DEF OpToRel
  <2> QED BY <2>1, <2>2, Zenon
<1>2. PICK n \in T : \A m \in T : ~(<<m, n>> \in R)
  BY <1>1, WFMin
<1>3. ASSUME NEW m \in T PROVE n <= m
  <2>1. n \in Nat /\ m \in Nat
    OBVIOUS
  <2>2. ~(m < n)
    BY <1>1, <1>2, <2>1
  <2> QED BY <2>1, <2>2
<1> QED BY <1>3

(* Induction over the natural numbers, with a set in the place of the      *)
(* predicate.                                                              *)
LEMMA NumberInduction ==
  ASSUME NEW T \in SUBSET Nat, 0 \in T, \A n \in T : n + 1 \in T
  PROVE  T = Nat
<1> DEFINE C == Nat \ T
<1>1. SUFFICES ASSUME C # {} PROVE FALSE
  OBVIOUS
<1>2. PICK n \in C : \A m \in C : n <= m
  BY <1>1, LeastNumber
<1>3. n # 0 /\ n - 1 \in Nat /\ n - 1 \notin C
  BY <1>2
<1> QED BY <1>3

(* FlattenSeq joins its arguments one after the other. *)
LEMMA Flattening ==
  ASSUME NEW X, NEW q \in Seq(Seq(X))
  PROVE  \E fl \in [0 .. Len(q) -> Seq(X)] :
           /\ fl[0] = <<>>
           /\ \A i \in 1 .. Len(q) : fl[i] = fl[i - 1] \o q[i]
           /\ FlattenSeq(q) = fl[Len(q)]
<1> DEFINE N == Len(q)
           Joins(f, n) == /\ f \in [0 .. n -> Seq(X)]
                          /\ f[0] = <<>>
                          /\ \A i \in 1 .. n : f[i] = f[i - 1] \o q[i]
           T == {n \in Nat : n <= N => \E f : Joins(f, n)}
<1>0. N \in Nat /\ \A i \in 1 .. N : q[i] \in Seq(X)
  OBVIOUS
<1>1. 0 \in T
  <2>1. Joins([i \in 0 .. 0 |-> <<>>], 0)
    OBVIOUS
  <2> HIDE DEF Joins
  <2> QED BY <2>1
<1>2. ASSUME NEW n \in T PROVE n + 1 \in T
  <2> HIDE DEF Joins, N
  <2> SUFFICES ASSUME n + 1 <= N PROVE \E f : Joins(f, n + 1)
    OBVIOUS
  <2>1. n \in Nat /\ n <= N
    BY <1>0
  <2>2. PICK f : Joins(f, n)
    BY <2>1
  <2> USE DEF Joins, N
  <2> HIDE DEF T
  <2> DEFINE g == [i \in 0 .. n + 1 |-> IF i = n + 1 THEN f[n] \o q[n + 1] ELSE f[i]]
  <2>3. f[n] \o q[n + 1] \in Seq(X)
    BY <1>0, <2>1, <2>2
  <2>4. g \in [0 .. n + 1 -> Seq(X)]
    BY <2>1, <2>2, <2>3
  <2>5. g[0] = <<>>
    BY <2>1, <2>2
  <2>6. \A i \in 1 .. n + 1 : g[i] = g[i - 1] \o q[i]
    <3> TAKE i \in 1 .. n + 1
    <3>1. CASE i = n + 1
      <4>1. i \in 0 .. n + 1 /\ i - 1 \in 0 .. n + 1 /\ i - 1 = n /\ i - 1 # n + 1
        BY <2>1, <3>1
      <4>2. g[i] = f[n] \o q[n + 1] /\ g[i - 1] = f[i - 1]
        BY <3>1, <4>1
      <4> QED BY <3>1, <4>1, <4>2
    <3>2. CASE i # n + 1
      <4>1. i \in 1 .. n /\ i - 1 \in 0 .. n /\ g[i] = f[i] /\ g[i - 1] = f[i - 1]
        BY <2>1, <3>2
      <4> QED BY <2>2, <4>1
    <3> QED BY <3>1, <3>2
  <2> HIDE DEF g
  <2>7. Joins(g, n + 1)
    BY <2>4, <2>5, <2>6
  <2> QED BY <2>7
<1>3. T = Nat
  <2>1. T \in SUBSET Nat
    OBVIOUS
  <2> HIDE DEF T
  <2> QED BY <1>1, <1>2, <2>1, NumberInduction
<1>4. PICK fl : Joins(fl, N)
  <2> HIDE DEF Joins
  <2> QED BY <1>0, <1>3
<1> HIDE DEF T
<1>5. FlattenSeq(q) = fl[N]
  <2>1. CASE N = 0
    <3>1. q = <<>>
      BY <2>1
    <3> QED BY <1>4, <2>1, <3>1 DEF FlattenSeq
  <2>2. CASE N # 0
    <3> DEFINE Fits(f) == f = [i \in 1 .. N |-> IF i = 1 THEN q[i] ELSE f[i - 1] \o q[i]]
               c == CHOOSE f : Fits(f)
               g == [i \in 1 .. N |-> fl[i]]
    <3>1. FlattenSeq(q) = c[N]
      BY <2>2 DEF FlattenSeq
    <3>2. Fits(g)
      <4>1. \A i \in 1 .. N : fl[i] = IF i = 1 THEN q[i] ELSE g[i - 1] \o q[i]
        <5> TAKE i \in 1 .. N
        <5>1. fl[i] = fl[i - 1] \o q[i]
          BY <1>4
        <5>2. CASE i = 1
          <6>1. fl[0] \o q[i] = q[i]
            BY <1>0, <1>4, ConcatEmptySeq
          <6>2. i - 1 = 0
            BY <5>2
          <6> QED BY <5>1, <5>2, <6>1, <6>2
        <5>3. CASE i # 1
          <6>1. i - 1 \in 1 .. N
            BY <1>0, <5>3
          <6> QED BY <5>1, <5>3, <6>1
        <5> QED BY <5>2, <5>3
      <4> QED BY <4>1
    <3> HIDE DEF g
    <3>3. Fits(c)
      BY <3>2, Zenon
    <3> DEFINE V == {n \in Nat : n + 1 <= N => c[n + 1] = fl[n + 1]}
    <3> HIDE DEF c
    <3>4. 0 \in V
      <4>1. 1 \in 1 .. N
        BY <1>0, <2>2
      <4>2. c[1] = q[1]
        BY <3>3, <4>1
      <4>3. fl[1] = <<>> \o q[1]
        <5>1. fl[0] = <<>> /\ \A i \in 1 .. N : fl[i] = fl[i - 1] \o q[i]
          BY <1>4
        <5>2. 1 - 1 = 0
          OBVIOUS
        <5> HIDE DEF Joins, V, N, Fits
        <5> QED BY <4>1, <5>1, <5>2
      <4>4. <<>> \o q[1] = q[1]
        BY <1>0, <4>1, ConcatEmptySeq
      <4>5. c[0 + 1] = fl[0 + 1]
        BY <4>2, <4>3, <4>4
      <4> HIDE DEF Joins, N, Fits
      <4> QED BY <4>5
    <3>5. ASSUME NEW n \in V PROVE n + 1 \in V
      <4> SUFFICES ASSUME n + 2 <= N PROVE c[n + 2] = fl[n + 2]
        BY <1>0
      <4>1. n + 2 \in 1 .. N /\ n + 2 # 1 /\ (n + 2) - 1 = n + 1 /\ n + 1 <= N
        BY <1>0
      <4>2. c[n + 2] = c[n + 1] \o q[n + 2]
        BY <3>3, <4>1
      <4>3. fl[n + 2] = fl[n + 1] \o q[n + 2]
        BY <1>4, <4>1
      <4> QED BY <4>1, <4>2, <4>3
    <3>6. V = Nat
      <4>1. V \in SUBSET Nat
        OBVIOUS
      <4> HIDE DEF V
      <4> QED BY <3>4, <3>5, <4>1, NumberInduction
    <3>7. N - 1 \in V /\ (N - 1) + 1 = N
      <4> HIDE DEF V, N, Joins
      <4> QED BY <1>0, <2>2, <3>6
    <3> QED BY <1>0, <3>1, <3>7 DEF V
  <2> QED BY <2>1, <2>2
<1> QED BY <1>4, <1>5

(* What holds of every part of a join, and is kept by joining, holds of    *)
(* the whole.                                                              *)
LEMMA FlattenStays ==
  ASSUME NEW X, NEW q \in Seq(Seq(X)), NEW M \in SUBSET Seq(X), <<>> \in M,
         \A s, t \in M : s \o t \in M, \A i \in 1 .. Len(q) : q[i] \in M
  PROVE  FlattenSeq(q) \in M
<1>1. PICK fl \in [0 .. Len(q) -> Seq(X)] :
        /\ fl[0] = <<>>
        /\ \A i \in 1 .. Len(q) : fl[i] = fl[i - 1] \o q[i]
        /\ FlattenSeq(q) = fl[Len(q)]
  BY Flattening
<1> DEFINE T == {n \in Nat : n <= Len(q) => fl[n] \in M}
<1>2. 0 \in T
  BY <1>1
<1>3. ASSUME NEW n \in T PROVE n + 1 \in T
  <2> SUFFICES ASSUME n + 1 <= Len(q) PROVE fl[n + 1] \in M
    OBVIOUS
  <2>1. n + 1 \in 1 .. Len(q) /\ (n + 1) - 1 = n /\ fl[n] \in M
    OBVIOUS
  <2>2. fl[n + 1] = fl[n] \o q[n + 1]
    BY <1>1, <2>1
  <2> QED BY <2>1, <2>2
<1>4. T = Nat
  <2>1. T \in SUBSET Nat
    OBVIOUS
  <2> HIDE DEF T
  <2> QED BY <1>2, <1>3, <2>1, NumberInduction
<1>5. Len(q) \in Nat
  OBVIOUS
<1>6. Len(q) \in T
  <2> HIDE DEF T
  <2> QED BY <1>4, <1>5
<1> QED BY <1>1, <1>5, <1>6

(* A function that is defined by recursion over 1 .. N. *)
Follows(f, S, N, a, F) ==
  /\ f \in [0 .. N -> S]
  /\ f[0] = a
  /\ \A n \in 1 .. N : f[n] = F[n][f[n - 1]]

LEMMA Recursion ==
  ASSUME NEW S, NEW N \in Nat, NEW a \in S, NEW F \in [1 .. N -> [S -> S]]
  PROVE  \E f : Follows(f, S, N, a, F)
<1> DEFINE Runs(f, n) == /\ f \in [0 .. n -> S]
                         /\ f[0] = a
                         /\ \A k \in 1 .. n : f[k] = F[k][f[k - 1]]
           T == {n \in Nat : n <= N => \E f : Runs(f, n)}
<1>1. 0 \in T
  <2>1. Runs([k \in 0 .. 0 |-> a], 0)
    OBVIOUS
  <2> HIDE DEF Runs
  <2> QED BY <2>1
<1>2. ASSUME NEW n \in T PROVE n + 1 \in T
  <2> HIDE DEF Runs
  <2> SUFFICES ASSUME n + 1 <= N PROVE \E f : Runs(f, n + 1)
    OBVIOUS
  <2>1. n \in Nat /\ n <= N /\ n + 1 \in 1 .. N
    OBVIOUS
  <2>2. PICK f : Runs(f, n)
    BY <2>1
  <2> USE DEF Runs
  <2> HIDE DEF T
  <2> DEFINE g == [k \in 0 .. n + 1 |-> IF k = n + 1 THEN F[n + 1][f[n]] ELSE f[k]]
  <2>3. F[n + 1][f[n]] \in S
    BY <2>1, <2>2
  <2>4. g \in [0 .. n + 1 -> S]
    BY <2>1, <2>2, <2>3
  <2>5. g[0] = a
    BY <2>1, <2>2
  <2>6. \A k \in 1 .. n + 1 : g[k] = F[k][g[k - 1]]
    <3> TAKE k \in 1 .. n + 1
    <3>1. CASE k = n + 1
      <4>1. k \in 0 .. n + 1 /\ k - 1 \in 0 .. n + 1 /\ k - 1 = n /\ k - 1 # n + 1
        BY <2>1, <3>1
      <4>2. g[k] = F[n + 1][f[n]] /\ g[k - 1] = f[k - 1]
        BY <3>1, <4>1
      <4> QED BY <3>1, <4>1, <4>2
    <3>2. CASE k # n + 1
      <4>1. k \in 1 .. n /\ k - 1 \in 0 .. n /\ g[k] = f[k] /\ g[k - 1] = f[k - 1]
        BY <2>1, <3>2
      <4> QED BY <2>2, <4>1
    <3> QED BY <3>1, <3>2
  <2> HIDE DEF g
  <2>7. Runs(g, n + 1)
    BY <2>4, <2>5, <2>6
  <2> QED BY <2>7
<1>3. T = Nat
  <2>1. T \in SUBSET Nat
    OBVIOUS
  <2> HIDE DEF T
  <2> QED BY <1>1, <1>2, <2>1, NumberInduction
<1>4. PICK f : Runs(f, N)
  <2> HIDE DEF Runs
  <2>1. N \in T
    <3> HIDE DEF T
    <3> QED BY <1>3
  <2> QED BY <2>1
<1>5. Follows(f, S, N, a, F)
  BY <1>4 DEF Follows
<1> QED BY <1>5

(* The laws of concatenation, as formulas. *)
LEMMA Assoc == \A S : \A a, b, c \in Seq(S) : (a \o b) \o c = a \o (b \o c)
BY ConcatAssociative

LEMMA Joined == \A S : \A a, b \in Seq(S) : a \o b \in Seq(S)
OBVIOUS

LEMMA Appended ==
  \A S : \A a \in Seq(S), x \in S : /\ Append(a, x) = a \o <<x>>
                                    /\ Append(a, x) \in Seq(S)
                                    /\ <<x>> \in Seq(S)
BY AppendIsConcat

LEMMA Unit == \A S : \A a \in Seq(S) : a \o <<>> = a /\ <<>> \o a = a
BY ConcatEmptySeq

(* Every x spells a sequence g[x]; the sequence s spells what its elements *)
(* spell, one after the other.                                             *)
Speech(g, X, P) == \A x \in X : g[x] \in Seq(P)
Spell(g, s) == FlattenSeq([j \in DOMAIN s |-> g[s[j]]])

(* The words of s, one by one. *)
LEMMA Words ==
  ASSUME NEW X, NEW P, NEW g, Speech(g, X, P), NEW s \in Seq(X),
         NEW q, q = [j \in DOMAIN s |-> g[s[j]]]
  PROVE  /\ q \in Seq(Seq(P))
         /\ Len(q) = Len(s)
         /\ \A j \in 1 .. Len(s) : q[j] = g[s[j]]
<1> DEFINE n == Len(s)
<1>1. n \in Nat /\ DOMAIN s = 1 .. n /\ \A j \in 1 .. n : s[j] \in X
  OBVIOUS
<1> HIDE DEF n
<1>2. \A j \in 1 .. n : q[j] = g[s[j]] /\ q[j] \in Seq(P)
  BY <1>1 DEF Speech
<1>3. q \in [1 .. n -> Seq(P)]
  BY <1>1, <1>2
<1>4. q \in Seq(Seq(P)) /\ Len(q) = n
  BY <1>1, <1>3
<1> QED BY <1>2, <1>4 DEF n

LEMMA SpellType ==
  \A X, P, g : Speech(g, X, P) => \A s \in Seq(X) : Spell(g, s) \in Seq(P)
<1> SUFFICES ASSUME NEW X, NEW P, NEW g, Speech(g, X, P), NEW s \in Seq(X)
             PROVE  Spell(g, s) \in Seq(P)
  OBVIOUS
<1> DEFINE q == [j \in DOMAIN s |-> g[s[j]]]
<1>1. q = [j \in DOMAIN s |-> g[s[j]]]
  OBVIOUS
<1>2. Spell(g, s) = FlattenSeq(q)
  BY DEF Spell
<1> HIDE DEF q
<1>3. q \in Seq(Seq(P))
  BY <1>1, Words
<1>4. PICK fl \in [0 .. Len(q) -> Seq(P)] : FlattenSeq(q) = fl[Len(q)]
  BY <1>3, Flattening
<1>5. Len(q) \in 0 .. Len(q)
  BY <1>3
<1> QED BY <1>2, <1>4, <1>5

(* Flattenings of sequences that begin alike. *)
LEMMA FlattenAppend ==
  ASSUME NEW P, NEW n \in Nat, NEW q \in Seq(Seq(P)), NEW r \in Seq(Seq(P)),
         Len(q) = n, Len(r) = n + 1, \A j \in 1 .. n : r[j] = q[j]
  PROVE  FlattenSeq(r) = FlattenSeq(q) \o r[n + 1]
<1>1. PICK fq \in [0 .. Len(q) -> Seq(P)] :
        /\ fq[0] = <<>>
        /\ \A i \in 1 .. Len(q) : fq[i] = fq[i - 1] \o q[i]
        /\ FlattenSeq(q) = fq[Len(q)]
  BY Flattening
<1>2. PICK fr \in [0 .. Len(r) -> Seq(P)] :
        /\ fr[0] = <<>>
        /\ \A i \in 1 .. Len(r) : fr[i] = fr[i - 1] \o r[i]
        /\ FlattenSeq(r) = fr[Len(r)]
  BY Flattening
<1> DEFINE T == {k \in Nat : k <= n => fr[k] = fq[k]}
<1>3. 0 \in T
  BY <1>1, <1>2
<1>4. ASSUME NEW k \in T PROVE k + 1 \in T
  <2> SUFFICES ASSUME k + 1 <= n PROVE fr[k + 1] = fq[k + 1]
    OBVIOUS
  <2>1. k + 1 \in 1 .. n /\ k + 1 \in 1 .. n + 1 /\ (k + 1) - 1 = k /\ fr[k] = fq[k]
    OBVIOUS
  <2>2. fr[k + 1] = fr[k] \o r[k + 1] /\ fq[k + 1] = fq[k] \o q[k + 1]
    BY <1>1, <1>2, <2>1
  <2> QED BY <2>1, <2>2
<1>5. T = Nat
  <2>1. T \in SUBSET Nat
    OBVIOUS
  <2> HIDE DEF T
  <2> QED BY <1>3, <1>4, <2>1, NumberInduction
<1>6. fr[n] = fq[n]
  <2>1. n \in T
    BY <1>5
  <2> QED BY <2>1
<1>7. fr[n + 1] = fr[n] \o r[n + 1]
  <2>1. n + 1 \in 1 .. Len(r) /\ (n + 1) - 1 = n
    OBVIOUS
  <2> QED BY <1>2, <2>1
<1> QED BY <1>1, <1>2, <1>6, <1>7

LEMMA SpellAppend ==
  \A X, P, g : Speech(g, X, P) =>
    \A s \in Seq(X), x \in X : Spell(g, Append(s, x)) = Spell(g, s) \o g[x]
<1> SUFFICES ASSUME NEW X, NEW P, NEW g, Speech(g, X, P), NEW s \in Seq(X), NEW x \in X
             PROVE  Spell(g, Append(s, x)) = Spell(g, s) \o g[x]
  OBVIOUS
<1> DEFINE q == [j \in DOMAIN s |-> g[s[j]]]
           t == Append(s, x)
           r == [j \in DOMAIN t |-> g[t[j]]]
           n == Len(s)
<1>0. t \in Seq(X)
  OBVIOUS
<1>1. n \in Nat /\ Len(t) = n + 1 /\ t[n + 1] = x /\ \A j \in 1 .. n : t[j] = s[j]
  OBVIOUS
<1>2. q = [j \in DOMAIN s |-> g[s[j]]] /\ Spell(g, s) = FlattenSeq(q)
  BY DEF Spell
<1> HIDE DEF t
<1>3. r = [j \in DOMAIN t |-> g[t[j]]] /\ Spell(g, t) = FlattenSeq(r)
  BY DEF Spell
<1> HIDE DEF q, r
<1>4. q \in Seq(Seq(P)) /\ Len(q) = n /\ \A j \in 1 .. n : q[j] = g[s[j]]
  <2> HIDE DEF n
  <2>1. q \in Seq(Seq(P)) /\ Len(q) = Len(s) /\ \A j \in 1 .. Len(s) : q[j] = g[s[j]]
    BY <1>2, Words
  <2> QED BY <2>1 DEF n
<1> HIDE DEF n
<1>5. r \in Seq(Seq(P)) /\ Len(r) = Len(t) /\ \A j \in 1 .. Len(t) : r[j] = g[t[j]]
  BY <1>0, <1>3, Words
<1>6. Len(r) = n + 1 /\ r[n + 1] = g[x] /\ \A j \in 1 .. n : r[j] = q[j]
  <2>1. n + 1 \in 1 .. Len(t) /\ \A j \in 1 .. n : j \in 1 .. Len(t)
    BY <1>1
  <2>2. r[n + 1] = g[x]
    BY <1>1, <1>5, <2>1
  <2>3. ASSUME NEW j \in 1 .. n PROVE r[j] = q[j]
    BY <1>1, <1>4, <1>5, <2>1
  <2> QED BY <1>1, <1>5, <2>2, <2>3
<1>7. FlattenSeq(r) = FlattenSeq(q) \o r[n + 1]
  <2>1. n \in Nat
    BY <1>1
  <2>2. q \in Seq(Seq(P)) /\ r \in Seq(Seq(P)) /\ Len(q) = n
    BY <1>4, <1>5
  <2> QED BY <2>1, <2>2, <1>6, FlattenAppend
<1>8. Spell(g, t) = Spell(g, s) \o g[x]
  BY <1>2, <1>3, <1>6, <1>7
<1> QED BY <1>8 DEF t

(* A sequence that is not empty ends with its last element. *)
LEMMA SplitLast ==
  ASSUME NEW X, NEW t \in Seq(X), t # <<>>
  PROVE  \E u \in Seq(X), x \in X : t = Append(u, x) /\ Len(u) + 1 = Len(t)
<1> DEFINE n == Len(t)
           u == [j \in 1 .. n - 1 |-> t[j]]
<1>1. n \in Nat /\ n # 0 /\ \A j \in 1 .. n : t[j] \in X
  BY EmptySeq
<1>2. u \in [1 .. n - 1 -> X] /\ n - 1 \in Nat /\ t[n] \in X
  BY <1>1
<1>3. u \in Seq(X) /\ Len(u) = n - 1 /\ \A j \in 1 .. n - 1 : u[j] = t[j]
  BY <1>2
<1> HIDE DEF u
<1>4. Append(u, t[n]) \in Seq(X) /\ Len(Append(u, t[n])) = n
  BY <1>1, <1>2, <1>3
<1>5. \A j \in 1 .. n : Append(u, t[n])[j] = t[j]
  BY <1>1, <1>2, <1>3
<1>6. t = Append(u, t[n])
  BY <1>4, <1>5, SeqEqual
<1> QED BY <1>1, <1>2, <1>3, <1>6

LEMMA SpellEmpty == \A g : Spell(g, <<>>) = <<>>
<1> SUFFICES ASSUME NEW g PROVE Spell(g, <<>>) = <<>>
  OBVIOUS
<1> DEFINE q == [j \in DOMAIN <<>> |-> g[<<>>[j]]]
<1>1. q = <<>>
  OBVIOUS
<1>2. FlattenSeq(<<>>) = <<>>
  BY DEF FlattenSeq
<1> QED BY <1>1, <1>2 DEF Spell

LEMMA SpellConcat ==
  \A X, P, g : Speech(g, X, P) =>
    \A s, t \in Seq(X) : Spell(g, s \o t) = Spell(g, s) \o Spell(g, t)
<1> SUFFICES ASSUME NEW X, NEW P, NEW g, Speech(g, X, P), NEW s \in Seq(X), NEW t \in Seq(X)
             PROVE  Spell(g, s \o t) = Spell(g, s) \o Spell(g, t)
  BY Zenon
<1>0. \A a, b, c \in Seq(P) : (a \o b) \o c = a \o (b \o c)
  BY Assoc, SMTT(30)
<1> DEFINE Splits(v) == Spell(g, s \o v) = Spell(g, s) \o Spell(g, v)
           T == {n \in Nat : \A v \in Seq(X) : Len(v) = n => Splits(v)}
<1>1. Splits(<<>>)
  <2>1. s \o <<>> = s
    BY Unit, Zenon
  <2>2. Spell(g, s) \in Seq(P)
    BY SpellType, Zenon
  <2>3. Spell(g, s) \o <<>> = Spell(g, s)
    BY <2>2, Unit, Zenon
  <2> QED BY <2>1, <2>3, SpellEmpty, Zenon
<1>2. ASSUME NEW u \in Seq(X), NEW x \in X, Splits(u) PROVE Splits(Append(u, x))
  <2>1. s \o Append(u, x) = Append(s \o u, x) /\ s \o u \in Seq(X)
    <3>1. Append(u, x) = u \o <<x>> /\ <<x>> \in Seq(X)
      BY Appended, Zenon
    <3>2. s \o u \in Seq(X)
      BY Joined, Zenon
    <3>3. (s \o u) \o <<x>> = s \o (u \o <<x>>)
      BY <3>1, Assoc, SMTT(30)
    <3>4. Append(s \o u, x) = (s \o u) \o <<x>>
      BY <3>2, Appended, Zenon
    <3> QED BY <3>1, <3>2, <3>3, <3>4, Zenon
  <2>2. Spell(g, Append(s \o u, x)) = Spell(g, s \o u) \o g[x]
    <3>1. \A w \in Seq(X) : Spell(g, Append(w, x)) = Spell(g, w) \o g[x]
      BY SpellAppend
    <3>2. s \o u \in Seq(X)
      BY <2>1
    <3> DEFINE w == s \o u
    <3> HIDE DEF w
    <3>3. w \in Seq(X)
      BY <3>2 DEF w
    <3>4. Spell(g, Append(w, x)) = Spell(g, w) \o g[x]
      BY <3>1, <3>3
    <3> QED BY <3>4 DEF w
  <2>3. Spell(g, Append(u, x)) = Spell(g, u) \o g[x]
    BY SpellAppend, ZenonT(60)
  <2>4. Spell(g, s) \in Seq(P) /\ Spell(g, u) \in Seq(P)
    BY SpellType, Zenon
  <2>5. g[x] \in Seq(P)
    BY Zenon DEF Speech
  <2>6. (Spell(g, s) \o Spell(g, u)) \o g[x] = Spell(g, s) \o (Spell(g, u) \o g[x])
    BY <1>0, <2>4, <2>5
  <2> QED BY <1>2, <2>1, <2>2, <2>3, <2>6, Zenon
<1> HIDE DEF Splits
<1>3. 0 \in T
  <2>1. \A v \in Seq(X) : Len(v) = 0 => v = <<>>
    OBVIOUS
  <2> QED BY <1>1, <2>1
<1>4. ASSUME NEW n \in T PROVE n + 1 \in T
  <2> SUFFICES ASSUME NEW v \in Seq(X), Len(v) = n + 1 PROVE Splits(v)
    OBVIOUS
  <2>1. n \in Nat /\ v # <<>>
    OBVIOUS
  <2>2. PICK u \in Seq(X), x \in X : v = Append(u, x) /\ Len(u) + 1 = Len(v)
    BY <2>1, SplitLast
  <2>3. Len(u) = n
    BY <2>1, <2>2
  <2>4. Splits(u)
    BY <2>3
  <2> QED BY <1>2, <2>2, <2>4, Zenon
<1>5. T = Nat
  <2>1. T \in SUBSET Nat
    OBVIOUS
  <2> HIDE DEF T
  <2> QED BY <1>3, <1>4, <2>1, NumberInduction
<1>6. Len(t) \in T
  <2> HIDE DEF T
  <2> QED BY <1>5
<1>7. Splits(t)
  BY <1>6
<1> QED BY <1>7 DEF Splits

(* A join spells what its parts spell, one after the other. *)
LEMMA SpellFlatten ==
  ASSUME NEW X, NEW P, NEW g, Speech(g, X, P), NEW q \in Seq(Seq(X)),
         NEW r \in Seq(Seq(P)), Len(r) = Len(q), \A i \in 1 .. Len(q) : r[i] = Spell(g, q[i])
  PROVE  Spell(g, FlattenSeq(q)) = FlattenSeq(r)
<1>0. \A a, b \in Seq(X) : Spell(g, a \o b) = Spell(g, a) \o Spell(g, b)
  BY SpellConcat
<1>1. PICK fq \in [0 .. Len(q) -> Seq(X)] :
        /\ fq[0] = <<>>
        /\ \A i \in 1 .. Len(q) : fq[i] = fq[i - 1] \o q[i]
        /\ FlattenSeq(q) = fq[Len(q)]
  BY Flattening
<1>2. PICK fr \in [0 .. Len(r) -> Seq(P)] :
        /\ fr[0] = <<>>
        /\ \A i \in 1 .. Len(r) : fr[i] = fr[i - 1] \o r[i]
        /\ FlattenSeq(r) = fr[Len(r)]
  BY Flattening
<1> DEFINE T == {n \in Nat : n <= Len(q) => Spell(g, fq[n]) = fr[n]}
<1>3. 0 \in T
  <2>1. Spell(g, fq[0]) = fr[0]
    BY <1>1, <1>2, SpellEmpty
  <2> QED BY <2>1
<1>4. ASSUME NEW n \in T PROVE n + 1 \in T
  <2> SUFFICES ASSUME n + 1 <= Len(q) PROVE Spell(g, fq[n + 1]) = fr[n + 1]
    OBVIOUS
  <2>1. n \in 0 .. Len(q) /\ n + 1 \in 1 .. Len(q) /\ (n + 1) - 1 = n /\ Spell(g, fq[n]) = fr[n]
    OBVIOUS
  <2>2. fq[n + 1] = fq[n] \o q[n + 1]
    BY <1>1, <2>1
  <2>3. fq[n] \in Seq(X)
    BY <2>1
  <2>4. q[n + 1] \in Seq(X)
    BY <2>1
  <2>5. fr[n + 1] = fr[n] \o r[n + 1] /\ r[n + 1] = Spell(g, q[n + 1])
    BY <1>2, <2>1
  <2>6. Spell(g, fq[n] \o q[n + 1]) = Spell(g, fq[n]) \o Spell(g, q[n + 1])
    BY <1>0, <2>3, <2>4, Zenon
  <2> QED BY <2>1, <2>2, <2>5, <2>6
<1>5. T = Nat
  <2>1. T \in SUBSET Nat
    OBVIOUS
  <2> HIDE DEF T
  <2> QED BY <1>3, <1>4, <2>1, NumberInduction
<1>6. Len(q) \in T
  <2> HIDE DEF T
  <2> QED BY <1>5
<1> QED BY <1>1, <1>2, <1>6

(* What says nothing spells nothing. *)
LEMMA SpellSilent ==
  ASSUME NEW X, NEW P, NEW g, Speech(g, X, P), NEW s \in Seq(X),
         \A j \in 1 .. Len(s) : g[s[j]] = <<>>
  PROVE  Spell(g, s) = <<>>
<1> DEFINE q == [j \in DOMAIN s |-> g[s[j]]]
<1>1. q = [j \in DOMAIN s |-> g[s[j]]] /\ Spell(g, s) = FlattenSeq(q)
  BY DEF Spell
<1> HIDE DEF q
<1>2. q \in Seq(Seq(P)) /\ Len(q) = Len(s) /\ \A j \in 1 .. Len(s) : q[j] = g[s[j]]
  BY <1>1, Words
<1>3. \A i \in 1 .. Len(q) : q[i] \in {<<>>}
  BY <1>2
<1>4. {<<>>} \in SUBSET Seq(P) /\ \A a, b \in {<<>>} : a \o b \in {<<>>}
  OBVIOUS
<1>5. FlattenSeq(q) \in {<<>>}
  BY <1>2, <1>3, <1>4, FlattenStays
<1> QED BY <1>1, <1>5

-----------------------------------------------------------------------------
(* Types.                                                                  *)

TypeInv ==
  /\ chat \in BOOLEAN
  /\ opts \in Options
  /\ history \in Seq(Messages)
  /\ \A c \in DOMAIN conts : \E thought \in Thoughts : conts[c] = <<thought>>

LEMMA InitType == Init => TypeInv
<1> SUFFICES ASSUME Init PROVE TypeInv
  OBVIOUS
<1>1. history = <<>> /\ conts = <<>> /\ chat \in BOOLEAN /\ opts \in Options
  BY Zenon DEF Init
<1>2. DOMAIN conts = {} /\ history \in Seq(Messages)
  BY <1>1
<1> QED BY <1>1, <1>2 DEF TypeInv

LEMMA WrittenTurn ==
  ASSUME NEW role \in {"user", "assistant", "system"}, NEW form \in {"string", "list"},
         NEW bs \in Seq(Blocks)
  PROVE  [role |-> role, content |-> [form |-> form, blocks |-> bs]] \in Messages
BY DEF Messages, Contents

(* The history grows by a turn. *)
LEMMA TurnAdded ==
  ASSUME TypeInv, NEW m \in Messages, history' = Append(history, m), UNCHANGED <<chat, opts>>,
         (\A c \in DOMAIN conts : \E thought \in Thoughts : conts[c] = <<thought>>)'
  PROVE  TypeInv'
<1>1. history \in Seq(Messages)
  BY DEF TypeInv
<1>2. history' \in Seq(Messages)
  BY <1>1
<1> QED BY <1>2 DEF TypeInv

LEMMA NextType == TypeInv /\ [Next]_vars => TypeInv'
<1> SUFFICES ASSUME TypeInv, [Next]_vars PROVE TypeInv'
  OBVIOUS
<1>a. /\ history \in Seq(Messages) /\ opts \in Options /\ chat \in BOOLEAN
      /\ \A c \in DOMAIN conts : \E thought \in Thoughts : conts[c] = <<thought>>
  BY DEF TypeInv
<1>1. CASE ClientWrites
  <2>1. PICK role \in {"user", "assistant", "system"}, form \in {"string", "list"},
             bs \in {<<>>} \cup {<<b>> : b \in Blocks} :
          history' = Append(history, [role |-> role, content |-> [form |-> form, blocks |-> bs]])
    BY <1>1 DEF ClientWrites
  <2>2. bs \in Seq(Blocks)
    <3>1. CASE bs = <<>>
      BY <3>1
    <3>2. ASSUME NEW b \in Blocks, bs = <<b>> PROVE bs \in Seq(Blocks)
      BY <3>2
    <3> QED BY <3>1, <3>2
  <2> DEFINE m == [role |-> role, content |-> [form |-> form, blocks |-> bs]]
  <2>3. m \in Messages
    BY <2>2, WrittenTurn
  <2>4. conts' = conts /\ UNCHANGED <<chat, opts>>
    BY <1>1 DEF ClientWrites
  <2>5. history' = Append(history, m)
    BY <2>1
  <2> HIDE DEF m
  <2> QED BY <1>a, <2>3, <2>4, <2>5, TurnAdded
<1>2. CASE ClientExtends
  <2> DEFINE n == Len(history)
  <2>1. history # <<>> /\ n \in Nat /\ n \in DOMAIN history /\ DOMAIN history = 1 .. n
    BY <1>2, <1>a, EmptySeq DEF ClientExtends
  <2>2. PICK b \in Blocks :
          history' = [history EXCEPT ![n].content.blocks = Append(@, b)]
    BY <1>2 DEF ClientExtends
  <2>3. conts' = conts /\ UNCHANGED <<chat, opts>>
    BY <1>2 DEF ClientExtends
  <2> DEFINE bs == Append(history[n].content.blocks, b)
             m == [history[n] EXCEPT !.content.blocks = bs]
  <2>4. history[n] \in Messages /\ bs \in Seq(Blocks)
    <3>1. history[n] \in Messages
      BY <1>a, <2>1
    <3>2. history[n].content.blocks \in Seq(Blocks)
      <4> HIDE DEF n
      <4>1. history[n].content \in Contents
        BY <3>1 DEF Messages
      <4> QED BY <4>1 DEF Contents
    <3> HIDE DEF n
    <3> QED BY <3>1, <3>2, SMTT(30)
  <2>5. history' = [history EXCEPT ![n] = m]
    BY <2>2
  <2>6. m \in Messages
    <3> HIDE DEF bs
    <3> QED BY <2>4 DEF Messages, Contents
  <2> HIDE DEF m, n
  <2>7. history' \in Seq(Messages)
    BY <1>a, <2>1, <2>5, <2>6
  <2> QED BY <1>a, <2>3, <2>7 DEF TypeInv
<1>3. CASE UpstreamAnswers
  <2>1. PICK answer \in Answers :
          LET content == [form |-> "list", blocks |-> answer] IN
          /\ history' = Append(history, [role |-> "assistant", content |-> content])
          /\ \/ conts' = conts
             \/ \E thought \in Thoughts :
                  conts' = [c \in DOMAIN conts \cup {content} |->
                              IF c = content THEN <<thought>> ELSE conts[c]]
    BY <1>3 DEF UpstreamAnswers
  <2>2. answer \in Seq(Blocks)
    <3>1. TextBlocks \subseteq Blocks /\ ToolUses \subseteq Blocks
      BY DEF Blocks
    <3>2. CASE answer = <<>>
      BY <3>2
    <3>3. ASSUME NEW b \in Blocks, answer = <<b>> PROVE answer \in Seq(Blocks)
      BY <3>3
    <3>4. ASSUME NEW b \in Blocks, NEW c \in Blocks, answer = <<b, c>> PROVE answer \in Seq(Blocks)
      BY <3>4
    <3>5. \/ answer = <<>>
          \/ \E b \in TextBlocks \cup ToolUses : answer = <<b>>
          \/ \E b \in TextBlocks \cup ToolUses, c \in ToolUses : answer = <<b, c>>
          \/ \E b \in TextBlocks, c \in ToolUses : answer = <<c, b>>
      <4> DEFINE D == {<<c, b>> : b \in TextBlocks, c \in ToolUses}
      <4>1. \/ answer = <<>>
            \/ answer \in {<<b>> : b \in TextBlocks \cup ToolUses}
            \/ answer \in {<<b, c>> : b \in TextBlocks \cup ToolUses, c \in ToolUses}
            \/ answer \in (IF chat THEN {} ELSE D)
        BY DEF Answers
      <4>2. answer \in (IF chat THEN {} ELSE D) => answer \in D
        <5> HIDE DEF D
        <5> QED BY <1>a
      <4> QED BY <4>1, <4>2
    <3> QED BY <3>1, <3>2, <3>3, <3>4, <3>5, Zenon
  <2> DEFINE content == [form |-> "list", blocks |-> answer]
             m == [role |-> "assistant", content |-> content]
  <2>3. m \in Messages
    BY <2>2, WrittenTurn
  <2>4. history' = Append(history, m)
    BY <2>1
  <2>5. \A c \in DOMAIN conts' : \E thought \in Thoughts : conts'[c] = <<thought>>
    <3>1. CASE conts' = conts
      BY <1>a, <3>1
    <3>2. ASSUME NEW thought \in Thoughts,
                 conts' = [c \in DOMAIN conts \cup {content} |->
                             IF c = content THEN <<thought>> ELSE conts[c]]
          PROVE  \A c \in DOMAIN conts' : \E t \in Thoughts : conts'[c] = <<t>>
      <4> HIDE DEF content
      <4> QED BY <1>a, <3>2
    <3> QED BY <2>1, <3>1, <3>2
  <2>6. UNCHANGED <<chat, opts>>
    BY <1>3 DEF UpstreamAnswers
  <2> HIDE DEF m
  <2> QED BY <2>3, <2>4, <2>5, <2>6, TurnAdded
<1>4. CASE Forget
  <2>1. PICK content \in DOMAIN conts : conts' = Restrict(conts, DOMAIN conts \ {content})
    BY <1>4 DEF Forget
  <2>2. UNCHANGED <<chat, opts, history>>
    BY <1>4 DEF Forget
  <2>3. \A c \in DOMAIN conts' : \E thought \in Thoughts : conts'[c] = <<thought>>
    BY <1>a, <2>1 DEF Restrict
  <2> QED BY <2>2, <2>3 DEF TypeInv
<1>5. CASE UNCHANGED vars
  BY <1>5 DEF vars, TypeInv
<1> QED BY <1>1, <1>2, <1>3, <1>4, <1>5 DEF Next

LEMMA TypeHolds == Spec => []TypeInv
BY InitType, NextType, PTL DEF Spec

-----------------------------------------------------------------------------
(* The items of a turn.                                                    *)

BlockAt(i, k) == history[i].content.blocks[k]

Vals == Texts \cup Ids \cup {"error", "image", "document", "file", "result", "failed"}
Parts == [kind : {"text", "image", "file", "error", "call", "result"}, val : Vals]
Items == [turn : Nat,
          type : {"message", "function_call", "function_call_output", "reasoning", "chat_reasoning"},
          role : {"user", "assistant", "system", ""},
          id : Ids \cup Thoughts \cup {""},
          parts : Seq(Parts)]

(* A turn with a block that only a model with vision can take. *)
Sees(i) == \E k \in DOMAIN history[i].content.blocks : NeedsVision(BlockAt(i, k))

ContentParts(i) == {p \in Parts : p.kind \in {"image", "file"} => Sees(i)}

(* What an item of turn i may be: only a message holds files. *)
TurnItems(i) ==
  {x \in Items :
     /\ x.turn = i
     /\ x.parts \in Seq(ContentParts(i))
     /\ x.type # "message" => PartsConvert(x)
     /\ \/ x.type = "message" /\ x.role = history[i].role
        \/ x.type = "function_call" /\ x.id \in CallsOf(i)
        \/ x.type = "function_call_output" /\ x.id \in ResultIds(history[i].content.blocks)}

Collected(i) == [out : Seq(TurnItems(i)), content : Seq(ContentParts(i))]

(* The blocks there are. *)
LEMMA BlockShapes ==
  ASSUME NEW b \in Blocks
  PROVE  /\ b.type \in {"text", "image", "document", "tool_use", "tool_result", "thinking"}
         /\ b.type = "text" => b.text \in Texts
         /\ b.type = "image" => b.source \in {"ok", "bad"}
         /\ b.type = "document" => b.source \in {"text", "file"}
         /\ b.type = "tool_use" => b.id \in Ids
         /\ b.type = "tool_result" => b.id \in Ids /\ b.body \in {"none", "text", "image", "failed"}
BY DEF Blocks, Images, Documents, ToolUses, ToolResults, TextBlocks

LEMMA TurnShape ==
  ASSUME TypeInv, NEW i \in DOMAIN history
  PROVE  /\ i \in Nat \ {0} /\ i \in 1 .. Len(history)
         /\ history[i].role \in {"user", "assistant", "system"}
         /\ history[i].content.blocks \in Seq(Blocks)
         /\ \A k \in DOMAIN history[i].content.blocks : BlockAt(i, k) \in Blocks
<1>1. history \in Seq(Messages)
  BY DEF TypeInv
<1>2. history[i] \in Messages /\ i \in Nat \ {0} /\ i \in 1 .. Len(history)
  BY <1>1
<1>3. history[i].content \in Contents /\ history[i].role \in {"user", "assistant", "system"}
  BY <1>2 DEF Messages
<1>4. history[i].content.blocks \in Seq(Blocks)
  BY <1>3 DEF Contents
<1>5. \A k \in DOMAIN history[i].content.blocks : BlockAt(i, k) \in Blocks
  BY <1>4 DEF BlockAt
<1> QED BY <1>2, <1>3, <1>4, <1>5

LEMMA PartShape ==
  ASSUME NEW kind \in {"text", "image", "file", "error", "call", "result"}, NEW val \in Vals
  PROVE  /\ Part(kind, val) \in Parts
         /\ Part(kind, val).kind = kind
         /\ Part(kind, val).val = val
BY DEF Part, Parts

LEMMA ContentPartFits ==
  ASSUME TypeInv, NEW i \in DOMAIN history, NEW k \in DOMAIN history[i].content.blocks,
         BlockAt(i, k).type \in {"text", "image", "document"}
  PROVE  ContentPart(BlockAt(i, k)) \in ContentParts(i)
<1> DEFINE b == BlockAt(i, k)
<1>1. b \in Blocks
  BY TurnShape
<1>2. NeedsVision(b) => Sees(i)
  BY DEF Sees
<1> HIDE DEF b
<1>3. b.type \in {"text", "image", "document"}
  BY DEF b
<1>4. CASE b.type = "text"
  <2>1. ContentPart(b) = Part("text", b.text) /\ b.text \in Vals
    BY <1>1, <1>4, BlockShapes DEF ContentPart, Vals
  <2>2. ContentPart(b) \in Parts /\ ContentPart(b).kind = "text"
    BY <2>1, PartShape
  <2> QED BY <2>2 DEF ContentParts, b
<1>5. CASE b.type = "image"
  <2>1. ContentPart(b) = Part("image", "image") \/ ContentPart(b) = Part("error", "error")
    BY <1>1, <1>5, BlockShapes DEF ContentPart, Failed
  <2>2. ContentPart(b) \in Parts
    BY <2>1, PartShape DEF Vals
  <2>3. Sees(i)
    BY <1>2, <1>5 DEF NeedsVision
  <2> QED BY <2>2, <2>3 DEF ContentParts, b
<1>6. CASE b.type = "document"
  <2>1. ContentPart(b) = Part("text", "document") \/ ContentPart(b) = Part("file", "file")
    BY <1>1, <1>6, BlockShapes DEF ContentPart
  <2>2. ContentPart(b) \in Parts
    BY <2>1, PartShape DEF Vals
  <2>3. Sees(i)
    BY <1>2, <1>6 DEF NeedsVision
  <2> QED BY <2>2, <2>3 DEF ContentParts, b
<1> QED BY <1>3, <1>4, <1>5, <1>6

LEMMA ResultFits ==
  ASSUME TypeInv, NEW i \in DOMAIN history, NEW k \in DOMAIN history[i].content.blocks,
         BlockAt(i, k).type = "tool_result"
  PROVE  ToolResultToResponsesOutput(BlockAt(i, k)) \in Seq(ContentParts(i))
<1> DEFINE b == BlockAt(i, k)
<1>1. b \in Blocks
  BY TurnShape
<1>2. NeedsVision(b) => Sees(i)
  BY DEF Sees
<1> HIDE DEF b
<1>3. b.type = "tool_result" /\ b.body \in {"none", "text", "image", "failed"}
  BY <1>1, BlockShapes DEF b
<1>4. Part("text", "result") \in ContentParts(i) /\ Part("text", "failed") \in ContentParts(i)
  <2>1. Part("text", "result") \in Parts /\ Part("text", "result").kind = "text"
    BY PartShape DEF Vals
  <2>2. Part("text", "failed") \in Parts /\ Part("text", "failed").kind = "text"
    BY PartShape DEF Vals
  <2> QED BY <2>1, <2>2 DEF ContentParts
<1>5. b.body \in {"image", "failed"} => Part("image", "image") \in ContentParts(i)
  <2>1. Part("image", "image") \in Parts
    BY PartShape DEF Vals
  <2>2. b.body \in {"image", "failed"} => Sees(i)
    BY <1>2, <1>3 DEF NeedsVision, NestedContentNeedsVision
  <2> QED BY <2>1, <2>2 DEF ContentParts
<1> DEFINE C == ContentParts(i)
           r == Part("text", "result")
           f == Part("text", "failed")
           m == Part("image", "image")
<1>6. \/ ToolResultToResponsesOutput(b) = <<>>
      \/ ToolResultToResponsesOutput(b) = <<r>>
      \/ ToolResultToResponsesOutput(b) = <<r, m>> /\ b.body = "image"
      \/ ToolResultToResponsesOutput(b) = <<f, r, m>> /\ b.body = "failed"
  BY <1>3 DEF ToolResultToResponsesOutput
<1>7. r \in C /\ f \in C /\ (b.body \in {"image", "failed"} => m \in C)
  BY <1>4, <1>5
<1> HIDE DEF C, r, f, m
<1>8. ToolResultToResponsesOutput(b) \in Seq(C)
  <2>1. <<>> \in Seq(C) /\ <<r>> \in Seq(C)
    BY <1>7
  <2>2. CASE b.body \in {"image", "failed"}
    <3>1. m \in C
      BY <1>7, <2>2
    <3>2. <<r, m>> \in Seq(C)
      BY <1>7, <3>1
    <3>3. <<f, r, m>> \in Seq(C)
      BY <1>7, <3>1
    <3> QED BY <1>6, <2>1, <3>2, <3>3, Zenon
  <2>3. CASE ~(b.body \in {"image", "failed"})
    <3>1. ToolResultToResponsesOutput(b) = <<>> \/ ToolResultToResponsesOutput(b) = <<r>>
      BY <1>6, <2>3
    <3> QED BY <2>1, <3>1, Zenon
  <2> QED BY <2>2, <2>3
<1> QED BY <1>8 DEF C, b

LEMMA ResultHasNoFile ==
  ASSUME NEW b \in Blocks, b.type = "tool_result"
  PROVE  \A k \in DOMAIN ToolResultToResponsesOutput(b) :
           ToolResultToResponsesOutput(b)[k].kind # "file"
<1> DEFINE o == ToolResultToResponsesOutput(b)
           r == Part("text", "result")
           f == Part("text", "failed")
           m == Part("image", "image")
<1>1. b.body \in {"none", "text", "image", "failed"}
  BY BlockShapes
<1>2. o = <<>> \/ o = <<r>> \/ o = <<r, m>> \/ o = <<f, r, m>>
  BY <1>1 DEF ToolResultToResponsesOutput
<1>3. r.kind # "file" /\ f.kind # "file" /\ m.kind # "file"
  BY DEF Part
<1> HIDE DEF o, r, f, m
<1>4. CASE o = <<>> \/ o = <<r>>
  <2>1. \A k \in DOMAIN o : o[k] = r
    BY <1>4
  <2> QED BY <1>3, <2>1 DEF o
<1>5. CASE o = <<r, m>>
  <2>1. \A k \in DOMAIN o : o[k] = r \/ o[k] = m
    BY <1>5
  <2> QED BY <1>3, <2>1 DEF o
<1>6. CASE o = <<f, r, m>>
  <2>1. \A k \in DOMAIN o : o[k] = f \/ o[k] = r \/ o[k] = m
    BY <1>6
  <2> QED BY <1>3, <2>1 DEF o
<1> QED BY <1>2, <1>4, <1>5, <1>6

LEMMA ItemShape ==
  ASSUME NEW i, NEW type, NEW role, NEW id, NEW parts
  PROVE  /\ Item(i, type, role, id, parts).turn = i
         /\ Item(i, type, role, id, parts).type = type
         /\ Item(i, type, role, id, parts).role = role
         /\ Item(i, type, role, id, parts).id = id
         /\ Item(i, type, role, id, parts).parts = parts
BY DEF Item

LEMMA ItemType ==
  ASSUME NEW i \in Nat,
         NEW type \in {"message", "function_call", "function_call_output", "reasoning",
                       "chat_reasoning"},
         NEW role \in {"user", "assistant", "system", ""},
         NEW id \in Ids \cup Thoughts \cup {""}, NEW parts \in Seq(Parts)
  PROVE  Item(i, type, role, id, parts) \in Items
BY DEF Item, Items

LEMMA PartsFit == \A i : ContentParts(i) \subseteq Parts
BY DEF ContentParts

LEMMA PartSeqsFit ==
  ASSUME NEW i, NEW s \in Seq(ContentParts(i))
  PROVE  s \in Seq(Parts)
BY PartsFit, SeqMonotonic

(* The items AddBlock and FlushMessage make. *)
LEMMA MessageFits ==
  ASSUME TypeInv, NEW i \in DOMAIN history, NEW parts \in Seq(ContentParts(i))
  PROVE  Item(i, "message", history[i].role, "", parts) \in TurnItems(i)
<1>1. Item(i, "message", history[i].role, "", parts) \in Items
  BY TurnShape, ItemType, PartSeqsFit
<1> DEFINE x == Item(i, "message", history[i].role, "", parts)
<1>2. x.turn = i /\ x.parts = parts /\ x.type = "message" /\ x.role = history[i].role
  BY DEF Item
<1> HIDE DEF x
<1>3. x \in TurnItems(i)
  BY <1>1, <1>2 DEF TurnItems, x
<1> QED BY <1>3 DEF x

LEMMA CallFits ==
  ASSUME TypeInv, NEW i \in DOMAIN history, NEW k \in DOMAIN history[i].content.blocks,
         BlockAt(i, k).type = "tool_use"
  PROVE  Item(i, "function_call", "", BlockAt(i, k).id, <<>>) \in TurnItems(i)
<1> DEFINE b == BlockAt(i, k)
<1>1. b.id \in Ids /\ b.id \in CallsOf(i)
  <2>1. b \in Blocks
    BY TurnShape
  <2>2. b.id \in Ids
    BY <2>1, BlockShapes
  <2>3. b.id \in CallsOf(i)
    BY DEF BlockAt, CallsOf
  <2> QED BY <2>2, <2>3
<1> HIDE DEF b
<1>2. <<>> \in Seq(Parts) /\ <<>> \in Seq(ContentParts(i))
  OBVIOUS
<1>3. Item(i, "function_call", "", b.id, <<>>) \in Items
  BY <1>1, <1>2, TurnShape, ItemType
<1> DEFINE x == Item(i, "function_call", "", b.id, <<>>)
<1>4. x.turn = i /\ x.parts = <<>> /\ x.type = "function_call" /\ x.id = b.id
  BY DEF Item
<1> HIDE DEF x
<1>5. PartsConvert(x)
  BY <1>4 DEF PartsConvert
<1>6. x \in TurnItems(i)
  BY <1>1, <1>2, <1>3, <1>4, <1>5 DEF TurnItems, x
<1> QED BY <1>6 DEF b, x

LEMMA OutputFits ==
  ASSUME TypeInv, NEW i \in DOMAIN history, NEW k \in DOMAIN history[i].content.blocks,
         BlockAt(i, k).type = "tool_result"
  PROVE  Item(i, "function_call_output", "", BlockAt(i, k).id,
              ToolResultToResponsesOutput(BlockAt(i, k))) \in TurnItems(i)
<1> DEFINE b == BlockAt(i, k)
           r == ToolResultToResponsesOutput(b)
<1>1. b.id \in Ids /\ b.id \in ResultIds(history[i].content.blocks)
  <2>1. b \in Blocks
    BY TurnShape
  <2>2. b.id \in Ids
    BY <2>1, BlockShapes
  <2>3. b.id \in ResultIds(history[i].content.blocks)
    BY DEF BlockAt, ResultIds
  <2> QED BY <2>2, <2>3
<1>2. r \in Seq(ContentParts(i))
  BY ResultFits
<1>a. \A j \in DOMAIN r : r[j].kind # "file"
  BY TurnShape, ResultHasNoFile
<1> HIDE DEF r, b
<1>3. r \in Seq(Parts)
  BY <1>2, PartSeqsFit
<1>4. Item(i, "function_call_output", "", b.id, r) \in Items
  BY <1>1, <1>3, TurnShape, ItemType
<1> DEFINE x == Item(i, "function_call_output", "", b.id, r)
<1>5. x.turn = i /\ x.parts = r /\ x.type = "function_call_output" /\ x.id = b.id
  BY DEF Item
<1> HIDE DEF x
<1>6. PartsConvert(x)
  BY <1>5, <1>a DEF PartsConvert
<1>7. x \in TurnItems(i)
  BY <1>1, <1>2, <1>4, <1>5, <1>6 DEF TurnItems, x
<1> QED BY <1>7 DEF b, r, x

LEMMA FlushFits ==
  ASSUME TypeInv, NEW i \in DOMAIN history, NEW s \in Collected(i)
  PROVE  /\ FlushMessage(i, s) \in Collected(i)
         /\ FlushMessage(i, s).content = <<>>
         /\ s.content = <<>> => FlushMessage(i, s).out = s.out
         /\ s.content # <<>> => FlushMessage(i, s).out =
              Append(s.out, Item(i, "message", history[i].role, "", s.content))
<1>1. s.out \in Seq(TurnItems(i)) /\ s.content \in Seq(ContentParts(i))
  BY DEF Collected
<1> DEFINE x == Item(i, "message", history[i].role, "", s.content)
<1>2. x \in TurnItems(i)
  BY <1>1, MessageFits
<1>3. FlushMessage(i, s) = [out     |-> IF s.content = <<>> THEN s.out ELSE Append(s.out, x),
                            content |-> <<>>]
  BY DEF FlushMessage
<1> HIDE DEF x
<1>4. Append(s.out, x) \in Seq(TurnItems(i)) /\ <<>> \in Seq(ContentParts(i))
  BY <1>1, <1>2
<1>5. FlushMessage(i, s) \in Collected(i)
  BY <1>1, <1>3, <1>4 DEF Collected
<1>6. /\ FlushMessage(i, s).content = <<>>
      /\ s.content = <<>> => FlushMessage(i, s).out = s.out
      /\ s.content # <<>> => FlushMessage(i, s).out = Append(s.out, x)
  BY <1>3
<1> QED BY <1>5, <1>6 DEF x

(* AddBlock, block by block. *)
LEMMA AddBlockSays ==
  ASSUME TypeInv, NEW i \in DOMAIN history, NEW k \in DOMAIN history[i].content.blocks,
         NEW s \in Collected(i), NEW b, b = BlockAt(i, k)
  PROVE  /\ AddBlock(i, s, b) \in Collected(i)
         /\ b.type \in {"text", "image", "document"} =>
              /\ AddBlock(i, s, b).out = s.out
              /\ AddBlock(i, s, b).content = Append(s.content, ContentPart(b))
         /\ b.type = "tool_use" =>
              /\ AddBlock(i, s, b).out = Append(FlushMessage(i, s).out,
                                                Item(i, "function_call", "", b.id, <<>>))
              /\ AddBlock(i, s, b).content = <<>>
         /\ b.type = "tool_result" =>
              /\ AddBlock(i, s, b).out =
                   Append(FlushMessage(i, s).out,
                          Item(i, "function_call_output", "", b.id, ToolResultToResponsesOutput(b)))
              /\ AddBlock(i, s, b).content = <<>>
         /\ b.type = "thinking" => AddBlock(i, s, b) = s
<1>1. s.out \in Seq(TurnItems(i)) /\ s.content \in Seq(ContentParts(i))
  BY DEF Collected
<1>2. b.type \in {"text", "image", "document", "tool_use", "tool_result", "thinking"}
  BY TurnShape, BlockShapes
<1> DEFINE fl == FlushMessage(i, s)
<1>3. fl \in Collected(i) /\ fl.out \in Seq(TurnItems(i)) /\ fl.content = <<>>
  BY FlushFits DEF Collected
<1> HIDE DEF fl
<1>4. CASE b.type \in {"text", "image", "document"}
  <2>1. ContentPart(b) \in ContentParts(i)
    BY <1>4, ContentPartFits
  <2>2. AddBlock(i, s, b) = [s EXCEPT !.content = Append(@, ContentPart(b))]
    BY <1>4 DEF AddBlock
  <2>3. Append(s.content, ContentPart(b)) \in Seq(ContentParts(i))
    BY <1>1, <2>1
  <2> QED BY <1>1, <1>4, <2>2, <2>3 DEF Collected
<1>5. CASE b.type = "tool_use"
  <2> DEFINE x == Item(i, "function_call", "", b.id, <<>>)
  <2>1. x \in TurnItems(i)
    BY <1>5, CallFits
  <2>2. AddBlock(i, s, b) = [fl EXCEPT !.out = Append(@, x)]
    BY <1>5 DEF AddBlock, fl
  <2> HIDE DEF x
  <2>3. Append(fl.out, x) \in Seq(TurnItems(i))
    BY <1>3, <2>1
  <2>4. /\ AddBlock(i, s, b) \in Collected(i)
        /\ AddBlock(i, s, b).out = Append(fl.out, x)
        /\ AddBlock(i, s, b).content = <<>>
    BY <1>3, <2>2, <2>3 DEF Collected
  <2> QED BY <1>5, <2>4 DEF x, fl
<1>6. CASE b.type = "tool_result"
  <2> DEFINE x == Item(i, "function_call_output", "", b.id, ToolResultToResponsesOutput(b))
  <2>1. x \in TurnItems(i)
    BY <1>6, OutputFits
  <2>2. AddBlock(i, s, b) = [fl EXCEPT !.out = Append(@, x)]
    BY <1>6 DEF AddBlock, fl
  <2> HIDE DEF x
  <2>3. Append(fl.out, x) \in Seq(TurnItems(i))
    BY <1>3, <2>1
  <2>4. /\ AddBlock(i, s, b) \in Collected(i)
        /\ AddBlock(i, s, b).out = Append(fl.out, x)
        /\ AddBlock(i, s, b).content = <<>>
    BY <1>3, <2>2, <2>3 DEF Collected
  <2> QED BY <1>6, <2>4 DEF x, fl
<1>7. CASE b.type = "thinking"
  <2>1. AddBlock(i, s, b) = s
    BY <1>7 DEF AddBlock
  <2> QED BY <1>7, <2>1
<1> QED BY <1>2, <1>4, <1>5, <1>6, <1>7

(* BlocksToInput, step by step. *)
LEMMA BlockSteps ==
  ASSUME TypeInv, NEW i \in DOMAIN history
  PROVE  \E f \in [0 .. Len(history[i].content.blocks) -> Collected(i)] :
           /\ f[0] = [out |-> <<>>, content |-> <<>>]
           /\ \A k \in 1 .. Len(history[i].content.blocks) :
                f[k] = AddBlock(i, f[k - 1], BlockAt(i, k))
           /\ BlocksToInput(i) = FlushMessage(i, f[Len(history[i].content.blocks)]).out
<1> DEFINE bs == history[i].content.blocks
           N == Len(bs)
           a == [out |-> <<>>, content |-> <<>>]
           F == [k \in 1 .. N |-> [s \in Collected(i) |-> AddBlock(i, s, BlockAt(i, k))]]
<1>1. bs \in Seq(Blocks) /\ N \in Nat /\ DOMAIN bs = 1 .. N
  <2>1. bs \in Seq(Blocks)
    BY TurnShape
  <2> QED BY <2>1
<1>2. a \in Collected(i)
  BY DEF Collected
<1>3. \A k \in 1 .. N : \A s \in Collected(i) : AddBlock(i, s, BlockAt(i, k)) \in Collected(i)
  <2> TAKE k \in 1 .. N
  <2> TAKE s \in Collected(i)
  <2>1. k \in DOMAIN history[i].content.blocks
    BY <1>1
  <2> QED BY <2>1, AddBlockSays
<1>4. F \in [1 .. N -> [Collected(i) -> Collected(i)]]
  BY <1>3
<1>5. \A k \in 1 .. N : \A s \in Collected(i) : F[k][s] = AddBlock(i, s, BlockAt(i, k))
  OBVIOUS
<1>6. BlocksToInput(i) =
        FlushMessage(i, (CHOOSE g : g = [n \in 0 .. N |->
          IF n = 0 THEN a ELSE AddBlock(i, g[n - 1], BlockAt(i, n))])[N]).out
  BY DEF BlocksToInput, BlockAt
<1> HIDE DEF F, N, bs, a
<1>7. PICK f \in [0 .. N -> Collected(i)] : f[0] = a /\ \A k \in 1 .. N : f[k] = F[k][f[k - 1]]
  <2>1. N \in Nat
    BY <1>1
  <2>2. PICK f : Follows(f, Collected(i), N, a, F)
    BY <1>2, <1>4, <2>1, Recursion
  <2> QED BY <2>2 DEF Follows
<1>8. \A k \in 1 .. N : f[k] = AddBlock(i, f[k - 1], BlockAt(i, k))
  <2> TAKE k \in 1 .. N
  <2>1. k - 1 \in 0 .. N
    BY <1>1
  <2> QED BY <1>5, <1>7, <2>1
<1> DEFINE Fits(g) == g = [n \in 0 .. N |-> IF n = 0 THEN a ELSE AddBlock(i, g[n - 1], BlockAt(i, n))]
           c == CHOOSE g : Fits(g)
<1>9. Fits(f)
  <2>1. \A n \in 0 .. N : f[n] = IF n = 0 THEN a ELSE AddBlock(i, f[n - 1], BlockAt(i, n))
    <3> TAKE n \in 0 .. N
    <3>1. CASE n = 0 BY <1>7, <3>1
    <3>2. CASE n # 0
      <4>1. n \in 1 .. N
        BY <1>1, <3>2
      <4> QED BY <1>8, <3>2, <4>1
    <3> QED BY <3>1, <3>2
  <2> QED BY <2>1
<1>10. Fits(c)
  <2> HIDE DEF Fits
  <2> QED BY <1>9, Zenon
<1>11. BlocksToInput(i) = FlushMessage(i, c[N]).out
  BY <1>6
<1> HIDE DEF c
<1> DEFINE T == {n \in Nat : n <= N => c[n] = f[n]}
<1>12. 0 \in T
  <2>1. 0 \in 0 .. N
    BY <1>1
  <2>2. c[0] = a
    BY <1>10, <2>1
  <2> QED BY <1>7, <2>2
<1>13. ASSUME NEW n \in T PROVE n + 1 \in T
  <2> SUFFICES ASSUME n + 1 <= N PROVE c[n + 1] = f[n + 1]
    OBVIOUS
  <2>1. n \in Nat /\ n + 1 \in 1 .. N /\ n + 1 \in 0 .. N /\ n + 1 # 0 /\ (n + 1) - 1 = n /\ c[n] = f[n]
    BY <1>1
  <2>2. c[n + 1] = AddBlock(i, c[n], BlockAt(i, n + 1))
    BY <1>10, <2>1
  <2>3. f[n + 1] = AddBlock(i, f[n], BlockAt(i, n + 1))
    BY <1>8, <2>1
  <2> QED BY <2>1, <2>2, <2>3
<1>14. T = Nat
  <2>1. T \in SUBSET Nat
    OBVIOUS
  <2> HIDE DEF T
  <2> QED BY <1>12, <1>13, <2>1, NumberInduction
<1>15. c[N] = f[N]
  <2>1. N \in T
    <3> HIDE DEF T
    <3> QED BY <1>1, <1>14
  <2> QED BY <1>1, <2>1
<1>16. BlocksToInput(i) = FlushMessage(i, f[N]).out
  BY <1>11, <1>15
<1> QED BY <1>7, <1>8, <1>16 DEF N, bs, a

LEMMA BlocksTyped ==
  ASSUME TypeInv, NEW i \in DOMAIN history
  PROVE  BlocksToInput(i) \in Seq(TurnItems(i))
<1> DEFINE N == Len(history[i].content.blocks)
<1>1. N \in Nat
  <2>1. history[i].content.blocks \in Seq(Blocks)
    BY TurnShape
  <2> QED BY <2>1
<1>2. PICK f \in [0 .. N -> Collected(i)] : BlocksToInput(i) = FlushMessage(i, f[N]).out
  BY BlockSteps
<1> HIDE DEF N
<1>3. f[N] \in Collected(i)
  BY <1>1
<1>4. FlushMessage(i, f[N]) \in Collected(i)
  BY <1>3, FlushFits
<1> QED BY <1>2, <1>4 DEF Collected

(* What is remembered for a turn is one item. *)
LEMMA ReasoningIs ==
  ASSUME TypeInv, NEW i \in DOMAIN history, NEW type
  PROVE  \/ Remembered(i) = <<>> /\ Reasoning(i, type) = <<>>
         \/ /\ history[i].role = "assistant"
            /\ \E t \in Thoughts : /\ Remembered(i) = <<t>>
                                   /\ Reasoning(i, type) = <<Item(i, type, "", t, <<>>)>>
<1>1. CASE history[i].role = "assistant" /\ history[i].content \in DOMAIN conts
  <2>1. Remembered(i) = conts[history[i].content]
    BY <1>1 DEF Remembered
  <2>2. PICK t \in Thoughts : Remembered(i) = <<t>>
    BY <1>1, <2>1 DEF TypeInv
  <2>3. Reasoning(i, type) = [j \in DOMAIN <<t>> |-> Item(i, type, "", <<t>>[j], <<>>)]
    BY <2>2 DEF Reasoning
  <2> DEFINE x == Item(i, type, "", t, <<>>)
             g == Reasoning(i, type)
  <2>4. DOMAIN <<t>> = 1 .. 1 /\ <<t>>[1] = t
    OBVIOUS
  <2>5. g = [j \in 1 .. 1 |-> x]
    <3>1. \A j \in 1 .. 1 : Item(i, type, "", <<t>>[j], <<>>) = x
      <4> TAKE j \in 1 .. 1
      <4>1. j = 1
        OBVIOUS
      <4>2. <<t>>[j] = t
        BY <4>1
      <4> QED BY <4>2, Zenon
    <3> HIDE DEF x
    <3> QED BY <2>3, <2>4, <3>1
  <2> HIDE DEF x, g
  <2>6. g = <<x>>
    BY <2>5
  <2> QED BY <1>1, <2>2, <2>6 DEF x, g
<1>2. CASE ~(history[i].role = "assistant" /\ history[i].content \in DOMAIN conts)
  <2>1. Remembered(i) = <<>>
    BY <1>2 DEF Remembered
  <2>2. Reasoning(i, type) = <<>>
    BY <2>1 DEF Reasoning
  <2> QED BY <2>1, <2>2
<1> QED BY <1>1, <1>2

(* What an item of the input may be. *)
Input ==
  {x \in Items :
     /\ x.type \in {"function_call", "function_call_output"} => x.id \in Ids
     /\ x.type = "message" => x.role \in {"user", "assistant", "system"}
     /\ x.type \in {"reasoning", "chat_reasoning"} => x.id \in Thoughts /\ x.parts = <<>>
     /\ x.type # "message" => PartsConvert(x)
     /\ \A k \in DOMAIN x.parts :
          x.parts[k].kind \in {"image", "file"} => \E i \in DOMAIN history : Sees(i)}

LEMMA TurnItemsAreInput ==
  ASSUME TypeInv, NEW i \in DOMAIN history
  PROVE  TurnItems(i) \subseteq Input
<1> SUFFICES ASSUME NEW x \in TurnItems(i) PROVE x \in Input
  OBVIOUS
<1>1. CallsOf(i) \subseteq Ids /\ ResultIds(history[i].content.blocks) \subseteq Ids
  <2>1. \A k \in DOMAIN history[i].content.blocks :
          BlockAt(i, k).type \in {"tool_use", "tool_result"} => BlockAt(i, k).id \in Ids
    BY TurnShape, BlockShapes
  <2>2. CallsOf(i) \subseteq Ids
    BY <2>1 DEF CallsOf, BlockAt
  <2>3. ResultIds(history[i].content.blocks) \subseteq Ids
    BY <2>1 DEF ResultIds, BlockAt
  <2> QED BY <2>2, <2>3
<1>2. /\ x \in Items /\ x.parts \in Seq(ContentParts(i))
      /\ x.type # "message" => PartsConvert(x)
      /\ \/ x.type = "message" /\ x.role = history[i].role
         \/ x.type = "function_call" /\ x.id \in CallsOf(i)
         \/ x.type = "function_call_output" /\ x.id \in ResultIds(history[i].content.blocks)
  BY DEF TurnItems
<1>3. \A k \in DOMAIN x.parts : x.parts[k].kind \in {"image", "file"} => Sees(i)
  <2> TAKE k \in DOMAIN x.parts
  <2>1. x.parts[k] \in ContentParts(i)
    BY <1>2
  <2> QED BY <2>1 DEF ContentParts
<1>4. \A k \in DOMAIN x.parts :
        x.parts[k].kind \in {"image", "file"} => \E j \in DOMAIN history : Sees(j)
  BY <1>3
<1>5. /\ x.type \in {"function_call", "function_call_output"} => x.id \in Ids
      /\ x.type = "message" => x.role \in {"user", "assistant", "system"}
      /\ x.type \notin {"reasoning", "chat_reasoning"}
  BY <1>1, <1>2, TurnShape
<1> QED BY <1>2, <1>4, <1>5 DEF Input

LEMMA ReasoningIsInput ==
  ASSUME TypeInv, NEW i \in DOMAIN history, NEW type \in {"reasoning", "chat_reasoning"}
  PROVE  Reasoning(i, type) \in Seq(Input)
<1>1. ASSUME NEW t \in Thoughts PROVE Item(i, type, "", t, <<>>) \in Input
  <2> DEFINE x == Item(i, type, "", t, <<>>)
  <2>1. x \in Items
    <3>1. <<>> \in Seq(Parts)
      OBVIOUS
    <3> QED BY <3>1, TurnShape, ItemType
  <2>2. x.type = type /\ x.id = t /\ x.parts = <<>>
    BY DEF Item
  <2> HIDE DEF x
  <2>3. x \in Input
    BY <2>1, <2>2 DEF Input, PartsConvert
  <2> QED BY <2>3 DEF x
<1>2. CASE Reasoning(i, type) = <<>>
  BY <1>2
<1>3. ASSUME NEW t \in Thoughts, Reasoning(i, type) = <<Item(i, type, "", t, <<>>)>>
      PROVE  Reasoning(i, type) \in Seq(Input)
  <2> DEFINE x == Item(i, type, "", t, <<>>)
  <2> HIDE DEF x
  <2>1. x \in Input /\ Reasoning(i, type) = <<x>>
    BY <1>1, <1>3 DEF x
  <2> QED BY <2>1
<1> QED BY <1>2, <1>3, ReasoningIs

LEMMA TurnTyped ==
  ASSUME TypeInv, NEW i \in DOMAIN history
  PROVE  TurnToInput(i) \in Seq(Input)
<1>1. BlocksToInput(i) \in Seq(Input)
  BY BlocksTyped, TurnItemsAreInput, SeqMonotonic
<1>2. Reasoning(i, "reasoning") \in Seq(Input) /\ Reasoning(i, "chat_reasoning") \in Seq(Input)
  BY ReasoningIsInput
<1>3. <<>> \in Seq(Input)
  OBVIOUS
<1> DEFINE a == IF chat THEN <<>> ELSE Reasoning(i, "reasoning")
           b == BlocksToInput(i)
           c == IF chat THEN Reasoning(i, "chat_reasoning") ELSE <<>>
<1>4. a \in Seq(Input) /\ b \in Seq(Input) /\ c \in Seq(Input)
  BY <1>1, <1>2, <1>3
<1>5. TurnToInput(i) = (a \o b) \o c
  BY DEF TurnToInput
<1> HIDE DEF a, b, c
<1>6. a \o b \in Seq(Input)
  BY <1>4
<1>7. (a \o b) \o c \in Seq(Input)
  BY <1>4, <1>6, Joined
<1> QED BY <1>5, <1>7

(* The turns of the input, which is their join. *)
Turns == [i \in DOMAIN history |-> TurnToInput(i)]

LEMMA TurnsTyped ==
  ASSUME TypeInv
  PROVE  /\ Turns \in Seq(Seq(Input))
         /\ Len(Turns) = Len(history)
         /\ DOMAIN history = 1 .. Len(history) /\ Len(history) \in Nat
         /\ \A i \in 1 .. Len(history) : Turns[i] = TurnToInput(i)
         /\ MessagesToInput = FlattenSeq(Turns)
<1> DEFINE n == Len(history)
<1>1. n \in Nat /\ DOMAIN history = 1 .. n
  BY DEF TypeInv
<1> HIDE DEF n
<1>2. \A i \in 1 .. n : TurnToInput(i) \in Seq(Input)
  BY <1>1, TurnTyped
<1>3. Turns \in [1 .. n -> Seq(Input)] /\ \A i \in 1 .. n : Turns[i] = TurnToInput(i)
  BY <1>1, <1>2 DEF Turns
<1>4. Turns \in Seq(Seq(Input)) /\ Len(Turns) = n
  BY <1>1, <1>3
<1>5. MessagesToInput = FlattenSeq(Turns)
  BY DEF MessagesToInput, Turns
<1> QED BY <1>1, <1>3, <1>4, <1>5 DEF n

LEMMA InputTyped ==
  ASSUME TypeInv
  PROVE  MessagesToInput \in Seq(Input)
<1>1. Turns \in Seq(Seq(Input)) /\ MessagesToInput = FlattenSeq(Turns)
  BY TurnsTyped
<1>2. PICK fl \in [0 .. Len(Turns) -> Seq(Input)] : FlattenSeq(Turns) = fl[Len(Turns)]
  BY <1>1, Flattening
<1>3. Len(Turns) \in 0 .. Len(Turns)
  BY <1>1
<1> QED BY <1>1, <1>2, <1>3

-----------------------------------------------------------------------------
(* Requirements.                                                           *)

LEMMA EffortNames == Range(Efforts) = {"low", "medium", "high", "xhigh", "max"}
<1>1. DOMAIN Efforts = 1 .. 5
  BY DEF Efforts
<1>2. /\ Efforts[1] = "low" /\ Efforts[2] = "medium" /\ Efforts[3] = "high"
      /\ Efforts[4] = "xhigh" /\ Efforts[5] = "max"
  BY DEF Efforts
<1>3. Range(Efforts) = {Efforts[j] : j \in 1 .. 5}
  BY <1>1 DEF Range
<1>4. \A j \in 1 .. 5 : j = 1 \/ j = 2 \/ j = 3 \/ j = 4 \/ j = 5
  OBVIOUS
<1> QED BY <1>2, <1>3, <1>4

LEMMA OptionShape ==
  ASSUME TypeInv
  PROVE  /\ opts.thinking \in {"absent", "disabled", "adaptive", "enabled", "unknown"}
         /\ opts.budget \in Nat
         /\ opts.tools \in BOOLEAN
         /\ opts.numeric \in BOOLEAN
         /\ opts.choice \in {"absent", "auto", "none", "any", "tool", "stranger"}
         /\ opts.effort \in {"low", "medium", "high", "xhigh", "max", "absent", "minimal"}
<1>1. opts \in Options
  BY DEF TypeInv
<1> QED BY <1>1, EffortNames DEF Options, Budgets

LEMMA EffortCases ==
  ASSUME NEW o, o.budget \in Nat, o.effort = "absent"
  PROVE  /\ o.thinking = "enabled" => ToResponsesEffort(o) \in {"low", "medium", "high", "xhigh"}
         /\ o.thinking \in {"absent", "disabled"} => ToResponsesEffort(o) = "absent"
BY DEF ToResponsesEffort

(* An effort is sent just if thinking or an effort was asked for, and it   *)
(* is one of the efforts that have a number.                               *)
LEMMA EffortSent ==
  ASSUME TypeInv, Accepted
  PROVE  /\ (opts.thinking \notin {"absent", "disabled"} \/ opts.effort # "absent")
              <=> ToResponsesEffort(opts) # "absent"
         /\ ToResponsesEffort(opts) \in {"low", "medium", "high", "xhigh", "max", "absent"}
<1>1. opts.effort \in {"low", "medium", "high", "xhigh", "max", "absent"}
  BY EffortNames DEF Accepted, ValidateOptions
<1>2. \/ opts.thinking \in {"absent", "disabled", "adaptive"}
      \/ opts.thinking = "enabled"
  BY DEF Accepted, ValidateThinking
<1>3. opts.budget \in Nat
  BY OptionShape
<1>4. CASE opts.effort # "absent"
  <2>1. ToResponsesEffort(opts) = opts.effort
    BY <1>4 DEF ToResponsesEffort
  <2> QED BY <1>1, <1>4, <2>1
<1>5. CASE opts.effort = "absent" /\ opts.thinking \in {"absent", "disabled"}
  <2>1. ToResponsesEffort(opts) = "absent"
    BY <1>3, <1>5, EffortCases
  <2> QED BY <1>5, <2>1
<1>6. CASE opts.effort = "absent" /\ opts.thinking = "adaptive"
  <2>1. ToResponsesEffort(opts) = "medium"
    BY <1>6 DEF ToResponsesEffort
  <2> QED BY <1>6, <2>1
<1>7. CASE opts.effort = "absent" /\ opts.thinking = "enabled"
  <2>1. ToResponsesEffort(opts) \in {"low", "medium", "high", "xhigh"}
    BY <1>3, <1>7, EffortCases
  <2> QED BY <1>7, <2>1
<1> QED BY <1>1, <1>2, <1>4, <1>5, <1>6, <1>7

LEMMA VisionNeeded ==
  ASSUME TypeInv, HasPart("image") \/ HasPart("file")
  PROVE  DeriveRequirements.vision
<1>1. PICK j \in DOMAIN MessagesToInput : \E k \in DOMAIN MessagesToInput[j].parts :
        MessagesToInput[j].parts[k].kind \in {"image", "file"}
  BY DEF HasPart
<1>2. MessagesToInput[j] \in Input
  BY InputTyped
<1>3. PICK i \in DOMAIN history : Sees(i)
  BY <1>1, <1>2 DEF Input
<1>4. \E m \in DOMAIN history : \E k \in DOMAIN history[m].content.blocks :
        NeedsVision(history[m].content.blocks[k])
  BY <1>3 DEF Sees, BlockAt
<1> QED BY <1>4 DEF DeriveRequirements

LEMMA RequirementsDerived ==
  ASSUME TypeInv
  PROVE  RequirementsMatch
<1> SUFFICES ASSUME Accepted
             PROVE  /\ DeriveRequirements.reasoning <=> ToResponsesEffort(opts) # "absent"
                    /\ HasPart("image") \/ HasPart("file") => DeriveRequirements.vision
  BY DEF RequirementsMatch
<1>1. DeriveRequirements.reasoning
        = (opts.thinking \notin {"absent", "disabled"} \/ opts.effort # "absent")
  BY DEF DeriveRequirements
<1>2. DeriveRequirements.reasoning <=> ToResponsesEffort(opts) # "absent"
  BY <1>1, EffortSent
<1> QED BY <1>2, VisionNeeded

(* Candidates are filtered by what is really sent (RequirementsMatch), for *)
(* a conversation of any length: DeriveRequirements asks for reasoning     *)
(* just if an effort is sent, and for vision whenever an image or a file   *)
(* is, be it inside of a tool's result.                                    *)
THEOREM RequirementsStayTrue == Spec => []RequirementsMatch
<1>1. TypeInv => RequirementsMatch
  BY RequirementsDerived
<1> QED BY <1>1, TypeHolds, PTL

-----------------------------------------------------------------------------
(* What the items of the input say.                                        *)

(* With asText, the outputs say what a Chat Completions message says. *)
AsSent(parts, asText) == IF asText THEN JsonValueToString(parts) ELSE parts

ItemSays(x, asText) ==
  IF x.type = "function_call_output" THEN <<Part("result", x.id)>> \o AsSent(x.parts, asText)
  ELSE ItemTokens(x)

ItemSpeech(asText) == [x \in Input |-> ItemSays(x, asText)]
BlockSpeech(asText) == [b \in Blocks |-> BlockTokens(b, asText)]

LEMMA AsSentType ==
  ASSUME NEW parts \in Seq(Parts), NEW asText \in BOOLEAN
  PROVE  AsSent(parts, asText) \in Seq(Parts)
<1> DEFINE n == Len(parts)
           g == JsonValueToString(parts)
<1>1. n \in Nat /\ DOMAIN parts = 1 .. n /\ \A k \in 1 .. n : parts[k] \in Parts
  OBVIOUS
<1> HIDE DEF n
<1>2. \A k \in 1 .. n : Part("text", parts[k].val) \in Parts
  <2> TAKE k \in 1 .. n
  <2>1. parts[k].val \in Vals
    BY <1>1 DEF Parts
  <2> QED BY <2>1, PartShape
<1>3. g \in [1 .. n -> Parts]
  BY <1>1, <1>2 DEF JsonValueToString
<1> HIDE DEF g
<1>4. g \in Seq(Parts)
  BY <1>1, <1>3
<1> QED BY <1>4 DEF AsSent, g

LEMMA OnePart == \A p \in Parts : <<p>> \in Seq(Parts)
OBVIOUS

LEMMA ItemSpeaks ==
  ASSUME NEW asText \in BOOLEAN
  PROVE  /\ Speech(ItemSpeech(asText), Input, Parts)
         /\ \A x \in Input : ItemSpeech(asText)[x] = ItemSays(x, asText)
<1>1. \A x \in Input : ItemSpeech(asText)[x] = ItemSays(x, asText)
  BY DEF ItemSpeech
<1>2. ASSUME NEW x \in Input PROVE ItemSays(x, asText) \in Seq(Parts)
  <2>1. /\ x.parts \in Seq(Parts)
        /\ x.type \in {"function_call", "function_call_output"} => x.id \in Ids
        /\ x.type \in {"message", "function_call", "function_call_output", "reasoning", "chat_reasoning"}
    BY DEF Input, Items
  <2>2. CASE x.type = "function_call_output"
    <3>1. Part("result", x.id) \in Parts
      BY <2>1, <2>2, PartShape DEF Vals
    <3>2. <<Part("result", x.id)>> \in Seq(Parts)
      BY <3>1, OnePart
    <3>3. AsSent(x.parts, asText) \in Seq(Parts)
      BY <2>1, AsSentType
    <3> QED BY <2>2, <3>2, <3>3, Joined DEF ItemSays
  <2>3. CASE x.type = "message"
    BY <2>1, <2>3 DEF ItemSays, ItemTokens
  <2>4. CASE x.type = "function_call"
    <3>1. Part("call", x.id) \in Parts
      BY <2>1, <2>4, PartShape DEF Vals
    <3>2. <<Part("call", x.id)>> \in Seq(Parts)
      BY <3>1, OnePart
    <3> QED BY <2>4, <3>2 DEF ItemSays, ItemTokens
  <2>5. CASE x.type \in {"reasoning", "chat_reasoning"}
    <3>1. ItemSays(x, asText) = <<>>
      BY <2>5 DEF ItemSays, ItemTokens
    <3> QED BY <3>1
  <2> QED BY <2>1, <2>2, <2>3, <2>4, <2>5
<1> QED BY <1>1, <1>2 DEF Speech

LEMMA PartAssoc == \A a, b, c \in Seq(Parts) : (a \o b) \o c = a \o (b \o c)
BY Assoc

LEMMA BlockSpeaks ==
  ASSUME NEW asText \in BOOLEAN
  PROVE  /\ Speech(BlockSpeech(asText), Blocks, Parts)
         /\ \A b \in Blocks : BlockSpeech(asText)[b] = BlockTokens(b, asText)
         /\ \A b \in Blocks :
              /\ b.type \in {"text", "image", "document"} =>
                   BlockTokens(b, asText) = <<ContentPart(b)>> /\ ContentPart(b) \in Parts
              /\ b.type = "tool_use" => BlockTokens(b, asText) = <<Part("call", b.id)>>
              /\ b.type = "tool_result" =>
                   BlockTokens(b, asText) =
                     <<Part("result", b.id)>> \o AsSent(ToolResultToResponsesOutput(b), asText)
              /\ b.type = "thinking" => BlockTokens(b, asText) = <<>>
<1>1. \A b \in Blocks : BlockSpeech(asText)[b] = BlockTokens(b, asText)
  BY DEF BlockSpeech
<1>2. ASSUME NEW b \in Blocks
      PROVE  /\ BlockTokens(b, asText) \in Seq(Parts)
             /\ b.type \in {"text", "image", "document"} =>
                  BlockTokens(b, asText) = <<ContentPart(b)>> /\ ContentPart(b) \in Parts
             /\ b.type = "tool_use" => BlockTokens(b, asText) = <<Part("call", b.id)>>
             /\ b.type = "tool_result" =>
                  BlockTokens(b, asText) =
                    <<Part("result", b.id)>> \o AsSent(ToolResultToResponsesOutput(b), asText)
             /\ b.type = "thinking" => BlockTokens(b, asText) = <<>>
  <2>1. CASE b.type \in {"text", "image", "document"}
    <3>1. BlockTokens(b, asText) = <<ContentPart(b)>>
      BY <2>1 DEF BlockTokens
    <3>2. \/ \E t \in Texts : ContentPart(b) = Part("text", t)
          \/ ContentPart(b) \in {Part("image", "image"), Part("error", "error"),
                                 Part("text", "document"), Part("file", "file")}
      BY <2>1, BlockShapes DEF ContentPart, Failed
    <3>3. ContentPart(b) \in Parts
      BY <3>2, PartShape DEF Vals
    <3>4. <<ContentPart(b)>> \in Seq(Parts)
      BY <3>3, OnePart
    <3> QED BY <2>1, <3>1, <3>3, <3>4
  <2>2. CASE b.type = "tool_use"
    <3>1. BlockTokens(b, asText) = <<Part("call", b.id)>>
      BY <2>2 DEF BlockTokens
    <3>2. Part("call", b.id) \in Parts
      BY <2>2, BlockShapes, PartShape DEF Vals
    <3>3. <<Part("call", b.id)>> \in Seq(Parts)
      BY <3>2, OnePart
    <3> QED BY <2>2, <3>1, <3>3
  <2>3. CASE b.type = "tool_result"
    <3> DEFINE r == ToolResultToResponsesOutput(b)
    <3>1. BlockTokens(b, asText) = <<Part("result", b.id)>> \o AsSent(r, asText)
      BY <2>3 DEF BlockTokens, AsSent
    <3>2. Part("result", b.id) \in Parts
      BY <2>3, BlockShapes, PartShape DEF Vals
    <3>3. <<Part("result", b.id)>> \in Seq(Parts)
      BY <3>2, OnePart
    <3>4. r \in Seq(Parts)
      <4> DEFINE p == Part("text", "result")
                 f == Part("text", "failed")
                 m == Part("image", "image")
      <4>1. \/ r = <<>> \/ r = <<p>> \/ r = <<p, m>> \/ r = <<f, p, m>>
        BY <2>3, BlockShapes DEF ToolResultToResponsesOutput
      <4>2. p \in Parts /\ f \in Parts /\ m \in Parts
        BY PartShape DEF Vals
      <4> HIDE DEF p, f, m, r
      <4>3. <<>> \in Seq(Parts) /\ <<p>> \in Seq(Parts)
        BY <4>2
      <4>4. <<p, m>> \in Seq(Parts)
        BY <4>2
      <4>5. <<f, p, m>> \in Seq(Parts)
        BY <4>2
      <4> QED BY <4>1, <4>3, <4>4, <4>5, Zenon
    <3> HIDE DEF r
    <3>5. AsSent(r, asText) \in Seq(Parts)
      BY <3>4, AsSentType
    <3>6. BlockTokens(b, asText) \in Seq(Parts)
      BY <3>1, <3>3, <3>5, Joined
    <3> QED BY <2>3, <3>1, <3>6 DEF r
  <2>4. CASE b.type = "thinking"
    <3>1. BlockTokens(b, asText) = <<>>
      BY <2>4 DEF BlockTokens
    <3> QED BY <2>4, <3>1
  <2> QED BY <2>1, <2>2, <2>3, <2>4, BlockShapes
<1> QED BY <1>1, <1>2 DEF Speech

LEMMA TurnSeqsAreInput ==
  ASSUME TypeInv, NEW i \in DOMAIN history
  PROVE  \A s \in Seq(TurnItems(i)) : s \in Seq(Input)
BY TurnItemsAreInput, SeqMonotonic

(* One item more says what it says. *)
LEMMA OneMore ==
  ASSUME TypeInv, NEW i \in DOMAIN history, NEW asText \in BOOLEAN,
         NEW s \in Seq(TurnItems(i)), NEW x \in TurnItems(i)
  PROVE  Spell(ItemSpeech(asText), Append(s, x)) = Spell(ItemSpeech(asText), s) \o ItemSays(x, asText)
<1> DEFINE g == ItemSpeech(asText)
<1>1. Speech(g, Input, Parts) /\ \A y \in Input : g[y] = ItemSays(y, asText)
  BY ItemSpeaks
<1>2. s \in Seq(Input) /\ x \in Input
  BY TurnSeqsAreInput, TurnItemsAreInput
<1> HIDE DEF g
<1>3. Spell(g, Append(s, x)) = Spell(g, s) \o g[x]
  BY <1>1, <1>2, SpellAppend
<1>4. Spell(g, Append(s, x)) = Spell(g, s) \o ItemSays(x, asText)
  BY <1>1, <1>2, <1>3
<1> QED BY <1>4 DEF g

LEMMA SpelledType ==
  ASSUME TypeInv, NEW i \in DOMAIN history, NEW asText \in BOOLEAN, NEW s \in Seq(TurnItems(i))
  PROVE  Spell(ItemSpeech(asText), s) \in Seq(Parts)
<1>1. Speech(ItemSpeech(asText), Input, Parts) /\ s \in Seq(Input)
  BY ItemSpeaks, TurnSeqsAreInput
<1> QED BY <1>1, SpellType

(* Flushing loses nothing of what was collected. *)
LEMMA FlushSpells ==
  ASSUME TypeInv, NEW i \in DOMAIN history, NEW asText \in BOOLEAN, NEW s \in Collected(i)
  PROVE  Spell(ItemSpeech(asText), FlushMessage(i, s).out)
           = Spell(ItemSpeech(asText), s.out) \o s.content
<1>1. s.out \in Seq(TurnItems(i)) /\ s.content \in Seq(ContentParts(i))
  BY DEF Collected
<1>2. CASE s.content = <<>>
  <2>1. FlushMessage(i, s).out = s.out
    BY <1>2, FlushFits
  <2>2. Spell(ItemSpeech(asText), s.out) \in Seq(Parts)
    BY <1>1, SpelledType
  <2>3. Spell(ItemSpeech(asText), s.out) \o <<>> = Spell(ItemSpeech(asText), s.out)
    BY <2>2, Unit
  <2> QED BY <1>2, <2>1, <2>3
<1>3. CASE s.content # <<>>
  <2> DEFINE x == Item(i, "message", history[i].role, "", s.content)
  <2>1. FlushMessage(i, s).out = Append(s.out, x)
    BY <1>3, FlushFits
  <2>2. x \in TurnItems(i)
    BY <1>1, MessageFits
  <2>3. ItemSays(x, asText) = s.content
    BY DEF ItemSays, ItemTokens, Item
  <2> HIDE DEF x
  <2>4. Spell(ItemSpeech(asText), Append(s.out, x))
          = Spell(ItemSpeech(asText), s.out) \o ItemSays(x, asText)
    BY <1>1, <2>2, OneMore
  <2> QED BY <2>1, <2>3, <2>4
<1> QED BY <1>2, <1>3

(* One block more, flushed or collected, says what the block says. *)
LEMMA AddBlockSpells ==
  ASSUME TypeInv, NEW i \in DOMAIN history, NEW asText \in BOOLEAN, NEW s \in Collected(i),
         NEW k \in DOMAIN history[i].content.blocks, NEW b, b = BlockAt(i, k)
  PROVE  Spell(ItemSpeech(asText), AddBlock(i, s, b).out) \o AddBlock(i, s, b).content
           = (Spell(ItemSpeech(asText), s.out) \o s.content) \o BlockTokens(b, asText)
<1> DEFINE S(out) == Spell(ItemSpeech(asText), out)
           t == AddBlock(i, s, b)
           fl == FlushMessage(i, s)
<1>1. s.out \in Seq(TurnItems(i)) /\ s.content \in Seq(Parts)
  BY PartSeqsFit DEF Collected
<1>2. S(s.out) \in Seq(Parts)
  BY <1>1, SpelledType
<1>3. b \in Blocks
  BY TurnShape
<1>4. /\ b.type \in {"text", "image", "document"} =>
           BlockTokens(b, asText) = <<ContentPart(b)>> /\ ContentPart(b) \in Parts
      /\ b.type = "tool_use" => BlockTokens(b, asText) = <<Part("call", b.id)>>
      /\ b.type = "tool_result" =>
           BlockTokens(b, asText) =
             <<Part("result", b.id)>> \o AsSent(ToolResultToResponsesOutput(b), asText)
      /\ b.type = "thinking" => BlockTokens(b, asText) = <<>>
  BY <1>3, BlockSpeaks
<1>5. fl.out \in Seq(TurnItems(i)) /\ S(fl.out) = S(s.out) \o s.content
  <2>1. fl \in Collected(i)
    BY FlushFits
  <2>2. fl.out \in Seq(TurnItems(i))
    BY <2>1 DEF Collected
  <2>3. S(fl.out) = S(s.out) \o s.content
    BY FlushSpells
  <2> QED BY <2>2, <2>3
<1>6. S(s.out) \o s.content \in Seq(Parts)
  BY <1>1, <1>2, Joined
<1>7. CASE b.type \in {"text", "image", "document"}
  <2>1. t.out = s.out /\ t.content = Append(s.content, ContentPart(b))
    BY <1>7, AddBlockSays
  <2> HIDE DEF S, t, fl
  <2>2. t.content = s.content \o <<ContentPart(b)>> /\ <<ContentPart(b)>> \in Seq(Parts)
    BY <1>1, <1>4, <1>7, <2>1, Appended
  <2>3. (S(s.out) \o s.content) \o <<ContentPart(b)>> = S(s.out) \o (s.content \o <<ContentPart(b)>>)
    BY <1>1, <1>2, <2>2, PartAssoc
  <2>4. S(t.out) \o t.content = (S(s.out) \o s.content) \o BlockTokens(b, asText)
    BY <1>4, <1>7, <2>1, <2>2, <2>3
  <2> QED BY <2>4 DEF S, t
<1>8. ASSUME NEW x \in TurnItems(i), t.out = Append(fl.out, x), t.content = <<>>,
             ItemSays(x, asText) = BlockTokens(b, asText)
      PROVE  S(t.out) \o t.content = (S(s.out) \o s.content) \o BlockTokens(b, asText)
  <2>1. S(Append(fl.out, x)) = S(fl.out) \o ItemSays(x, asText)
    BY <1>5, OneMore
  <2>2. Append(fl.out, x) \in Seq(TurnItems(i))
    BY <1>5
  <2>3. S(Append(fl.out, x)) \in Seq(Parts)
    BY <2>2, SpelledType
  <2> HIDE DEF S, t, fl
  <2>4. S(t.out) \o t.content = S(Append(fl.out, x))
    BY <1>8, <2>3, Unit
  <2> QED BY <1>5, <1>8, <2>1, <2>4
<1>9. CASE b.type = "tool_use"
  <2> DEFINE x == Item(i, "function_call", "", b.id, <<>>)
  <2>1. x \in TurnItems(i)
    BY <1>9, CallFits
  <2>2. t.out = Append(fl.out, x) /\ t.content = <<>>
    BY <1>9, AddBlockSays, ZenonT(60)
  <2>3. ItemSays(x, asText) = BlockTokens(b, asText)
    <3>1. ItemSays(Item(i, "function_call", "", b.id, <<>>), asText) = <<Part("call", b.id)>>
      BY DEF ItemSays, ItemTokens, Item
    <3> QED BY <1>4, <1>9, <3>1
  <2> HIDE DEF x, t, fl, S
  <2>4. S(t.out) \o t.content = (S(s.out) \o s.content) \o BlockTokens(b, asText)
    BY <1>8, <2>1, <2>2, <2>3
  <2> QED BY <2>4 DEF S, t
<1>10. CASE b.type = "tool_result"
  <2> DEFINE x == Item(i, "function_call_output", "", b.id, ToolResultToResponsesOutput(b))
  <2>1. x \in TurnItems(i)
    BY <1>10, OutputFits
  <2>2. t.out = Append(fl.out, x) /\ t.content = <<>>
    BY <1>10, AddBlockSays, ZenonT(60)
  <2>3. ItemSays(x, asText) = BlockTokens(b, asText)
    <3> DEFINE r == ToolResultToResponsesOutput(b)
    <3> HIDE DEF r
    <3>1. ItemSays(Item(i, "function_call_output", "", b.id, r), asText)
            = <<Part("result", b.id)>> \o AsSent(r, asText)
      BY DEF ItemSays, ItemTokens, Item
    <3> QED BY <1>4, <1>10, <3>1 DEF r
  <2> HIDE DEF x, t, fl, S
  <2>4. S(t.out) \o t.content = (S(s.out) \o s.content) \o BlockTokens(b, asText)
    BY <1>8, <2>1, <2>2, <2>3
  <2> QED BY <2>4 DEF S, t
<1>11. CASE b.type = "thinking"
  <2>1. t = s
    BY <1>11, AddBlockSays
  <2>2. (S(s.out) \o s.content) \o <<>> = S(s.out) \o s.content
    BY <1>6, Unit
  <2> QED BY <1>4, <1>11, <2>1, <2>2
<1> QED BY <1>3, <1>7, <1>9, <1>10, <1>11, BlockShapes

(* The items of a turn say what its blocks say. *)
LEMMA BlocksSpelled ==
  ASSUME TypeInv, NEW i \in DOMAIN history, NEW asText \in BOOLEAN
  PROVE  Spell(ItemSpeech(asText), BlocksToInput(i))
           = Spell(BlockSpeech(asText), history[i].content.blocks)
<1> DEFINE bs == history[i].content.blocks
           N == Len(bs)
           S(out) == Spell(ItemSpeech(asText), out)
           q == [j \in DOMAIN bs |-> BlockSpeech(asText)[bs[j]]]
<1>1. bs \in Seq(Blocks) /\ DOMAIN bs = 1 .. N /\ N \in Nat
  <2>1. bs \in Seq(Blocks)
    BY TurnShape
  <2> QED BY <2>1
<1>2. PICK f \in [0 .. N -> Collected(i)] :
        /\ f[0] = [out |-> <<>>, content |-> <<>>]
        /\ \A k \in 1 .. N : f[k] = AddBlock(i, f[k - 1], BlockAt(i, k))
        /\ BlocksToInput(i) = FlushMessage(i, f[N]).out
  BY BlockSteps
<1>3. q = [j \in DOMAIN bs |-> BlockSpeech(asText)[bs[j]]]
  OBVIOUS
<1>4. Spell(BlockSpeech(asText), bs) = FlattenSeq(q)
  BY DEF Spell
<1>5. \A k \in 1 .. N : bs[k] = BlockAt(i, k) /\ k \in DOMAIN history[i].content.blocks
  BY <1>1 DEF BlockAt
<1> HIDE DEF q, bs, S
<1>6. q \in Seq(Seq(Parts)) /\ Len(q) = Len(bs) /\ \A j \in 1 .. Len(bs) : q[j] = BlockSpeech(asText)[bs[j]]
  <2>1. Speech(BlockSpeech(asText), Blocks, Parts) /\ bs \in Seq(Blocks)
    BY <1>1, BlockSpeaks
  <2> QED BY <1>3, <2>1, Words
<1>7. \A k \in 1 .. N : q[k] = BlockTokens(BlockAt(i, k), asText)
  <2> TAKE k \in 1 .. N
  <2>1. BlockAt(i, k) \in Blocks
    BY <1>5, TurnShape
  <2> QED BY <1>5, <1>6, <2>1, BlockSpeaks
<1>8. PICK fl \in [0 .. Len(q) -> Seq(Parts)] :
        /\ fl[0] = <<>>
        /\ \A k \in 1 .. Len(q) : fl[k] = fl[k - 1] \o q[k]
        /\ FlattenSeq(q) = fl[Len(q)]
  BY <1>6, Flattening
<1>9. Len(q) = N
  BY <1>6
<1> HIDE DEF N
<1> DEFINE Good(n) == S(f[n].out) \o f[n].content = fl[n]
           T == {n \in Nat : n <= N => Good(n)}
<1>10. 0 \in T
  <2>1. f[0].out = <<>> /\ f[0].content = <<>>
    BY <1>2
  <2>2. S(<<>>) = <<>>
    BY SpellEmpty DEF S
  <2>3. S(f[0].out) \o f[0].content = fl[0]
    BY <1>8, <2>1, <2>2
  <2> QED BY <2>3
<1>11. ASSUME NEW n \in T PROVE n + 1 \in T
  <2> HIDE DEF Good
  <2> SUFFICES ASSUME n + 1 <= N PROVE Good(n + 1)
    OBVIOUS
  <2>1. n \in 0 .. N /\ n + 1 \in 1 .. N /\ (n + 1) - 1 = n /\ Good(n)
    BY <1>1
  <2> DEFINE b == BlockAt(i, n + 1)
             s == f[n]
  <2>2. s \in Collected(i) /\ n + 1 \in DOMAIN history[i].content.blocks
    BY <1>5, <2>1
  <2>3. f[n + 1] = AddBlock(i, s, b)
    BY <1>2, <2>1
  <2>4. fl[n + 1] = fl[n] \o BlockTokens(b, asText)
    BY <1>7, <1>8, <1>9, <2>1
  <2>5. b = BlockAt(i, n + 1)
    OBVIOUS
  <2> HIDE DEF b, s, T
  <2>6. S(AddBlock(i, s, b).out) \o AddBlock(i, s, b).content
          = (S(s.out) \o s.content) \o BlockTokens(b, asText)
    BY <2>2, <2>5, AddBlockSpells DEF S
  <2> QED BY <2>1, <2>3, <2>4, <2>6 DEF s, Good
<1>12. T = Nat
  <2>1. T \in SUBSET Nat
    OBVIOUS
  <2> HIDE DEF T
  <2> QED BY <1>10, <1>11, <2>1, NumberInduction
<1>13. Good(N)
  <2> HIDE DEF Good
  <2>1. N \in T
    <3> HIDE DEF T
    <3> QED BY <1>1, <1>12
  <2> QED BY <1>1, <2>1
<1>14. S(FlushMessage(i, f[N]).out) = S(f[N].out) \o f[N].content
  <2>1. f[N] \in Collected(i)
    BY <1>1
  <2> QED BY <2>1, FlushSpells DEF S
<1>15. S(BlocksToInput(i)) = Spell(BlockSpeech(asText), bs)
  BY <1>2, <1>4, <1>8, <1>9, <1>13, <1>14
<1> QED BY <1>15 DEF S, bs

LEMMA TurnSpelled ==
  ASSUME TypeInv, NEW i \in DOMAIN history, NEW asText \in BOOLEAN
  PROVE  Spell(ItemSpeech(asText), TurnToInput(i))
           = Spell(BlockSpeech(asText), history[i].content.blocks)
<1> DEFINE g == ItemSpeech(asText)
<1>1. Speech(g, Input, Parts) /\ \A x \in Input : g[x] = ItemSays(x, asText)
  BY ItemSpeaks
<1>2. BlocksToInput(i) \in Seq(Input)
  BY BlocksTyped, TurnSeqsAreInput
<1>3. ASSUME NEW type \in {"reasoning", "chat_reasoning"}
      PROVE  Reasoning(i, type) \in Seq(Input) /\ Spell(g, Reasoning(i, type)) = <<>>
  <2>1. Reasoning(i, type) \in Seq(Input)
    BY ReasoningIsInput
  <2>2. CASE Reasoning(i, type) = <<>>
    BY <2>1, <2>2, SpellEmpty
  <2>3. ASSUME NEW t \in Thoughts, Reasoning(i, type) = <<Item(i, type, "", t, <<>>)>>
        PROVE  Spell(g, Reasoning(i, type)) = <<>>
    <3> DEFINE x == Item(i, type, "", t, <<>>)
    <3>1. ItemSays(x, asText) = <<>>
      BY DEF ItemSays, ItemTokens, Item
    <3> HIDE DEF x, g
    <3>2. Reasoning(i, type) = <<x>>
      BY <2>3 DEF x
    <3>3. x \in Input
      BY <2>1, <3>2
    <3>4. \A j \in 1 .. Len(<<x>>) : g[<<x>>[j]] = <<>>
      BY <1>1, <3>1, <3>3
    <3>5. <<x>> \in Seq(Input)
      BY <2>1, <3>2
    <3>6. Spell(g, <<x>>) = <<>>
      BY <1>1, <3>4, <3>5, SpellSilent
    <3> QED BY <3>2, <3>6
  <2> QED BY <2>1, <2>2, <2>3, ReasoningIs
<1> DEFINE a == IF chat THEN <<>> ELSE Reasoning(i, "reasoning")
           b == BlocksToInput(i)
           c == IF chat THEN Reasoning(i, "chat_reasoning") ELSE <<>>
<1>4. TurnToInput(i) = (a \o b) \o c
  BY DEF TurnToInput
<1>5. a \in Seq(Input) /\ c \in Seq(Input)
  BY <1>3
<1>6. Spell(g, a) = <<>> /\ Spell(g, c) = <<>>
  <2> HIDE DEF g
  <2> QED BY <1>3, SpellEmpty
<1> HIDE DEF a, b, c, g
<1>7. b \in Seq(Input) /\ a \o b \in Seq(Input)
  BY <1>2, <1>5, Joined DEF b
<1>8. \A s, t \in Seq(Input) : Spell(g, s \o t) = Spell(g, s) \o Spell(g, t)
  BY <1>1, SpellConcat
<1>9. Spell(g, (a \o b) \o c) = Spell(g, a \o b) \o Spell(g, c)
  BY <1>5, <1>7, <1>8
<1>10. Spell(g, a \o b) = Spell(g, a) \o Spell(g, b)
  BY <1>5, <1>7, <1>8
<1>11. Spell(g, b) \in Seq(Parts)
  BY <1>1, <1>7, SpellType
<1>12. <<>> \o Spell(g, b) = Spell(g, b) /\ Spell(g, b) \o <<>> = Spell(g, b)
  BY <1>11, Unit
<1>13. Spell(g, TurnToInput(i)) = Spell(g, b)
  BY <1>4, <1>6, <1>9, <1>10, <1>12
<1> QED BY <1>13, BlocksSpelled DEF g, b

(* The input says what the history says. *)
LEMMA InputSpelled ==
  ASSUME TypeInv, NEW asText \in BOOLEAN
  PROVE  Spell(ItemSpeech(asText), MessagesToInput) = HistoryTokens(asText)
<1> DEFINE n == Len(history)
           g == ItemSpeech(asText)
           h == BlockSpeech(asText)
           bb == [i \in DOMAIN history |-> history[i].content.blocks]
           r == [i \in 1 .. n |-> Spell(h, history[i].content.blocks)]
<1>1. /\ Turns \in Seq(Seq(Input)) /\ Len(Turns) = n
      /\ DOMAIN history = 1 .. n /\ n \in Nat
      /\ \A i \in 1 .. n : Turns[i] = TurnToInput(i)
      /\ MessagesToInput = FlattenSeq(Turns)
  BY TurnsTyped
<1>2. Speech(g, Input, Parts) /\ Speech(h, Blocks, Parts)
  BY ItemSpeaks, BlockSpeaks
<1>3. \A i \in 1 .. n : history[i].content.blocks \in Seq(Blocks)
  BY <1>1, TurnShape
<1>4. HistoryTokens(asText) = Spell(h, FlattenSeq(bb))
  <2> DEFINE bs == BlocksOf(history)
  <2>1. bs = FlattenSeq(bb)
    BY DEF BlocksOf
  <2>2. bs \in Seq(Blocks)
    <3>1. bb \in [1 .. n -> Seq(Blocks)]
      BY <1>1, <1>3
    <3> HIDE DEF bb, n
    <3>2. bb \in Seq(Seq(Blocks))
      BY <1>1, <3>1
    <3>3. PICK fl \in [0 .. Len(bb) -> Seq(Blocks)] : FlattenSeq(bb) = fl[Len(bb)]
      BY <3>2, Flattening
    <3>4. Len(bb) \in 0 .. Len(bb)
      BY <3>2
    <3> QED BY <2>1, <3>3, <3>4
  <2>3. HistoryTokens(asText) = FlattenSeq([j \in DOMAIN bs |-> BlockTokens(bs[j], asText)])
    BY DEF HistoryTokens
  <2> HIDE DEF bs
  <2>4. \A j \in DOMAIN bs : BlockTokens(bs[j], asText) = h[bs[j]]
    <3> TAKE j \in DOMAIN bs
    <3>1. bs[j] \in Blocks
      BY <2>2
    <3> QED BY <3>1, BlockSpeaks
  <2>5. [j \in DOMAIN bs |-> BlockTokens(bs[j], asText)] = [j \in DOMAIN bs |-> h[bs[j]]]
    <3> HIDE DEF h
    <3> QED BY <2>4
  <2>6. Spell(h, bs) = FlattenSeq([j \in DOMAIN bs |-> h[bs[j]]])
    BY DEF Spell
  <2> QED BY <2>1, <2>3, <2>5, <2>6
<1>5. bb \in Seq(Seq(Blocks)) /\ Len(bb) = n /\ \A i \in 1 .. n : bb[i] = history[i].content.blocks
  <2>1. bb \in [1 .. n -> Seq(Blocks)] /\ \A i \in 1 .. n : bb[i] = history[i].content.blocks
    BY <1>1, <1>3
  <2> HIDE DEF bb, n
  <2> QED BY <1>1, <2>1
<1>6. r \in Seq(Seq(Parts)) /\ Len(r) = n /\ \A i \in 1 .. n : r[i] = Spell(h, history[i].content.blocks)
  <2> HIDE DEF h, n
  <2>1. \A i \in 1 .. n : Spell(h, history[i].content.blocks) \in Seq(Parts)
    BY <1>2, <1>3, SpellType
  <2>2. r \in [1 .. n -> Seq(Parts)] /\ \A i \in 1 .. n : r[i] = Spell(h, history[i].content.blocks)
    BY <1>1, <2>1
  <2> HIDE DEF r
  <2> QED BY <1>1, <2>2
<1>7. \A i \in 1 .. n : Spell(g, TurnToInput(i)) = Spell(h, history[i].content.blocks)
  BY <1>1, TurnSpelled
<1> HIDE DEF bb, r, g, h
<1>8. Spell(h, FlattenSeq(bb)) = FlattenSeq(r)
  <2>1. Len(r) = Len(bb) /\ \A i \in 1 .. Len(bb) : r[i] = Spell(h, bb[i])
    BY <1>5, <1>6
  <2> QED BY <1>2, <1>5, <1>6, <2>1, SpellFlatten
<1>9. Spell(g, FlattenSeq(Turns)) = FlattenSeq(r)
  <2>1. Len(r) = Len(Turns) /\ \A i \in 1 .. Len(Turns) : r[i] = Spell(g, Turns[i])
    BY <1>1, <1>6, <1>7
  <2> QED BY <1>1, <1>2, <1>6, <2>1, SpellFlatten
<1>10. Spell(g, MessagesToInput) = HistoryTokens(asText)
  BY <1>1, <1>4, <1>8, <1>9
<1> QED BY <1>10 DEF g

-----------------------------------------------------------------------------
(* The Chat Completions messages.                                          *)

ChatMessages ==
  {m \in [turn : Nat, role : {"user", "assistant", "system", "tool"},
          id : Ids \cup Thoughts \cup {""}, parts : Seq(Parts), calls : Seq(Ids),
          reasoning : Thoughts \cup {""}] :
     m.role = "tool" => m.id \in Ids}

Converted == [ok : BOOLEAN, out : Seq(ChatMessages)]

(* Every set of numbers up to n has a greatest element. *)
LEMMA GreatestNumber ==
  ASSUME NEW n \in Nat, NEW I \in SUBSET (1 .. n), I # {}
  PROVE  Max(I) \in I /\ \A j \in I : j <= Max(I)
<1> DEFINE D == {n - j : j \in I}
<1>1. D \in SUBSET Nat /\ D # {}
  OBVIOUS
<1> HIDE DEF D
<1>2. PICK d \in D : \A e \in D : d <= e
  BY <1>1, LeastNumber
<1>3. PICK m \in I : d = n - m
  BY DEF D
<1>4. \A j \in I : m >= j
  <2> TAKE j \in I
  <2>1. n - j \in D
    BY DEF D
  <2>2. n - m <= n - j
    BY <1>2, <1>3, <2>1
  <2> QED BY <2>2
<1>5. Max(I) \in I /\ \A j \in I : Max(I) >= j
  BY <1>4, Zenon DEF Max
<1>6. \A j \in I : j \in Int
  OBVIOUS
<1> QED BY <1>5, <1>6

LEMMA LastAssistantIs ==
  ASSUME NEW out \in Seq(ChatMessages)
  PROVE  /\ LastAssistant(out) # 0 =>
              /\ LastAssistant(out) \in 1 .. Len(out)
              /\ out[LastAssistant(out)].role = "assistant"
              /\ \A j \in 1 .. Len(out) : out[j].role = "assistant" => j <= LastAssistant(out)
         /\ LastAssistant(out) = 0 => \A j \in 1 .. Len(out) : out[j].role # "assistant"
<1> DEFINE I == {j \in 1 .. Len(out) : out[j].role = "assistant"}
<1>1. LastAssistant(out) = IF I # {} THEN Max(I) ELSE 0
  BY DEF LastAssistant, SelectLastInSeq
<1>2. I \in SUBSET (1 .. Len(out)) /\ Len(out) \in Nat
  OBVIOUS
<1>3. CASE I # {}
  <2>1. Max(I) \in I /\ \A j \in I : j <= Max(I)
    <3> HIDE DEF I
    <3> QED BY <1>2, <1>3, GreatestNumber
  <2>2. LastAssistant(out) = Max(I)
    BY <1>1, <1>3
  <2> DEFINE m == Max(I)
  <2> HIDE DEF m
  <2>3. m \in 1 .. Len(out) /\ out[m].role = "assistant" /\ LastAssistant(out) = m
    BY <2>1, <2>2 DEF m
  <2>4. \A j \in 1 .. Len(out) : out[j].role = "assistant" => j <= m
    BY <2>1 DEF m
  <2>5. m # 0
    BY <2>3
  <2> QED BY <2>3, <2>4, <2>5
<1>4. CASE I = {}
  <2>1. LastAssistant(out) = 0
    BY <1>1, <1>4
  <2>2. \A j \in 1 .. Len(out) : out[j].role # "assistant"
    BY <1>4
  <2> QED BY <2>1, <2>2
<1> QED BY <1>3, <1>4

LEMMA ChatMessageType ==
  ASSUME NEW x \in Items, NEW role \in {"user", "assistant", "system", "tool"},
         NEW parts \in Seq(Parts), NEW calls \in Seq(Ids), role = "tool" => x.id \in Ids
  PROVE  /\ ChatMessage(x, role, parts, calls) \in ChatMessages
         /\ ChatMessage(x, role, parts, calls).turn = x.turn
         /\ ChatMessage(x, role, parts, calls).role = role
         /\ ChatMessage(x, role, parts, calls).id = x.id
         /\ ChatMessage(x, role, parts, calls).parts = parts
         /\ ChatMessage(x, role, parts, calls).calls = calls
         /\ ChatMessage(x, role, parts, calls).reasoning = ""
<1> DEFINE m == ChatMessage(x, role, parts, calls)
<1>1. x.turn \in Nat /\ x.id \in Ids \cup Thoughts \cup {""}
  BY DEF Items
<1>2. m = [turn |-> x.turn, role |-> role, id |-> x.id, parts |-> parts, calls |-> calls,
           reasoning |-> ""]
  BY DEF ChatMessage
<1> HIDE DEF m
<1>3. m \in ChatMessages
  BY <1>1, <1>2 DEF ChatMessages
<1>4. /\ m.turn = x.turn /\ m.role = role /\ m.id = x.id /\ m.parts = parts
      /\ m.calls = calls /\ m.reasoning = ""
  BY <1>2
<1> QED BY <1>3, <1>4 DEF m

(* Items that have no counterpart. *)
Refused(out, x) ==
  \/ x.type = "message" /\ ~PartsConvert(x)
  \/ x.type = "chat_reasoning" /\ LastAssistant(out) = 0
  \/ x.type = "reasoning"

(* AddItem, item by item. *)
LEMMA AddItemIs ==
  ASSUME NEW s \in Converted, NEW x \in Input
  PROVE  /\ ~s.ok => AddItem(s, x) = s
         /\ s.ok /\ x.type = "message" /\ PartsConvert(x) =>
              AddItem(s, x) = [s EXCEPT !.out = Append(s.out, ChatMessage(x, x.role, x.parts, <<>>))]
         /\ s.ok /\ x.type = "function_call" /\ JoinsLast(s.out) =>
              AddItem(s, x) = [s EXCEPT !.out = JoinCall(s.out, x.id)]
         /\ s.ok /\ x.type = "function_call" /\ ~JoinsLast(s.out) =>
              AddItem(s, x) =
                [s EXCEPT !.out = Append(s.out, ChatMessage(x, "assistant", <<>>, <<x.id>>))]
         /\ s.ok /\ x.type = "function_call_output" =>
              AddItem(s, x) =
                [s EXCEPT !.out =
                   Append(s.out, ChatMessage(x, "tool", JsonValueToString(x.parts), <<>>))]
         /\ s.ok /\ x.type = "chat_reasoning" /\ LastAssistant(s.out) # 0 =>
              AddItem(s, x) = [s EXCEPT !.out = SetReasoning(s.out, x.id)]
         /\ s.ok /\ Refused(s.out, x) =>
              AddItem(s, x) = [s EXCEPT !.ok = FALSE]
<1>1. s.ok \in BOOLEAN /\ s = [ok |-> s.ok, out |-> s.out]
  BY DEF Converted
<1>2. ~s.ok => AddItem(s, x) = s
  BY <1>1 DEF AddItem
<1>3. ASSUME s.ok, x.type = "message", PartsConvert(x)
      PROVE  AddItem(s, x) = [s EXCEPT !.out = Append(s.out, ChatMessage(x, x.role, x.parts, <<>>))]
  BY <1>3 DEF AddItem
<1>4. ASSUME s.ok, x.type = "function_call", JoinsLast(s.out)
      PROVE  AddItem(s, x) = [s EXCEPT !.out = JoinCall(s.out, x.id)]
  BY <1>4 DEF AddItem
<1>5. ASSUME s.ok, x.type = "function_call", ~JoinsLast(s.out)
      PROVE  AddItem(s, x) =
               [s EXCEPT !.out = Append(s.out, ChatMessage(x, "assistant", <<>>, <<x.id>>))]
  BY <1>5 DEF AddItem
<1>6. ASSUME s.ok, x.type = "function_call_output"
      PROVE  AddItem(s, x) =
               [s EXCEPT !.out =
                  Append(s.out, ChatMessage(x, "tool", JsonValueToString(x.parts), <<>>))]
  BY <1>6 DEF AddItem
<1>7. ASSUME s.ok, x.type = "chat_reasoning", LastAssistant(s.out) # 0
      PROVE  AddItem(s, x) = [s EXCEPT !.out = SetReasoning(s.out, x.id)]
  BY <1>7 DEF AddItem
<1>8. ASSUME s.ok, Refused(s.out, x)
      PROVE  AddItem(s, x) = [s EXCEPT !.ok = FALSE]
  BY <1>8 DEF AddItem, Refused
<1> QED BY <1>2, <1>3, <1>4, <1>5, <1>6, <1>7, <1>8

LEMMA MessageShape ==
  ASSUME NEW m \in ChatMessages
  PROVE  /\ m.turn \in Nat /\ m.role \in {"user", "assistant", "system", "tool"}
         /\ m.id \in Ids \cup Thoughts \cup {""} /\ m.parts \in Seq(Parts)
         /\ m.calls \in Seq(Ids) /\ m.reasoning \in Thoughts \cup {""}
         /\ m.role = "tool" => m.id \in Ids
BY DEF ChatMessages

LEMMA CallJoined ==
  ASSUME NEW m \in ChatMessages, NEW id \in Ids, NEW c, c = [m EXCEPT !.calls = Append(m.calls, id)]
  PROVE  /\ c \in ChatMessages /\ c.calls = Append(m.calls, id)
         /\ c.turn = m.turn /\ c.role = m.role /\ c.id = m.id /\ c.parts = m.parts
         /\ c.reasoning = m.reasoning
<1>1. m.calls \in Seq(Ids)
  BY DEF ChatMessages
<1> DEFINE cs == Append(m.calls, id)
<1>2. cs \in Seq(Ids)
  BY <1>1
<1> HIDE DEF cs
<1>3. c = [m EXCEPT !.calls = cs]
  BY DEF cs
<1>4. /\ c \in ChatMessages /\ c.calls = cs
      /\ c.turn = m.turn /\ c.role = m.role /\ c.id = m.id /\ c.parts = m.parts
      /\ c.reasoning = m.reasoning
  BY <1>2, <1>3 DEF ChatMessages
<1> QED BY <1>4 DEF cs

LEMMA Thought ==
  ASSUME NEW m \in ChatMessages, NEW t \in Thoughts, NEW c, c = [m EXCEPT !.reasoning = t]
  PROVE  /\ c \in ChatMessages /\ c.reasoning = t
         /\ c.turn = m.turn /\ c.role = m.role /\ c.id = m.id /\ c.parts = m.parts
         /\ c.calls = m.calls
BY DEF ChatMessages

(* JoinCall and SetReasoning change one message, in one field. *)
LEMMA JoinCallIs ==
  ASSUME NEW out \in Seq(ChatMessages), JoinsLast(out), NEW id \in Ids,
         NEW r, r = JoinCall(out, id), NEW n, n = Len(out)
  PROVE  /\ n \in Nat /\ n # 0 /\ r \in Seq(ChatMessages) /\ Len(r) = n /\ out[n].role = "assistant"
         /\ \A j \in 1 .. n : j # n => r[j] = out[j]
         /\ r[n] \in ChatMessages /\ r[n].calls = Append(out[n].calls, id)
         /\ r[n].turn = out[n].turn /\ r[n].role = out[n].role /\ r[n].id = out[n].id
         /\ r[n].parts = out[n].parts /\ r[n].reasoning = out[n].reasoning
<1>1. n \in Nat /\ n # 0 /\ n \in 1 .. n /\ out \in [1 .. n -> ChatMessages] /\ out[n].role = "assistant"
  BY EmptySeq DEF JoinsLast, Last
<1> DEFINE m == out[n]
           c == [m EXCEPT !.calls = Append(m.calls, id)]
<1>2. r = [out EXCEPT ![n] = c]
  BY DEF JoinCall
<1>3. m \in ChatMessages
  BY <1>1
<1>4. c = [m EXCEPT !.calls = Append(m.calls, id)]
  OBVIOUS
<1> HIDE DEF c, m
<1>5. /\ c \in ChatMessages /\ c.calls = Append(m.calls, id)
      /\ c.turn = m.turn /\ c.role = m.role /\ c.id = m.id /\ c.parts = m.parts
      /\ c.reasoning = m.reasoning
  BY <1>3, <1>4, CallJoined
<1> USE DEF m
<1>6. r \in [1 .. n -> ChatMessages] /\ r[n] = c /\ \A j \in 1 .. n : j # n => r[j] = out[j]
  BY <1>1, <1>2, <1>5
<1>7. r \in Seq(ChatMessages) /\ Len(r) = n
  BY <1>1, <1>6
<1> QED BY <1>1, <1>5, <1>6, <1>7

LEMMA SetReasoningIs ==
  ASSUME NEW out \in Seq(ChatMessages), NEW l, l = LastAssistant(out), l # 0, NEW t \in Thoughts,
         NEW r, r = SetReasoning(out, t)
  PROVE  /\ l \in 1 .. Len(out) /\ r \in Seq(ChatMessages) /\ Len(r) = Len(out)
         /\ \A j \in 1 .. Len(out) : j # l => r[j] = out[j]
         /\ r[l].reasoning = t
         /\ r[l].turn = out[l].turn /\ r[l].role = out[l].role /\ r[l].id = out[l].id
         /\ r[l].parts = out[l].parts /\ r[l].calls = out[l].calls
<1> DEFINE n == Len(out)
<1>1. n \in Nat /\ l \in 1 .. n /\ out \in [1 .. n -> ChatMessages]
  BY LastAssistantIs
<1> DEFINE m == out[l]
           c == [m EXCEPT !.reasoning = t]
<1>2. r = [out EXCEPT ![l] = c]
  BY DEF SetReasoning
<1>3. m \in ChatMessages
  BY <1>1
<1>4. c = [m EXCEPT !.reasoning = t]
  OBVIOUS
<1> HIDE DEF c, n
<1>5. /\ c \in ChatMessages /\ c.reasoning = t
      /\ c.turn = m.turn /\ c.role = m.role /\ c.id = m.id /\ c.parts = m.parts
      /\ c.calls = m.calls
  BY <1>3, <1>4, Thought
<1>6. r \in [1 .. n -> ChatMessages] /\ r[l] = c /\ \A j \in 1 .. n : j # l => r[j] = out[j]
  BY <1>1, <1>2, <1>5
<1>7. r \in Seq(ChatMessages) /\ Len(r) = n
  BY <1>1, <1>6
<1> QED BY <1>1, <1>5, <1>6, <1>7 DEF n

LEMMA JsonType == ASSUME NEW p \in Seq(Parts) PROVE JsonValueToString(p) \in Seq(Parts)
<1>1. AsSent(p, TRUE) \in Seq(Parts)
  BY AsSentType
<1> QED BY <1>1 DEF AsSent

LEMMA ResultsTyped ==
  ASSUME NEW out \in Seq(ChatMessages), NEW ok \in BOOLEAN, NEW s, s = [ok |-> ok, out |-> out]
  PROVE  s \in Converted /\ s.ok = ok /\ s.out = out
BY DEF Converted

(* What AddItem adds. *)
LEMMA ItemAdded ==
  ASSUME NEW s \in Converted, NEW x \in Input
  PROVE  /\ AddItem(s, x) \in Converted
         /\ ~s.ok => AddItem(s, x) = s
         /\ s.ok /\ x.type = "message" /\ PartsConvert(x) =>
              AddItem(s, x).ok /\ AddItem(s, x).out = Append(s.out, ChatMessage(x, x.role, x.parts, <<>>))
         /\ s.ok /\ x.type = "function_call" /\ JoinsLast(s.out) =>
              AddItem(s, x).ok /\ AddItem(s, x).out = JoinCall(s.out, x.id)
         /\ s.ok /\ x.type = "function_call" /\ ~JoinsLast(s.out) =>
              /\ AddItem(s, x).ok
              /\ AddItem(s, x).out = Append(s.out, ChatMessage(x, "assistant", <<>>, <<x.id>>))
         /\ s.ok /\ x.type = "function_call_output" =>
              /\ AddItem(s, x).ok
              /\ AddItem(s, x).out = Append(s.out, ChatMessage(x, "tool", JsonValueToString(x.parts), <<>>))
         /\ s.ok /\ x.type = "chat_reasoning" /\ LastAssistant(s.out) # 0 =>
              AddItem(s, x).ok /\ AddItem(s, x).out = SetReasoning(s.out, x.id)
         /\ s.ok /\ Refused(s.out, x) => ~AddItem(s, x).ok /\ AddItem(s, x).out = s.out
<1>1. s.ok \in BOOLEAN /\ s.out \in Seq(ChatMessages) /\ s = [ok |-> s.ok, out |-> s.out]
  BY DEF Converted
<1>2. /\ x \in Items /\ x.parts \in Seq(Parts)
      /\ x.type \in {"message", "function_call", "function_call_output", "reasoning",
                     "chat_reasoning"}
      /\ x.type \in {"function_call", "function_call_output"} => x.id \in Ids
      /\ x.type = "message" => x.role \in {"user", "assistant", "system"}
      /\ x.type = "chat_reasoning" => x.id \in Thoughts
  BY DEF Input, Items
<1>3. ASSUME NEW o, [s EXCEPT !.out = o] = AddItem(s, x), o \in Seq(ChatMessages)
      PROVE  AddItem(s, x) \in Converted /\ AddItem(s, x).ok = s.ok /\ AddItem(s, x).out = o
  BY <1>1, <1>3 DEF Converted
<1>4. ASSUME ~s.ok
      PROVE  AddItem(s, x) \in Converted /\ AddItem(s, x) = s
  BY <1>4, AddItemIs
<1>5. ASSUME s.ok, x.type = "message", PartsConvert(x)
      PROVE  /\ AddItem(s, x) \in Converted
             /\ AddItem(s, x).ok /\ AddItem(s, x).out = Append(s.out, ChatMessage(x, x.role, x.parts, <<>>))
  <2> DEFINE r == x.role
             m == ChatMessage(x, r, x.parts, <<>>)
  <2>0. <<>> \in Seq(Ids) /\ r \in {"user", "assistant", "system", "tool"} /\ r # "tool"
    BY <1>2, <1>5
  <2>1. m \in ChatMessages
    <3> HIDE DEF r
    <3> QED BY <1>2, <2>0, ChatMessageType
  <2>2. AddItem(s, x) = [s EXCEPT !.out = Append(s.out, m)]
    BY <1>5, AddItemIs
  <2> HIDE DEF m
  <2>3. Append(s.out, m) \in Seq(ChatMessages)
    BY <1>1, <2>1
  <2>4. /\ AddItem(s, x) \in Converted
        /\ AddItem(s, x).ok /\ AddItem(s, x).out = Append(s.out, m)
    BY <1>3, <1>5, <2>2, <2>3
  <2> QED BY <2>4 DEF m
<1>6. ASSUME s.ok, x.type = "function_call", JoinsLast(s.out)
      PROVE  /\ AddItem(s, x) \in Converted
             /\ AddItem(s, x).ok /\ AddItem(s, x).out = JoinCall(s.out, x.id)
  <2>1. JoinCall(s.out, x.id) \in Seq(ChatMessages)
    BY <1>1, <1>2, <1>6, JoinCallIs
  <2>2. AddItem(s, x) = [s EXCEPT !.out = JoinCall(s.out, x.id)]
    BY <1>6, AddItemIs
  <2> QED BY <1>3, <1>6, <2>1, <2>2
<1>7. ASSUME s.ok, x.type = "function_call", ~JoinsLast(s.out)
      PROVE  /\ AddItem(s, x) \in Converted
             /\ AddItem(s, x).ok
             /\ AddItem(s, x).out = Append(s.out, ChatMessage(x, "assistant", <<>>, <<x.id>>))
  <2> DEFINE m == ChatMessage(x, "assistant", <<>>, <<x.id>>)
  <2>0. <<>> \in Seq(Parts) /\ <<x.id>> \in Seq(Ids)
    BY <1>2, <1>7
  <2>1. m \in ChatMessages
    BY <1>2, <2>0, ChatMessageType, ZenonT(60)
  <2>2. AddItem(s, x) = [s EXCEPT !.out = Append(s.out, m)]
    BY <1>7, AddItemIs
  <2> HIDE DEF m
  <2>3. Append(s.out, m) \in Seq(ChatMessages)
    BY <1>1, <2>1
  <2>4. /\ AddItem(s, x) \in Converted
        /\ AddItem(s, x).ok /\ AddItem(s, x).out = Append(s.out, m)
    BY <1>3, <1>7, <2>2, <2>3
  <2> QED BY <2>4 DEF m
<1>8. ASSUME s.ok, x.type = "function_call_output"
      PROVE  /\ AddItem(s, x) \in Converted
             /\ AddItem(s, x).ok
             /\ AddItem(s, x).out = Append(s.out, ChatMessage(x, "tool", JsonValueToString(x.parts), <<>>))
  <2> DEFINE p == JsonValueToString(x.parts)
             m == ChatMessage(x, "tool", p, <<>>)
  <2>0. p \in Seq(Parts) /\ <<>> \in Seq(Ids)
    BY <1>2, JsonType
  <2>1. m \in ChatMessages
    <3> HIDE DEF p
    <3> QED BY <1>2, <1>8, <2>0, ChatMessageType
  <2>2. AddItem(s, x) = [s EXCEPT !.out = Append(s.out, m)]
    BY <1>8, AddItemIs
  <2> HIDE DEF m
  <2>3. Append(s.out, m) \in Seq(ChatMessages)
    BY <1>1, <2>1
  <2>4. /\ AddItem(s, x) \in Converted
        /\ AddItem(s, x).ok /\ AddItem(s, x).out = Append(s.out, m)
    BY <1>3, <1>8, <2>2, <2>3
  <2> QED BY <2>4 DEF m
<1>9. ASSUME s.ok, x.type = "chat_reasoning", LastAssistant(s.out) # 0
      PROVE  /\ AddItem(s, x) \in Converted
             /\ AddItem(s, x).ok /\ AddItem(s, x).out = SetReasoning(s.out, x.id)
  <2>1. SetReasoning(s.out, x.id) \in Seq(ChatMessages)
    BY <1>1, <1>2, <1>9, SetReasoningIs
  <2>2. AddItem(s, x) = [s EXCEPT !.out = SetReasoning(s.out, x.id)]
    BY <1>9, AddItemIs
  <2> QED BY <1>3, <1>9, <2>1, <2>2
<1>10. ASSUME s.ok, Refused(s.out, x)
       PROVE  AddItem(s, x) \in Converted /\ ~AddItem(s, x).ok /\ AddItem(s, x).out = s.out
  <2>1. AddItem(s, x) = [s EXCEPT !.ok = FALSE]
    BY <1>10, AddItemIs
  <2>2. AddItem(s, x) = [ok |-> FALSE, out |-> s.out]
    BY <1>1, <2>1
  <2> QED BY <1>1, <2>2, ResultsTyped
<1>11. \/ ~s.ok
       \/ s.ok /\ x.type = "message" /\ PartsConvert(x)
       \/ s.ok /\ x.type = "function_call" /\ JoinsLast(s.out)
       \/ s.ok /\ x.type = "function_call" /\ ~JoinsLast(s.out)
       \/ s.ok /\ x.type = "function_call_output"
       \/ s.ok /\ x.type = "chat_reasoning" /\ LastAssistant(s.out) # 0
       \/ s.ok /\ Refused(s.out, x)
  BY <1>2 DEF Refused
<1>12. AddItem(s, x) \in Converted
  BY <1>4, <1>5, <1>6, <1>7, <1>8, <1>9, <1>10, <1>11
<1> QED BY <1>4, <1>5, <1>6, <1>7, <1>8, <1>9, <1>10, <1>12

(* Induction over sequences, with a set in the place of the predicate. *)
LEMMA SeqInduction ==
  ASSUME NEW X, NEW M \in SUBSET Seq(X), <<>> \in M, \A s \in M, x \in X : Append(s, x) \in M
  PROVE  M = Seq(X)
<1> DEFINE T == {n \in Nat : \A v \in Seq(X) : Len(v) = n => v \in M}
<1>1. 0 \in T
  <2>1. \A v \in Seq(X) : Len(v) = 0 => v = <<>>
    OBVIOUS
  <2> QED BY <2>1
<1>2. ASSUME NEW n \in T PROVE n + 1 \in T
  <2> SUFFICES ASSUME NEW v \in Seq(X), Len(v) = n + 1 PROVE v \in M
    OBVIOUS
  <2>1. n \in Nat /\ v # <<>>
    OBVIOUS
  <2>2. PICK u \in Seq(X), x \in X : v = Append(u, x) /\ Len(u) + 1 = Len(v)
    BY <2>1, SplitLast
  <2>3. Len(u) = n
    BY <2>1, <2>2
  <2>4. u \in M
    BY <2>3
  <2> QED BY <2>2, <2>4
<1>3. T = Nat
  <2>1. T \in SUBSET Nat
    OBVIOUS
  <2> HIDE DEF T
  <2> QED BY <1>1, <1>2, <2>1, NumberInduction
<1>4. ASSUME NEW v \in Seq(X) PROVE v \in M
  <2>1. Len(v) \in T
    <3> HIDE DEF T
    <3> QED BY <1>3
  <2> QED BY <2>1
<1> QED BY <1>4

(* The items s turn the conversion a into b. *)
Converts(a, s, b) ==
  \E f \in [0 .. Len(s) -> Converted] :
    /\ f[0] = a
    /\ \A n \in 1 .. Len(s) : f[n] = AddItem(f[n - 1], s[n])
    /\ f[Len(s)] = b

LEMMA ConvertsTyped ==
  ASSUME NEW s \in Seq(Input), NEW a, NEW b, Converts(a, s, b)
  PROVE  a \in Converted /\ b \in Converted
<1>1. PICK f \in [0 .. Len(s) -> Converted] : f[0] = a /\ f[Len(s)] = b
  BY DEF Converts
<1>2. 0 \in 0 .. Len(s) /\ Len(s) \in 0 .. Len(s)
  OBVIOUS
<1> QED BY <1>1, <1>2

LEMMA NoItems == \A a \in Converted : \A b : Converts(a, <<>>, b) <=> b = a
<1> SUFFICES ASSUME NEW a \in Converted, NEW b PROVE Converts(a, <<>>, b) <=> b = a
  OBVIOUS
<1>1. ASSUME Converts(a, <<>>, b) PROVE b = a
  BY <1>1 DEF Converts
<1>2. ASSUME b = a PROVE Converts(a, <<>>, b)
  <2> DEFINE f == [n \in 0 .. 0 |-> a]
  <2>1. f \in [0 .. 0 -> Converted] /\ f[0] = a /\ f[Len(<<>>)] = b /\ Len(<<>>) = 0
    BY <1>2
  <2>2. \A n \in 1 .. 0 : f[n] = AddItem(f[n - 1], <<>>[n])
    OBVIOUS
  <2> HIDE DEF f
  <2> QED BY <2>1, <2>2 DEF Converts
<1> QED BY <1>1, <1>2

LEMMA OneItemMore ==
  ASSUME NEW s \in Seq(Input), NEW x \in Input, NEW a, NEW b, Converts(a, s, b)
  PROVE  Converts(a, Append(s, x), AddItem(b, x))
<1> DEFINE n == Len(s)
           t == Append(s, x)
<1>1. PICK f \in [0 .. n -> Converted] :
        f[0] = a /\ (\A k \in 1 .. n : f[k] = AddItem(f[k - 1], s[k])) /\ f[n] = b
  BY DEF Converts
<1>2. n \in Nat /\ Len(t) = n + 1 /\ t[n + 1] = x /\ \A k \in 1 .. n : t[k] = s[k]
  OBVIOUS
<1>3. AddItem(b, x) \in Converted
  <2>1. b \in Converted
    BY <1>1, <1>2
  <2> QED BY <2>1, ItemAdded
<1> HIDE DEF n, t
<1> DEFINE g == [k \in 0 .. n + 1 |-> IF k = n + 1 THEN AddItem(b, x) ELSE f[k]]
<1>4. g \in [0 .. n + 1 -> Converted] /\ g[0] = a /\ g[n + 1] = AddItem(b, x) /\ g[n] = b
  BY <1>1, <1>2, <1>3
<1>5. \A k \in 1 .. n : g[k] = f[k] /\ g[k - 1] = f[k - 1]
  BY <1>2
<1> HIDE DEF g
<1>6. ASSUME NEW k \in 1 .. n + 1 PROVE g[k] = AddItem(g[k - 1], t[k])
  <2>1. CASE k = n + 1
    <3>1. k - 1 = n
      BY <1>2, <2>1
    <3> QED BY <1>2, <1>4, <2>1, <3>1
  <2>2. CASE k # n + 1
    <3>1. k \in 1 .. n
      BY <1>2, <2>2
    <3> QED BY <1>1, <1>2, <1>5, <3>1
  <2> QED BY <2>1, <2>2
<1>7. Converts(a, t, AddItem(b, x))
  BY <1>2, <1>4, <1>6 DEF Converts
<1> QED BY <1>7 DEF t

LEMMA OneItemLess ==
  ASSUME NEW s \in Seq(Input), NEW x \in Input, NEW a, NEW c, Converts(a, Append(s, x), c)
  PROVE  \E b \in Converted : Converts(a, s, b) /\ c = AddItem(b, x)
<1> DEFINE n == Len(s)
           t == Append(s, x)
<1>1. n \in Nat /\ Len(t) = n + 1 /\ t[n + 1] = x /\ \A k \in 1 .. n : t[k] = s[k]
  OBVIOUS
<1> HIDE DEF t, n
<1>2. PICK f \in [0 .. n + 1 -> Converted] :
        f[0] = a /\ (\A k \in 1 .. n + 1 : f[k] = AddItem(f[k - 1], t[k])) /\ f[n + 1] = c
  <2>1. Converts(a, t, c)
    BY DEF t
  <2> QED BY <1>1, <2>1 DEF Converts
<1> DEFINE g == [k \in 0 .. n |-> f[k]]
<1>3. g \in [0 .. n -> Converted] /\ g[0] = a /\ g[n] = f[n] /\ f[n] \in Converted
  BY <1>1, <1>2
<1>4. \A k \in 1 .. n : g[k] = AddItem(g[k - 1], s[k])
  <2> TAKE k \in 1 .. n
  <2>1. k \in 1 .. n + 1 /\ g[k] = f[k] /\ g[k - 1] = f[k - 1]
    BY <1>1
  <2>2. f[k] = AddItem(f[k - 1], t[k])
    BY <1>2, <2>1
  <2> QED BY <1>1, <2>1, <2>2
<1>5. c = AddItem(f[n], x)
  <2>1. n + 1 \in 1 .. n + 1 /\ (n + 1) - 1 = n
    BY <1>1
  <2> QED BY <1>1, <1>2, <2>1
<1> HIDE DEF g
<1>6. Converts(a, s, f[n])
  BY <1>3, <1>4 DEF Converts, n
<1> QED BY <1>3, <1>5, <1>6

(* A conversion goes through the boundary of two parts. *)
LEMMA ConvertsJoin ==
  ASSUME NEW s \in Seq(Input), NEW t \in Seq(Input), NEW a, NEW c, Converts(a, s \o t, c)
  PROVE  \E b \in Converted : Converts(a, s, b) /\ Converts(b, t, c)
<1> DEFINE Splits(v) == \A e : Converts(a, s \o v, e) =>
                          \E b \in Converted : Converts(a, s, b) /\ Converts(b, v, e)
           M == {v \in Seq(Input) : Splits(v)}
<1>1. Splits(<<>>)
  <2> SUFFICES ASSUME NEW e, Converts(a, s \o <<>>, e)
               PROVE  \E b \in Converted : Converts(a, s, b) /\ Converts(b, <<>>, e)
    OBVIOUS
  <2>1. Converts(a, s, e)
    BY Unit
  <2>2. e \in Converted
    BY <2>1, ConvertsTyped
  <2> QED BY <2>1, <2>2, NoItems
<1>2. ASSUME NEW v \in Seq(Input), Splits(v), NEW x \in Input PROVE Splits(Append(v, x))
  <2> SUFFICES ASSUME NEW e, Converts(a, s \o Append(v, x), e)
               PROVE  \E b \in Converted : Converts(a, s, b) /\ Converts(b, Append(v, x), e)
    OBVIOUS
  <2>1. s \o Append(v, x) = Append(s \o v, x) /\ s \o v \in Seq(Input)
    <3>1. Append(v, x) = v \o <<x>> /\ <<x>> \in Seq(Input)
      BY Appended, Zenon
    <3>2. s \o v \in Seq(Input)
      BY Joined, Zenon
    <3>3. (s \o v) \o <<x>> = s \o (v \o <<x>>)
      BY <3>1, Assoc
    <3>4. Append(s \o v, x) = (s \o v) \o <<x>>
      BY <3>2, Appended, Zenon
    <3> QED BY <3>1, <3>2, <3>3, <3>4, Zenon
  <2> DEFINE w == s \o v
  <2>2. w \in Seq(Input) /\ Converts(a, Append(w, x), e)
    BY <2>1
  <2> HIDE DEF w
  <2>3. PICK d \in Converted : Converts(a, w, d) /\ e = AddItem(d, x)
    BY <2>2, OneItemLess
  <2>4. PICK b \in Converted : Converts(a, s, b) /\ Converts(b, v, d)
    BY <1>2, <2>3 DEF w
  <2>5. Converts(b, Append(v, x), e)
    BY <2>3, <2>4, OneItemMore
  <2> QED BY <2>4, <2>5
<1> HIDE DEF Splits
<1>3. M = Seq(Input)
  <2>1. M \in SUBSET Seq(Input) /\ <<>> \in M
    BY <1>1
  <2>2. \A v \in M, x \in Input : Append(v, x) \in M
    BY <1>2
  <2> HIDE DEF M
  <2> QED BY <2>1, <2>2, SeqInduction
<1>4. Splits(t)
  BY <1>3
<1> QED BY <1>4 DEF Splits

(* A conversion of joined parts, part by part: what holds after i parts is *)
(* in I[i].                                                                *)
LEMMA ConvertsFlatten ==
  ASSUME NEW q \in Seq(Seq(Input)), NEW a \in Converted, NEW e, Converts(a, FlattenSeq(q), e),
         NEW I, a \in I[0],
         \A i \in 1 .. Len(q) : \A b, c \in Converted :
           b \in I[i - 1] /\ Converts(b, q[i], c) => c \in I[i]
  PROVE  e \in I[Len(q)]
<1>1. PICK fl \in [0 .. Len(q) -> Seq(Input)] :
        /\ fl[0] = <<>>
        /\ \A i \in 1 .. Len(q) : fl[i] = fl[i - 1] \o q[i]
        /\ FlattenSeq(q) = fl[Len(q)]
  BY Flattening
<1> DEFINE Good(n) == \A c \in Converted : Converts(a, fl[n], c) => c \in I[n]
           T == {n \in Nat : n <= Len(q) => Good(n)}
<1>2. Good(0)
  BY <1>1, NoItems
<1>3. ASSUME NEW n \in Nat, n + 1 <= Len(q), Good(n) PROVE Good(n + 1)
  <2> SUFFICES ASSUME NEW c \in Converted, Converts(a, fl[n + 1], c) PROVE c \in I[n + 1]
    OBVIOUS
  <2>1. n \in 0 .. Len(q) /\ n + 1 \in 1 .. Len(q) /\ (n + 1) - 1 = n
    BY <1>3
  <2>2. fl[n] \in Seq(Input) /\ q[n + 1] \in Seq(Input) /\ fl[n + 1] = fl[n] \o q[n + 1]
    <3>1. fl[n] \in Seq(Input)
      BY <1>1, <2>1
    <3>2. q[n + 1] \in Seq(Input)
      BY <2>1
    <3>3. fl[n + 1] = fl[n] \o q[n + 1]
      BY <1>1, <2>1
    <3> QED BY <3>1, <3>2, <3>3
  <2>3. PICK b \in Converted : Converts(a, fl[n], b) /\ Converts(b, q[n + 1], c)
    BY <2>2, ConvertsJoin
  <2>4. b \in I[n]
    BY <1>3, <2>3
  <2> QED BY <2>1, <2>3, <2>4
<1> HIDE DEF Good
<1>4. T = Nat
  <2>1. T \in SUBSET Nat /\ 0 \in T
    BY <1>2
  <2>2. ASSUME NEW n \in T PROVE n + 1 \in T
    <3>1. n \in Nat
      OBVIOUS
    <3> SUFFICES ASSUME n + 1 <= Len(q) PROVE Good(n + 1)
      OBVIOUS
    <3>2. n <= Len(q)
      BY <3>1
    <3> QED BY <1>3, <3>1, <3>2
  <2> HIDE DEF T
  <2> QED BY <2>1, <2>2, NumberInduction
<1>5. Good(Len(q))
  <2>1. Len(q) \in Nat
    OBVIOUS
  <2>2. Len(q) \in T
    BY <1>4, <2>1
  <2> QED BY <2>1, <2>2
<1>6. FlattenSeq(q) = fl[Len(q)] /\ FlattenSeq(q) \in Seq(Input)
  <2>1. Len(q) \in 0 .. Len(q)
    OBVIOUS
  <2> QED BY <1>1, <2>1
<1>7. e \in Converted
  BY <1>6, ConvertsTyped
<1> QED BY <1>5, <1>6, <1>7 DEF Good

Start == [ok |-> TRUE, out |-> <<>>]

LEMMA StartTyped == Start \in Converted /\ Start.ok /\ Start.out = <<>>
BY DEF Start, Converted

(* ResponsesInputToChat converts the input, item by item. *)
LEMMA ChatConverts ==
  ASSUME TypeInv
  PROVE  Converts(Start, MessagesToInput, ResponsesInputToChat)
<1> DEFINE s == MessagesToInput
           N == Len(s)
           F == [k \in 1 .. N |-> [c \in Converted |-> AddItem(c, s[k])]]
<1>1. s \in Seq(Input) /\ N \in Nat /\ \A k \in 1 .. N : s[k] \in Input
  <2>1. s \in Seq(Input)
    BY InputTyped
  <2> HIDE DEF s
  <2> QED BY <2>1
<1>2. \A k \in 1 .. N : \A c \in Converted : AddItem(c, s[k]) \in Converted
  BY <1>1, ItemAdded
<1>3. ResponsesInputToChat =
        (CHOOSE g : g = [n \in 0 .. N |-> IF n = 0 THEN Start ELSE AddItem(g[n - 1], s[n])])[N]
  BY DEF ResponsesInputToChat, Start
<1> HIDE DEF s
<1>4. F \in [1 .. N -> [Converted -> Converted]]
  BY <1>2
<1>5. \A k \in 1 .. N : \A c \in Converted : F[k][c] = AddItem(c, s[k])
  OBVIOUS
<1> HIDE DEF F, N
<1>6. PICK f \in [0 .. N -> Converted] : f[0] = Start /\ \A k \in 1 .. N : f[k] = F[k][f[k - 1]]
  <2>1. N \in Nat
    BY <1>1
  <2>2. PICK f : Follows(f, Converted, N, Start, F)
    BY <1>4, <2>1, StartTyped, Recursion
  <2> QED BY <2>2 DEF Follows
<1>7. \A k \in 1 .. N : f[k] = AddItem(f[k - 1], s[k])
  <2> TAKE k \in 1 .. N
  <2>1. k - 1 \in 0 .. N
    BY <1>1
  <2> QED BY <1>5, <1>6, <2>1
<1> DEFINE Fits(g) == g = [n \in 0 .. N |-> IF n = 0 THEN Start ELSE AddItem(g[n - 1], s[n])]
           c == CHOOSE g : Fits(g)
<1>8. Fits(f)
  <2>1. \A n \in 0 .. N : f[n] = IF n = 0 THEN Start ELSE AddItem(f[n - 1], s[n])
    <3> TAKE n \in 0 .. N
    <3>1. CASE n = 0 BY <1>6, <3>1
    <3>2. CASE n # 0
      <4>1. n \in 1 .. N
        BY <1>1, <3>2
      <4> QED BY <1>7, <3>2, <4>1
    <3> QED BY <3>1, <3>2
  <2> QED BY <2>1
<1>9. Fits(c)
  <2> HIDE DEF Fits
  <2> QED BY <1>8, Zenon
<1>10. ResponsesInputToChat = c[N]
  BY <1>3
<1> HIDE DEF c
<1> DEFINE T == {n \in Nat : n <= N => c[n] = f[n]}
<1>11. 0 \in T
  <2>1. 0 \in 0 .. N
    BY <1>1
  <2>2. c[0] = Start
    BY <1>9, <2>1
  <2> QED BY <1>6, <2>2
<1>12. ASSUME NEW n \in T PROVE n + 1 \in T
  <2> SUFFICES ASSUME n + 1 <= N PROVE c[n + 1] = f[n + 1]
    OBVIOUS
  <2>1. n \in Nat /\ n + 1 \in 1 .. N /\ n + 1 \in 0 .. N /\ n + 1 # 0 /\ (n + 1) - 1 = n /\ c[n] = f[n]
    BY <1>1
  <2>2. c[n + 1] = AddItem(c[n], s[n + 1])
    BY <1>9, <2>1
  <2>3. f[n + 1] = AddItem(f[n], s[n + 1])
    BY <1>7, <2>1
  <2> QED BY <2>1, <2>2, <2>3
<1>13. T = Nat
  <2>1. T \in SUBSET Nat
    OBVIOUS
  <2> HIDE DEF T
  <2> QED BY <1>11, <1>12, <2>1, NumberInduction
<1>14. c[N] = f[N]
  <2>1. N \in T
    <3> HIDE DEF T
    <3> QED BY <1>1, <1>13
  <2> QED BY <1>1, <2>1
<1>15. f[N] = ResponsesInputToChat
  BY <1>10, <1>14
<1>16. Converts(Start, s, ResponsesInputToChat)
  BY <1>6, <1>7, <1>15 DEF Converts, N
<1> QED BY <1>16 DEF s

-----------------------------------------------------------------------------
(* The messages say what the items say.                                    *)

ChatSpeech == [m \in ChatMessages |-> ChatTokens(m)]

CallTokens(calls) == [k \in DOMAIN calls |-> Part("call", calls[k])]

LEMMA CallTokensType ==
  ASSUME NEW calls \in Seq(Ids)
  PROVE  CallTokens(calls) \in Seq(Parts)
<1> DEFINE n == Len(calls)
           u == CallTokens(calls)
<1>1. n \in Nat /\ DOMAIN calls = 1 .. n /\ \A k \in 1 .. n : calls[k] \in Ids
  OBVIOUS
<1>2. \A i \in Ids : Part("call", i) \in Parts
  BY PartShape DEF Vals
<1> HIDE DEF n
<1>3. u = [k \in 1 .. n |-> Part("call", calls[k])]
  BY <1>1 DEF CallTokens
<1> HIDE DEF u
<1>4. u \in [1 .. n -> Parts]
  BY <1>1, <1>2, <1>3
<1>5. u \in Seq(Parts)
  BY <1>1, <1>4
<1> QED BY <1>5 DEF u

LEMMA CallTokensIs ==
  ASSUME NEW calls \in Seq(Ids), NEW id \in Ids
  PROVE  /\ CallTokens(calls) \in Seq(Parts)
         /\ CallTokens(Append(calls, id)) = CallTokens(calls) \o <<Part("call", id)>>
<1> DEFINE n == Len(calls)
           d == Append(calls, id)
           u == CallTokens(calls)
           v == CallTokens(d)
           p == Part("call", id)
<1>1. n \in Nat /\ DOMAIN calls = 1 .. n /\ \A k \in 1 .. n : calls[k] \in Ids
  OBVIOUS
<1>2. DOMAIN d = 1 .. n + 1 /\ d[n + 1] = id /\ \A k \in 1 .. n : d[k] = calls[k]
  OBVIOUS
<1>3. \A i \in Ids : Part("call", i) \in Parts
  BY PartShape DEF Vals
<1> HIDE DEF n, d
<1>4. u = [k \in 1 .. n |-> Part("call", calls[k])]
  BY <1>1 DEF CallTokens
<1>5. v = [k \in 1 .. n + 1 |-> Part("call", d[k])]
  BY <1>2 DEF CallTokens
<1> HIDE DEF u, v
<1>6. u \in [1 .. n -> Parts]
  BY <1>1, <1>3, <1>4
<1>7. u \in Seq(Parts) /\ Len(u) = n
  BY <1>1, <1>6
<1>8. p \in Parts
  BY <1>3
<1>9. \A k \in 1 .. n : v[k] = u[k]
  BY <1>1, <1>2, <1>4, <1>5
<1>10. v[n + 1] = p
  BY <1>1, <1>2, <1>5
<1> HIDE DEF p
<1>11. v \in [1 .. n + 1 -> Parts]
  <2>1. \A k \in 1 .. n + 1 : v[k] \in Parts
    <3> TAKE k \in 1 .. n + 1
    <3>1. CASE k = n + 1 BY <1>8, <1>10, <3>1
    <3>2. CASE k # n + 1
      <4>1. k \in 1 .. n
        BY <1>1, <3>2
      <4> QED BY <1>6, <1>9, <4>1
    <3> QED BY <3>1, <3>2
  <2>2. DOMAIN v = 1 .. n + 1
    BY <1>5
  <2>3. v = [k \in 1 .. n + 1 |-> v[k]]
    BY <1>5
  <2> QED BY <2>1, <2>3
<1>12. v \in Seq(Parts) /\ Len(v) = n + 1
  BY <1>1, <1>11
<1>13. u \o <<p>> \in Seq(Parts) /\ Len(u \o <<p>>) = n + 1
  BY <1>1, <1>7, <1>8
<1>14. \A k \in 1 .. n + 1 : (u \o <<p>>)[k] = v[k]
  <2> TAKE k \in 1 .. n + 1
  <2>1. CASE k = n + 1
    BY <1>1, <1>7, <1>8, <1>10, <2>1
  <2>2. CASE k # n + 1
    BY <1>1, <1>7, <1>8, <1>9, <2>2
  <2> QED BY <2>1, <2>2
<1>15. v = u \o <<p>>
  BY <1>12, <1>13, <1>14, SeqEqual
<1> QED BY <1>7, <1>15 DEF u, v, d, p

LEMMA NoCallTokens == CallTokens(<<>>) = <<>>
BY DEF CallTokens

LEMMA ChatSpeaks ==
  /\ Speech(ChatSpeech, ChatMessages, Parts)
  /\ \A m \in ChatMessages : ChatSpeech[m] = ChatTokens(m) /\ ChatTokens(m) \in Seq(Parts)
<1>1. ASSUME NEW m \in ChatMessages PROVE ChatTokens(m) \in Seq(Parts)
  <2>1. m.parts \in Seq(Parts) /\ m.calls \in Seq(Ids) /\ (m.role = "tool" => m.id \in Ids)
    BY MessageShape
  <2>2. CASE m.role = "tool"
    <3>1. Part("result", m.id) \in Parts
      BY <2>1, <2>2, PartShape DEF Vals
    <3>2. <<Part("result", m.id)>> \in Seq(Parts)
      BY <3>1, OnePart
    <3>3. ChatTokens(m) = <<Part("result", m.id)>> \o m.parts
      BY <2>2 DEF ChatTokens
    <3> QED BY <2>1, <3>2, <3>3, Joined
  <2>3. CASE m.role # "tool"
    <3>1. ChatTokens(m) = m.parts \o CallTokens(m.calls)
      BY <2>3 DEF ChatTokens, CallTokens
    <3>2. CallTokens(m.calls) \in Seq(Parts)
      BY <2>1, CallTokensType
    <3> QED BY <2>1, <3>1, <3>2, Joined
  <2> QED BY <2>2, <2>3
<1>2. \A m \in ChatMessages : ChatSpeech[m] = ChatTokens(m)
  BY DEF ChatSpeech
<1> QED BY <1>1, <1>2 DEF Speech

LEMMA MessageMore ==
  \A out \in Seq(ChatMessages), m \in ChatMessages :
    Spell(ChatSpeech, Append(out, m)) = Spell(ChatSpeech, out) \o ChatTokens(m)
<1> SUFFICES ASSUME NEW out \in Seq(ChatMessages), NEW m \in ChatMessages
             PROVE  Spell(ChatSpeech, Append(out, m)) = Spell(ChatSpeech, out) \o ChatTokens(m)
  OBVIOUS
<1>1. Spell(ChatSpeech, Append(out, m)) = Spell(ChatSpeech, out) \o ChatSpeech[m]
  BY ChatSpeaks, SpellAppend
<1> QED BY <1>1, ChatSpeaks

(* Messages of the same length that say the same, one by one. *)
LEMMA SpellAlike ==
  ASSUME NEW u \in Seq(ChatMessages), NEW v \in Seq(ChatMessages), Len(u) = Len(v),
         \A j \in 1 .. Len(u) : ChatTokens(u[j]) = ChatTokens(v[j])
  PROVE  Spell(ChatSpeech, u) = Spell(ChatSpeech, v)
<1>1. DOMAIN u = 1 .. Len(u) /\ DOMAIN v = 1 .. Len(u)
  OBVIOUS
<1>2. \A j \in 1 .. Len(u) : ChatSpeech[u[j]] = ChatSpeech[v[j]]
  <2> TAKE j \in 1 .. Len(u)
  <2>1. u[j] \in ChatMessages /\ v[j] \in ChatMessages
    OBVIOUS
  <2> QED BY <2>1, ChatSpeaks
<1>3. [j \in DOMAIN u |-> ChatSpeech[u[j]]] = [j \in DOMAIN v |-> ChatSpeech[v[j]]]
  BY <1>1, <1>2
<1> QED BY <1>3 DEF Spell

LEMMA JoinedCallSays ==
  ASSUME NEW out \in Seq(ChatMessages), JoinsLast(out), NEW id \in Ids
  PROVE  Spell(ChatSpeech, JoinCall(out, id)) = Spell(ChatSpeech, out) \o <<Part("call", id)>>
<1> DEFINE r == JoinCall(out, id)
           n == Len(out)
           p == <<Part("call", id)>>
<1>1. /\ n \in Nat /\ n # 0 /\ r \in Seq(ChatMessages) /\ Len(r) = n /\ out[n].role = "assistant"
      /\ \A j \in 1 .. n : j # n => r[j] = out[j]
      /\ r[n] \in ChatMessages /\ r[n].calls = Append(out[n].calls, id)
      /\ r[n].role = out[n].role /\ r[n].parts = out[n].parts
  BY JoinCallIs
<1>2. p \in Seq(Parts)
  BY PartShape, OnePart DEF Vals
<1>3. out # <<>>
  BY DEF JoinsLast
<1> HIDE DEF r
<1>4. PICK u \in Seq(ChatMessages), m \in ChatMessages : out = Append(u, m) /\ Len(u) + 1 = Len(out)
  BY <1>3, SplitLast
<1>5. Len(u) \in Nat /\ n = Len(u) + 1 /\ out[n] = m /\ \A j \in 1 .. Len(u) : out[j] = u[j]
  BY <1>4
<1> HIDE DEF n
<1> DEFINE c == r[n]
<1>6. r = Append(u, c)
  <2>1. c \in ChatMessages /\ r[n] = c
    BY <1>1
  <2> HIDE DEF c
  <2>2. Append(u, c) \in Seq(ChatMessages) /\ Len(Append(u, c)) = n
    BY <1>5, <2>1
  <2>3. \A j \in 1 .. n : Append(u, c)[j] = r[j]
    <3> TAKE j \in 1 .. n
    <3>1. CASE j = n
      BY <1>5, <2>1, <3>1
    <3>2. CASE j # n
      <4>1. j \in 1 .. Len(u) /\ r[j] = out[j] /\ out[j] = u[j]
        BY <1>1, <1>5, <3>2
      <4>2. Append(u, c)[j] = u[j]
        BY <2>1, <4>1
      <4> QED BY <4>1, <4>2
    <3> QED BY <3>1, <3>2
  <2> QED BY <1>1, <2>2, <2>3, SeqEqual
<1>7. ChatTokens(c) = ChatTokens(m) \o p
  <2>1. m.parts \in Seq(Parts) /\ m.calls \in Seq(Ids)
    BY MessageShape
  <2>2. ChatTokens(m) = m.parts \o CallTokens(m.calls)
    BY <1>1, <1>5 DEF ChatTokens, CallTokens
  <2>3. ChatTokens(c) = m.parts \o CallTokens(Append(m.calls, id))
    <3>1. c.role # "tool" /\ c.parts = m.parts /\ c.calls = Append(m.calls, id)
      BY <1>1, <1>5
    <3> HIDE DEF c
    <3> QED BY <3>1 DEF ChatTokens, CallTokens
  <2>4. CallTokens(m.calls) \in Seq(Parts) /\ CallTokens(Append(m.calls, id)) = CallTokens(m.calls) \o p
    BY <2>1, CallTokensIs
  <2>5. (m.parts \o CallTokens(m.calls)) \o p = m.parts \o (CallTokens(m.calls) \o p)
    BY <1>2, <2>1, <2>4, PartAssoc
  <2> QED BY <2>2, <2>3, <2>4, <2>5
<1>8. c \in ChatMessages
  BY <1>1
<1> HIDE DEF c, p
<1>9. Spell(ChatSpeech, out) = Spell(ChatSpeech, u) \o ChatTokens(m)
  BY <1>4, MessageMore
<1>10. Spell(ChatSpeech, r) = Spell(ChatSpeech, u) \o ChatTokens(c)
  BY <1>6, <1>8, MessageMore
<1>11. Spell(ChatSpeech, u) \in Seq(Parts) /\ ChatTokens(m) \in Seq(Parts)
  BY ChatSpeaks, SpellType
<1>12. (Spell(ChatSpeech, u) \o ChatTokens(m)) \o p = Spell(ChatSpeech, u) \o (ChatTokens(m) \o p)
  BY <1>2, <1>11, PartAssoc
<1> QED BY <1>7, <1>9, <1>10, <1>12 DEF r, p

LEMMA ReasoningSays ==
  ASSUME NEW out \in Seq(ChatMessages), LastAssistant(out) # 0, NEW t \in Thoughts
  PROVE  Spell(ChatSpeech, SetReasoning(out, t)) = Spell(ChatSpeech, out)
<1> DEFINE r == SetReasoning(out, t)
           l == LastAssistant(out)
<1>1. /\ l \in 1 .. Len(out) /\ r \in Seq(ChatMessages) /\ Len(r) = Len(out)
      /\ \A j \in 1 .. Len(out) : j # l => r[j] = out[j]
      /\ r[l].role = out[l].role /\ r[l].id = out[l].id
      /\ r[l].parts = out[l].parts /\ r[l].calls = out[l].calls
  BY SetReasoningIs
<1> HIDE DEF r, l
<1>2. ChatTokens(r[l]) = ChatTokens(out[l])
  BY <1>1 DEF ChatTokens
<1>3. \A j \in 1 .. Len(r) : ChatTokens(r[j]) = ChatTokens(out[j])
  BY <1>1, <1>2
<1>4. Spell(ChatSpeech, r) = Spell(ChatSpeech, out)
  BY <1>1, <1>3, SpellAlike
<1> QED BY <1>4 DEF r

(* One item more, if it is not refused, says what it says. *)
LEMMA ItemSpoken ==
  ASSUME NEW s \in Converted, NEW x \in Input, AddItem(s, x).ok
  PROVE  /\ s.ok
         /\ Spell(ChatSpeech, AddItem(s, x).out) = Spell(ChatSpeech, s.out) \o ItemSays(x, TRUE)
<1> DEFINE S(out) == Spell(ChatSpeech, out)
           r == AddItem(s, x)
<1>1. s.ok \in BOOLEAN /\ s.out \in Seq(ChatMessages)
  BY DEF Converted
<1>2. /\ x \in Items /\ x.parts \in Seq(Parts)
      /\ x.type \in {"message", "function_call", "function_call_output", "reasoning",
                     "chat_reasoning"}
      /\ x.type \in {"function_call", "function_call_output"} => x.id \in Ids
      /\ x.type = "message" => x.role \in {"user", "assistant", "system"}
      /\ x.type = "chat_reasoning" => x.id \in Thoughts
  BY DEF Input, Items
<1>3. s.ok
  BY <1>1, ItemAdded
<1>4. ~Refused(s.out, x)
  BY <1>3, ItemAdded
<1>5. S(s.out) \in Seq(Parts)
  BY <1>1, ChatSpeaks, SpellType
<1>6. CASE x.type = "message"
  <2> DEFINE ro == x.role
             m == ChatMessage(x, ro, x.parts, <<>>)
  <2>0. <<>> \in Seq(Ids) /\ ro \in {"user", "assistant", "system", "tool"} /\ ro # "tool"
    BY <1>2, <1>6
  <2>a. m \in ChatMessages
    <3> HIDE DEF ro
    <3> QED BY <1>2, <2>0, ChatMessageType, ZenonT(60)
  <2>b. m = [turn |-> x.turn, role |-> ro, id |-> x.id, parts |-> x.parts, calls |-> <<>>,
             reasoning |-> ""]
    BY DEF ChatMessage
  <2>2. r.out = Append(s.out, m)
    BY <1>3, <1>4, <1>6, ItemAdded DEF Refused
  <2> HIDE DEF m, ro
  <2>1. m \in ChatMessages /\ m.role = ro /\ m.parts = x.parts /\ m.calls = <<>>
    BY <2>a, <2>b
  <2>3. ChatTokens(m) = x.parts \o CallTokens(<<>>)
    BY <2>0, <2>1 DEF ChatTokens, CallTokens
  <2>4. ChatTokens(m) = x.parts
    BY <1>2, <2>3, NoCallTokens, Unit
  <2>5. ItemSays(x, TRUE) = x.parts
    BY <1>6 DEF ItemSays, ItemTokens
  <2>6. S(Append(s.out, m)) = S(s.out) \o ChatTokens(m)
    BY <1>1, <2>1, MessageMore
  <2> QED BY <1>3, <2>2, <2>4, <2>5, <2>6
<1>7. CASE x.type = "function_call"
  <2>1. ItemSays(x, TRUE) = <<Part("call", x.id)>>
    BY <1>7 DEF ItemSays, ItemTokens
  <2>2. CASE JoinsLast(s.out)
    <3>1. r.out = JoinCall(s.out, x.id)
      BY <1>3, <1>7, <2>2, ItemAdded
    <3>2. S(JoinCall(s.out, x.id)) = S(s.out) \o <<Part("call", x.id)>>
      BY <1>1, <1>2, <1>7, <2>2, JoinedCallSays
    <3> QED BY <1>3, <2>1, <3>1, <3>2
  <2>3. CASE ~JoinsLast(s.out)
    <3>0. <<>> \in Seq(Parts) /\ <<x.id>> \in Seq(Ids) /\ <<>> \in Seq(Ids)
      BY <1>2, <1>7
    <3> DEFINE m == ChatMessage(x, "assistant", <<>>, <<x.id>>)
    <3>a. m \in ChatMessages
      BY <1>2, <3>0, ChatMessageType, ZenonT(60)
    <3>b. m = [turn |-> x.turn, role |-> "assistant", id |-> x.id, parts |-> <<>>, calls |-> <<x.id>>,
             reasoning |-> ""]
      BY DEF ChatMessage
    <3>2. r.out = Append(s.out, m)
      BY <1>3, <1>7, <2>3, ItemAdded
    <3> HIDE DEF m
    <3>1. m \in ChatMessages /\ m.role = "assistant" /\ m.parts = <<>> /\ m.calls = <<x.id>>
      BY <3>a, <3>b
    <3>3. ChatTokens(m) = <<>> \o CallTokens(<<x.id>>)
      BY <3>1 DEF ChatTokens, CallTokens
    <3>4. CallTokens(<<x.id>>) = <<Part("call", x.id)>>
      <4>1. <<x.id>> = Append(<<>>, x.id)
        OBVIOUS
      <4>2. CallTokens(Append(<<>>, x.id)) = CallTokens(<<>>) \o <<Part("call", x.id)>>
        BY <1>2, <1>7, <3>0, CallTokensIs
      <4>3. <<Part("call", x.id)>> \in Seq(Parts)
        BY <1>2, <1>7, PartShape, OnePart DEF Vals
      <4> QED BY <4>1, <4>2, <4>3, NoCallTokens, Unit
    <3>5. CallTokens(<<x.id>>) \in Seq(Parts)
      BY <3>0, CallTokensType
    <3>6. ChatTokens(m) = <<Part("call", x.id)>>
      BY <3>3, <3>4, <3>5, Unit
    <3>7. S(Append(s.out, m)) = S(s.out) \o ChatTokens(m)
      BY <1>1, <3>1, MessageMore
    <3> QED BY <1>3, <2>1, <3>2, <3>6, <3>7
  <2> QED BY <2>2, <2>3
<1>8. CASE x.type = "function_call_output"
  <2> DEFINE p == JsonValueToString(x.parts)
             m == ChatMessage(x, "tool", p, <<>>)
  <2>0. p \in Seq(Parts) /\ <<>> \in Seq(Ids)
    BY <1>2, JsonType
  <2>a. m \in ChatMessages
    <3> HIDE DEF p
    <3> QED BY <1>2, <1>8, <2>0, ChatMessageType
  <2>b. m = [turn |-> x.turn, role |-> "tool", id |-> x.id, parts |-> p, calls |-> <<>>,
             reasoning |-> ""]
    BY DEF ChatMessage
  <2>2. r.out = Append(s.out, m)
    BY <1>3, <1>8, ItemAdded
  <2>3. ItemSays(x, TRUE) = <<Part("result", x.id)>> \o p
    BY <1>8 DEF ItemSays, AsSent
  <2> HIDE DEF m, p
  <2>1. m \in ChatMessages /\ m.role = "tool" /\ m.parts = p /\ m.id = x.id
    BY <2>a, <2>b
  <2>4. ChatTokens(m) = <<Part("result", x.id)>> \o p
    BY <2>1 DEF ChatTokens
  <2>5. S(Append(s.out, m)) = S(s.out) \o ChatTokens(m)
    BY <1>1, <2>1, MessageMore
  <2> QED BY <1>3, <2>2, <2>3, <2>4, <2>5
<1>9. CASE x.type = "chat_reasoning"
  <2>1. LastAssistant(s.out) # 0
    BY <1>4, <1>9 DEF Refused
  <2>2. r.out = SetReasoning(s.out, x.id)
    BY <1>3, <1>9, <2>1, ItemAdded
  <2>3. S(SetReasoning(s.out, x.id)) = S(s.out)
    BY <1>1, <1>2, <1>9, <2>1, ReasoningSays
  <2>4. ItemSays(x, TRUE) = <<>>
    BY <1>9 DEF ItemSays, ItemTokens
  <2>5. S(s.out) \o <<>> = S(s.out)
    BY <1>5, Unit
  <2> QED BY <1>3, <2>2, <2>3, <2>4, <2>5
<1>10. x.type # "reasoning"
  BY <1>4 DEF Refused
<1> QED BY <1>2, <1>6, <1>7, <1>8, <1>9, <1>10

LEMMA Spoken ==
  ASSUME NEW a \in Converted, NEW s \in Seq(Input), NEW b, Converts(a, s, b), b.ok
  PROVE  Spell(ChatSpeech, b.out) = Spell(ChatSpeech, a.out) \o Spell(ItemSpeech(TRUE), s)
<1> DEFINE g == ItemSpeech(TRUE)
           S(out) == Spell(ChatSpeech, out)
           Says(v) == \A c \in Converted : Converts(a, v, c) /\ c.ok => S(c.out) = S(a.out) \o Spell(g, v)
           M == {v \in Seq(Input) : Says(v)}
<1>0. S(a.out) \in Seq(Parts)
  BY ChatSpeaks, SpellType DEF Converted
<1>1. Speech(g, Input, Parts) /\ \A x \in Input : g[x] = ItemSays(x, TRUE)
  BY ItemSpeaks
<1>2. Says(<<>>)
  <2>1. Spell(g, <<>>) = <<>>
    BY SpellEmpty
  <2>2. S(a.out) \o <<>> = S(a.out)
    BY <1>0, Unit
  <2> HIDE DEF S, g
  <2> QED BY <2>1, <2>2, NoItems
<1>3. ASSUME NEW v \in Seq(Input), Says(v), NEW x \in Input PROVE Says(Append(v, x))
  <2> SUFFICES ASSUME NEW c \in Converted, Converts(a, Append(v, x), c), c.ok
               PROVE  S(c.out) = S(a.out) \o Spell(g, Append(v, x))
    OBVIOUS
  <2>1. PICK d \in Converted : Converts(a, v, d) /\ c = AddItem(d, x)
    BY OneItemLess
  <2>2. d.ok /\ S(c.out) = S(d.out) \o ItemSays(x, TRUE)
    BY <2>1, ItemSpoken
  <2>3. S(d.out) = S(a.out) \o Spell(g, v)
    BY <1>3, <2>1, <2>2
  <2>4. Spell(g, Append(v, x)) = Spell(g, v) \o g[x]
    <3> HIDE DEF g
    <3> QED BY <1>1, SpellAppend
  <2>5. Spell(g, v) \in Seq(Parts) /\ g[x] \in Seq(Parts) /\ g[x] = ItemSays(x, TRUE)
    BY <1>1, SpellType DEF Speech
  <2> HIDE DEF S, g
  <2>6. (S(a.out) \o Spell(g, v)) \o g[x] = S(a.out) \o (Spell(g, v) \o g[x])
    BY <1>0, <2>5, PartAssoc
  <2> QED BY <2>2, <2>3, <2>4, <2>5, <2>6
<1>4. b \in Converted
  BY ConvertsTyped
<1> HIDE DEF Says
<1>5. M = Seq(Input)
  <2>1. M \in SUBSET Seq(Input) /\ <<>> \in M
    BY <1>2
  <2>2. \A v \in M, x \in Input : Append(v, x) \in M
    BY <1>3
  <2> HIDE DEF M
  <2> QED BY <2>1, <2>2, SeqInduction
<1>6. Says(s)
  BY <1>5
<1> QED BY <1>4, <1>6 DEF Says

LEMMA HistoryKept == TypeInv => FaithfulHistory
<1> SUFFICES ASSUME TypeInv, Accepted, ~HasPart("error") PROVE FaithfulHistory
  BY DEF FaithfulHistory
<1> DEFINE s == MessagesToInput
           conv == ResponsesInputToChat
<1>1. s \in Seq(Input)
  BY InputTyped
<1>2. FlattenSeq([j \in DOMAIN s |-> ItemTokens(s[j])]) = HistoryTokens(FALSE)
  <2> DEFINE g == ItemSpeech(FALSE)
  <2>1. \A x \in Input : g[x] = ItemTokens(x)
    <3>1. \A x \in Input : g[x] = ItemSays(x, FALSE)
      BY ItemSpeaks
    <3>2. \A x \in Input : ItemSays(x, FALSE) = ItemTokens(x)
      BY DEF ItemSays, ItemTokens, AsSent
    <3> QED BY <3>1, <3>2
  <2>2. Spell(g, s) = HistoryTokens(FALSE)
    BY InputSpelled
  <2> HIDE DEF g, s
  <2>3. \A j \in DOMAIN s : ItemTokens(s[j]) = g[s[j]]
    <3> TAKE j \in DOMAIN s
    <3>1. s[j] \in Input
      BY <1>1
    <3> QED BY <2>1, <3>1
  <2>4. [j \in DOMAIN s |-> ItemTokens(s[j])] = [j \in DOMAIN s |-> g[s[j]]]
    BY <2>3
  <2> QED BY <2>2, <2>4 DEF Spell
<1>3. ASSUME chat, conv.ok
      PROVE  FlattenSeq([j \in DOMAIN conv.out |-> ChatTokens(conv.out[j])]) = HistoryTokens(TRUE)
  <2>1. Converts(Start, s, conv)
    BY ChatConverts
  <2>2. Spell(ItemSpeech(TRUE), s) = HistoryTokens(TRUE)
    BY InputSpelled
  <2> HIDE DEF s, conv
  <2>3. conv \in Converted /\ Start \in Converted /\ Start.out = <<>>
    BY <1>1, <2>1, ConvertsTyped, StartTyped
  <2>4. Spell(ChatSpeech, conv.out) = Spell(ChatSpeech, Start.out) \o Spell(ItemSpeech(TRUE), s)
    BY <1>1, <1>3, <2>1, <2>3, Spoken
  <2>5. Spell(ItemSpeech(TRUE), s) \in Seq(Parts)
    BY <1>1, ItemSpeaks, SpellType
  <2>6. Spell(ChatSpeech, conv.out) = HistoryTokens(TRUE)
    BY <2>2, <2>3, <2>4, <2>5, SpellEmpty, Unit
  <2> DEFINE o == conv.out
  <2>7. o \in Seq(ChatMessages)
    BY <2>3 DEF Converted
  <2> HIDE DEF o
  <2>8. \A j \in DOMAIN o : ChatTokens(o[j]) = ChatSpeech[o[j]]
    <3> TAKE j \in DOMAIN o
    <3>1. o[j] \in ChatMessages
      BY <2>7
    <3> QED BY <3>1, ChatSpeaks
  <2>9. [j \in DOMAIN o |-> ChatTokens(o[j])] = [j \in DOMAIN o |-> ChatSpeech[o[j]]]
    BY <2>8
  <2> QED BY <2>6, <2>9 DEF Spell, o
<1> QED BY <1>2, <1>3 DEF FaithfulHistory

(* The conversation reaches the upstream whole, for histories of any       *)
(* length: FaithfulHistory is an invariant of the translation.             *)
THEOREM HistoryStaysWhole == Spec => []FaithfulHistory
BY TypeHolds, HistoryKept, PTL

-----------------------------------------------------------------------------
(* The conversion, turn by turn.                                           *)

(* A conversion that failed stays failed. *)
LEMMA StaysFailed ==
  ASSUME NEW a \in Converted, NEW s \in Seq(Input), NEW b, Converts(a, s, b), ~a.ok
  PROVE  b = a
<1> DEFINE Keeps(v) == \A c \in Converted : Converts(a, v, c) => c = a
           M == {v \in Seq(Input) : Keeps(v)}
<1>1. Keeps(<<>>)
  BY NoItems
<1>2. ASSUME NEW v \in Seq(Input), Keeps(v), NEW x \in Input PROVE Keeps(Append(v, x))
  <2> SUFFICES ASSUME NEW c \in Converted, Converts(a, Append(v, x), c) PROVE c = a
    OBVIOUS
  <2>1. PICK d \in Converted : Converts(a, v, d) /\ c = AddItem(d, x)
    BY OneItemLess
  <2>2. d = a
    BY <1>2, <2>1
  <2> QED BY <2>1, <2>2, ItemAdded
<1>3. b \in Converted
  BY ConvertsTyped
<1> HIDE DEF Keeps
<1>4. M = Seq(Input)
  <2>1. M \in SUBSET Seq(Input) /\ <<>> \in M
    BY <1>1
  <2>2. \A v \in M, x \in Input : Append(v, x) \in M
    BY <1>2
  <2> HIDE DEF M
  <2> QED BY <2>1, <2>2, SeqInduction
<1>5. Keeps(s)
  BY <1>4
<1> QED BY <1>3, <1>5 DEF Keeps

(* The marker of a turn. *)
LEMMA MarkerStep ==
  ASSUME TypeInv, NEW i \in DOMAIN history, NEW b \in Converted, NEW c,
         Converts(b, Reasoning(i, "chat_reasoning"), c)
  PROVE  \/ Remembered(i) = <<>> /\ c = b
         \/ /\ history[i].role = "assistant"
            /\ \E t \in Thoughts, x \in Input :
                 /\ Remembered(i) = <<t>> /\ x.type = "chat_reasoning" /\ x.id = t
                 /\ c = AddItem(b, x)
<1> DEFINE s == Reasoning(i, "chat_reasoning")
<1>1. s \in Seq(Input)
  BY ReasoningIsInput
<1>2. CASE Remembered(i) = <<>> /\ s = <<>>
  BY <1>2, NoItems
<1>3. ASSUME history[i].role = "assistant", NEW t \in Thoughts, Remembered(i) = <<t>>,
             s = <<Item(i, "chat_reasoning", "", t, <<>>)>>
      PROVE  \E x \in Input : /\ x.type = "chat_reasoning" /\ x.id = t
                              /\ c = AddItem(b, x)
  <2> DEFINE x == Item(i, "chat_reasoning", "", t, <<>>)
  <2>1. x.type = "chat_reasoning" /\ x.id = t
    BY DEF Item
  <2>2. s = <<x>>
    BY <1>3
  <2> HIDE DEF x, s
  <2>3. x \in Input
    BY <1>1, <2>2
  <2> DEFINE u == <<>>
  <2>4. s = Append(u, x) /\ u \in Seq(Input) /\ u = <<>>
    BY <2>2
  <2> HIDE DEF u
  <2>5. Converts(b, Append(u, x), c) /\ u \in Seq(Input)
    BY <2>4 DEF s
  <2>6. PICK d \in Converted : Converts(b, u, d) /\ c = AddItem(d, x)
    BY <2>3, <2>5, OneItemLess
  <2>7. d = b
    <3>1. Converts(b, <<>>, d)
      BY <2>4, <2>6
    <3> QED BY <3>1, NoItems
  <2> QED BY <2>1, <2>3, <2>6, <2>7
<1>4. \/ Remembered(i) = <<>> /\ s = <<>>
      \/ /\ history[i].role = "assistant"
         /\ \E t \in Thoughts : /\ Remembered(i) = <<t>>
                                /\ s = <<Item(i, "chat_reasoning", "", t, <<>>)>>
  BY ReasoningIs
<1> QED BY <1>2, <1>3, <1>4

(* A turn for the Chat Completions adapter: its blocks, then its marker. *)
LEMMA ChatTurn ==
  ASSUME TypeInv, chat, NEW i \in DOMAIN history
  PROVE  /\ TurnToInput(i) = BlocksToInput(i) \o Reasoning(i, "chat_reasoning")
         /\ BlocksToInput(i) \in Seq(Input) /\ Reasoning(i, "chat_reasoning") \in Seq(Input)
<1>1. BlocksToInput(i) \in Seq(Input) /\ Reasoning(i, "chat_reasoning") \in Seq(Input)
  BY BlocksTyped, TurnSeqsAreInput, ReasoningIsInput
<1>2. TurnToInput(i) = (<<>> \o BlocksToInput(i)) \o Reasoning(i, "chat_reasoning")
  BY DEF TurnToInput
<1>3. <<>> \o BlocksToInput(i) = BlocksToInput(i)
  BY <1>1, Unit
<1> QED BY <1>1, <1>2, <1>3

LEMMA TurnSplit ==
  ASSUME TypeInv, chat, NEW i \in DOMAIN history, NEW a, NEW c, Converts(a, TurnToInput(i), c)
  PROVE  \E b \in Converted : /\ Converts(a, BlocksToInput(i), b)
                              /\ Converts(b, Reasoning(i, "chat_reasoning"), c)
<1> DEFINE u == BlocksToInput(i)
           v == Reasoning(i, "chat_reasoning")
<1>1. u \in Seq(Input) /\ v \in Seq(Input) /\ Converts(a, u \o v, c)
  BY ChatTurn
<1> HIDE DEF u, v
<1>2. \E b \in Converted : Converts(a, u, b) /\ Converts(b, v, c)
  BY <1>1, ConvertsJoin
<1> QED BY <1>2 DEF u, v

(* Who may say what. *)
LEMMA TurnRoles ==
  ASSUME TypeInv, Accepted, NEW i \in DOMAIN history
  PROVE  /\ history[i].role # "assistant" =>
              /\ CallsOf(i) = {}
              /\ \A k \in DOMAIN history[i].content.blocks :
                   BlockAt(i, k).type \notin {"thinking", "tool_use"}
         /\ history[i].role = "assistant" =>
              /\ ResultIds(history[i].content.blocks) = {}
              /\ \A k \in DOMAIN history[i].content.blocks :
                   BlockAt(i, k).type \in {"text", "tool_use", "thinking"}
<1>1. \A k \in DOMAIN history[i].content.blocks : RoleAllows(history[i].role, BlockAt(i, k))
  BY DEF Accepted, ValidateBlocks, BlockAt
<1>2. ASSUME NEW k \in DOMAIN history[i].content.blocks
      PROVE  /\ history[i].role # "assistant" => BlockAt(i, k).type \notin {"thinking", "tool_use"}
             /\ history[i].role = "assistant" => BlockAt(i, k).type \in {"text", "tool_use", "thinking"}
  <2>1. BlockAt(i, k) \in Blocks
    BY TurnShape
  <2> QED BY <1>1, <2>1, BlockShapes DEF RoleAllows
<1>3. history[i].role # "assistant" => CallsOf(i) = {}
  BY <1>2 DEF CallsOf, BlockAt
<1>4. history[i].role = "assistant" => ResultIds(history[i].content.blocks) = {}
  BY <1>2 DEF ResultIds, BlockAt
<1> QED BY <1>2, <1>3, <1>4

LEMMA TurnItemRoles ==
  ASSUME TypeInv, Accepted, NEW i \in DOMAIN history, NEW x \in TurnItems(i)
  PROVE  /\ x \in Input /\ x.turn = i /\ x.parts \in Seq(Parts)
         /\ history[i].role # "assistant" =>
              \/ x.type = "message" /\ x.role = history[i].role
              \/ x.type = "function_call_output"
         /\ history[i].role = "assistant" =>
              \/ x.type = "message" /\ x.role = history[i].role
              \/ x.type = "function_call"
<1>1. /\ x \in Items /\ x.turn = i /\ x.parts \in Seq(ContentParts(i))
      /\ \/ x.type = "message" /\ x.role = history[i].role
         \/ x.type = "function_call" /\ x.id \in CallsOf(i)
         \/ x.type = "function_call_output" /\ x.id \in ResultIds(history[i].content.blocks)
  BY DEF TurnItems
<1>2. x \in Input
  BY TurnItemsAreInput
<1>3. x.parts \in Seq(Parts)
  BY <1>1 DEF Items
<1> QED BY <1>1, <1>2, <1>3, TurnRoles

(* A turn that says something has items. *)
LEMMA BlocksSpeak ==
  ASSUME TypeInv, NEW i \in DOMAIN history, Speaks(i)
  PROVE  BlocksToInput(i) # <<>>
<1> DEFINE N == Len(history[i].content.blocks)
<1>1. N \in Nat /\ DOMAIN history[i].content.blocks = 1 .. N
  <2>1. history[i].content.blocks \in Seq(Blocks)
    BY TurnShape
  <2> QED BY <2>1
<1>2. PICK f \in [0 .. N -> Collected(i)] :
        /\ \A k \in 1 .. N : f[k] = AddBlock(i, f[k - 1], BlockAt(i, k))
        /\ BlocksToInput(i) = FlushMessage(i, f[N]).out
  BY BlockSteps
<1>3. PICK w \in 1 .. N : BlockAt(i, w).type # "thinking"
  BY <1>1 DEF Speaks, BlockAt
<1> HIDE DEF N
<1>4. \A s \in Collected(i) : s.out \in Seq(TurnItems(i)) /\ s.content \in Seq(ContentParts(i))
  BY DEF Collected
<1>5. ASSUME NEW s \in Collected(i), s.out # <<>> \/ s.content # <<>>
      PROVE  FlushMessage(i, s).out # <<>>
  <2>1. s.out \in Seq(TurnItems(i))
    BY <1>4
  <2>2. CASE s.content = <<>>
    BY <1>5, <2>2, FlushFits
  <2>3. CASE s.content # <<>>
    <3> DEFINE x == Item(i, "message", history[i].role, "", s.content)
    <3>1. FlushMessage(i, s).out = Append(s.out, x)
      BY <2>3, FlushFits
    <3>2. x \in TurnItems(i)
      BY <1>4, MessageFits
    <3> HIDE DEF x
    <3> QED BY <2>1, <3>1, <3>2
  <2> QED BY <2>2, <2>3
<1> DEFINE Full(n) == f[n].out # <<>> \/ f[n].content # <<>>
<1>6. ASSUME NEW n \in Nat, n + 1 <= N, Full(n) \/ n + 1 = w
      PROVE  Full(n + 1)
  <2> DEFINE k == n + 1
             b == BlockAt(i, k)
             s == f[n]
  <2>1. n \in 0 .. N /\ k \in 1 .. N /\ k - 1 = n
    BY <1>1, <1>6
  <2>2. f[k] = AddBlock(i, s, b) /\ s \in Collected(i) /\ k \in DOMAIN history[i].content.blocks
    BY <1>1, <1>2, <2>1
  <2>3. b \in Blocks
    BY <2>2, TurnShape
  <2>4. b = BlockAt(i, k) /\ (Full(n) <=> s.out # <<>> \/ s.content # <<>>)
    OBVIOUS
  <2>c. b = BlockAt(i, k) /\ s \in Collected(i) /\ k \in DOMAIN history[i].content.blocks
    BY <2>2
  <2>5. k = w => b.type # "thinking"
    BY <1>3
  <2> DEFINE r == AddBlock(i, s, b)
  <2>6. f[k] = r /\ (Full(k) <=> r.out # <<>> \/ r.content # <<>>)
    BY <2>2
  <2> HIDE DEF k, b, s, Full
  <2>7. CASE b.type \in {"text", "image", "document"}
    <3>1. r.content = Append(s.content, ContentPart(b))
      BY <2>c, <2>7, AddBlockSays
    <3>2. s.content \in Seq(ContentParts(i)) /\ ContentPart(b) \in ContentParts(i)
      BY <1>4, <2>c, <2>7, ContentPartFits
    <3>3. Append(s.content, ContentPart(b)) # <<>>
      BY <3>2
    <3> QED BY <2>6, <3>1, <3>3 DEF k
  <2>8. CASE b.type \in {"tool_use", "tool_result"}
    <3>1. \E x \in TurnItems(i) : r.out = Append(FlushMessage(i, s).out, x)
      <4>1. CASE b.type = "tool_use"
        <5> DEFINE x == Item(i, "function_call", "", b.id, <<>>)
        <5>1. x \in TurnItems(i)
          BY <2>c, <4>1, CallFits
        <5>2. r.out = Append(FlushMessage(i, s).out, x)
          BY <2>c, <4>1, AddBlockSays
        <5> HIDE DEF x, r
        <5> QED BY <5>1, <5>2
      <4>2. CASE b.type = "tool_result"
        <5> DEFINE x == Item(i, "function_call_output", "", b.id, ToolResultToResponsesOutput(b))
        <5>1. x \in TurnItems(i)
          BY <2>c, <4>2, OutputFits
        <5>2. r.out = Append(FlushMessage(i, s).out, x)
          BY <2>c, <4>2, AddBlockSays
        <5> HIDE DEF x, r
        <5> QED BY <5>1, <5>2
      <4> QED BY <2>8, <4>1, <4>2
    <3>2. FlushMessage(i, s).out \in Seq(TurnItems(i))
      BY <1>4, <2>2, FlushFits
    <3>3. r.out # <<>>
      BY <3>1, <3>2
    <3> QED BY <2>6, <3>3 DEF k
  <2>9. CASE b.type = "thinking"
    <3>1. r = s
      BY <2>c, <2>9, AddBlockSays
    <3>2. Full(n)
      BY <1>6, <2>5, <2>9 DEF k
    <3> QED BY <2>4, <2>6, <3>1, <3>2 DEF k
  <2> QED BY <2>3, <2>7, <2>8, <2>9, BlockShapes
<1> HIDE DEF Full
<1> DEFINE T == {n \in Nat : w <= n /\ n <= N => Full(n)}
<1>7. 0 \in T
  BY <1>1, <1>3
<1>8. ASSUME NEW n \in T PROVE n + 1 \in T
  <2>1. n \in Nat
    OBVIOUS
  <2> SUFFICES ASSUME w <= n + 1, n + 1 <= N PROVE Full(n + 1)
    OBVIOUS
  <2>2. n + 1 = w \/ (w <= n /\ n <= N)
    BY <1>1, <1>3, <2>1
  <2>3. n + 1 = w \/ Full(n)
    BY <2>2
  <2> QED BY <1>6, <2>1, <2>3
<1>9. T = Nat
  <2>1. T \in SUBSET Nat
    OBVIOUS
  <2> HIDE DEF T
  <2> QED BY <1>7, <1>8, <2>1, NumberInduction
<1>10. Full(N)
  <2>1. N \in T
    <3> HIDE DEF T
    <3> QED BY <1>1, <1>9
  <2> QED BY <1>1, <1>3, <2>1
<1>11. f[N] \in Collected(i)
  BY <1>1
<1> QED BY <1>2, <1>5, <1>10, <1>11 DEF Full

(* A turn that says nothing has none. *)
LEMMA BlocksSilent ==
  ASSUME TypeInv, NEW i \in DOMAIN history, ~Speaks(i)
  PROVE  BlocksToInput(i) = <<>>
<1> DEFINE N == Len(history[i].content.blocks)
           e == [out |-> <<>>, content |-> <<>>]
<1>1. N \in Nat /\ DOMAIN history[i].content.blocks = 1 .. N
  <2>1. history[i].content.blocks \in Seq(Blocks)
    BY TurnShape
  <2> QED BY <2>1
<1>2. PICK f \in [0 .. N -> Collected(i)] :
        /\ f[0] = e
        /\ \A k \in 1 .. N : f[k] = AddBlock(i, f[k - 1], BlockAt(i, k))
        /\ BlocksToInput(i) = FlushMessage(i, f[N]).out
  BY BlockSteps
<1> HIDE DEF N
<1>3. \A k \in 1 .. N : BlockAt(i, k).type = "thinking"
  BY <1>1 DEF Speaks, BlockAt
<1> DEFINE T == {n \in Nat : n <= N => f[n] = e}
<1>4. 0 \in T
  BY <1>2
<1>5. ASSUME NEW n \in T PROVE n + 1 \in T
  <2> SUFFICES ASSUME n + 1 <= N PROVE f[n + 1] = e
    OBVIOUS
  <2> DEFINE k == n + 1
             b == BlockAt(i, k)
             c == f[n]
  <2>1. k \in 1 .. N /\ k - 1 = n /\ n \in 0 .. N /\ c = e
    BY <1>1
  <2>2. f[k] = AddBlock(i, c, b)
    BY <1>2, <2>1
  <2>3. k \in DOMAIN history[i].content.blocks /\ c \in Collected(i) /\ b = BlockAt(i, k)
    BY <1>1, <2>1
  <2>4. b.type = "thinking"
    BY <1>3, <2>1
  <2> HIDE DEF k, b, c, e
  <2>5. AddBlock(i, c, b) = c
    BY <2>3, <2>4, AddBlockSays
  <2>6. f[k] = e
    BY <2>1, <2>2, <2>5
  <2> QED BY <2>6 DEF k
<1>6. T = Nat
  <2>1. T \in SUBSET Nat
    OBVIOUS
  <2> HIDE DEF T
  <2> QED BY <1>4, <1>5, <2>1, NumberInduction
<1>7. f[N] = e
  <2>1. N \in T
    <3> HIDE DEF T
    <3> QED BY <1>1, <1>6
  <2> QED BY <1>1, <2>1
<1>8. f[N] \in Collected(i) /\ f[N].content = <<>> /\ f[N].out = <<>>
  BY <1>1, <1>7
<1>9. FlushMessage(i, f[N]).out = f[N].out
  BY <1>8, FlushFits
<1> QED BY <1>2, <1>8, <1>9

(* A message of turn i, without reasoning. *)
OfTurn(i, m) ==
  /\ m.turn = i
  /\ m.reasoning = ""
  /\ (m.role = "assistant") = (history[i].role = "assistant")

(* The messages v are the messages u and, after them, messages of turn i. *)
Grown(i, u, v) ==
  /\ Len(u) <= Len(v)
  /\ \A j \in 1 .. Len(u) : v[j] = u[j]
  /\ \A j \in 1 .. Len(v) : Len(u) < j => OfTurn(i, v[j])

LEMMA GrownMore ==
  ASSUME NEW i, NEW u \in Seq(ChatMessages), NEW v \in Seq(ChatMessages), NEW m \in ChatMessages,
         Grown(i, u, v), OfTurn(i, m)
  PROVE  Grown(i, u, Append(v, m)) /\ Len(u) < Len(Append(v, m))
<1> DEFINE r == Append(v, m)
           n == Len(v)
           l == Len(u)
<1>1. n \in Nat /\ l \in Nat /\ Len(r) = n + 1 /\ r[n + 1] = m /\ \A j \in 1 .. n : r[j] = v[j]
  OBVIOUS
<1>2. l <= n /\ (\A j \in 1 .. l : v[j] = u[j]) /\ \A j \in 1 .. n : l < j => OfTurn(i, v[j])
  BY DEF Grown
<1> HIDE DEF r, n, l
<1>3. \A j \in 1 .. l : r[j] = u[j]
  <2> TAKE j \in 1 .. l
  <2>1. j \in 1 .. n
    BY <1>1, <1>2
  <2> QED BY <1>1, <1>2, <2>1
<1>4. ASSUME NEW j \in 1 .. n + 1, l < j
      PROVE  OfTurn(i, r[j])
  <2>1. CASE j = n + 1
    BY <1>1, <2>1
  <2>2. CASE j # n + 1
    <3>1. j \in 1 .. n
      BY <1>1, <2>2
    <3>2. r[j] = v[j]
      BY <1>1, <3>1
    <3> QED BY <1>2, <1>4, <3>1, <3>2
  <2> QED BY <2>1, <2>2
<1>5. l <= n + 1 /\ l < n + 1
  BY <1>1, <1>2
<1>6. Grown(i, u, r)
  BY <1>1, <1>3, <1>4, <1>5 DEF Grown, l
<1> QED BY <1>1, <1>5, <1>6 DEF r, l

LEMMA GrownJoin ==
  ASSUME NEW i, NEW u \in Seq(ChatMessages), NEW v \in Seq(ChatMessages), NEW id \in Ids,
         Grown(i, u, v), ~JoinsLast(u), JoinsLast(v)
  PROVE  Grown(i, u, JoinCall(v, id)) /\ Len(u) < Len(JoinCall(v, id))
<1> DEFINE r == JoinCall(v, id)
           n == Len(v)
           l == Len(u)
<1>1. /\ n \in Nat /\ n # 0 /\ r \in Seq(ChatMessages) /\ Len(r) = n /\ v[n].role = "assistant"
      /\ \A j \in 1 .. n : j # n => r[j] = v[j]
      /\ r[n].turn = v[n].turn /\ r[n].role = v[n].role /\ r[n].reasoning = v[n].reasoning
  BY JoinCallIs
<1>2. l <= n /\ (\A j \in 1 .. l : v[j] = u[j]) /\ \A j \in 1 .. n : l < j => OfTurn(i, v[j])
  BY DEF Grown
<1>a. l \in Nat
  OBVIOUS
<1>b. l # 0 /\ u[l].role = "assistant" => JoinsLast(u)
  BY DEF JoinsLast, Last
<1> HIDE DEF r, n, l
<1>3. l < n
  <2> SUFFICES ASSUME l = n PROVE FALSE
    BY <1>1, <1>2, <1>a
  <2>1. n \in 1 .. n /\ v[n] = u[n]
    BY <1>1, <1>2
  <2> QED BY <1>1, <1>b, <2>1
<1>4. \A j \in 1 .. l : r[j] = u[j]
  <2> TAKE j \in 1 .. l
  <2>1. j \in 1 .. n /\ j # n
    BY <1>1, <1>3, <1>a
  <2> QED BY <1>1, <1>2, <2>1
<1>5. ASSUME NEW j \in 1 .. n, l < j
      PROVE  OfTurn(i, r[j])
  <2>0. OfTurn(i, v[j])
    BY <1>2, <1>5
  <2>1. CASE j = n
    BY <1>1, <2>0, <2>1 DEF OfTurn
  <2>2. CASE j # n
    <3>1. r[j] = v[j]
      BY <1>1, <2>2
    <3> QED BY <2>0, <3>1
  <2> QED BY <2>1, <2>2
<1>6. Grown(i, u, r)
  BY <1>1, <1>2, <1>4, <1>5 DEF Grown, l
<1> QED BY <1>1, <1>3, <1>6 DEF r, l

LEMMA GrownSame == ASSUME NEW i, NEW u \in Seq(ChatMessages) PROVE Grown(i, u, u)
<1> DEFINE l == Len(u)
<1>1. l \in Nat
  OBVIOUS
<1> HIDE DEF l
<1>2. l <= l /\ \A j \in 1 .. l : ~(l < j)
  BY <1>1
<1> QED BY <1>2 DEF Grown, l

(* One item of a turn more. *)
LEMMA ItemGrows ==
  ASSUME TypeInv, Accepted, NEW i \in DOMAIN history, NEW u \in Seq(ChatMessages),
         history[i].role = "assistant" => ~JoinsLast(u),
         NEW d \in Converted, Grown(i, u, d.out), NEW x \in TurnItems(i), AddItem(d, x).ok
  PROVE  d.ok /\ Grown(i, u, AddItem(d, x).out) /\ Len(u) < Len(AddItem(d, x).out)
<1> DEFINE r == AddItem(d, x)
           v == d.out
<1>1. /\ x \in Input /\ x.turn = i /\ x.parts \in Seq(Parts)
      /\ history[i].role # "assistant" =>
           \/ x.type = "message" /\ x.role = history[i].role
           \/ x.type = "function_call_output"
      /\ history[i].role = "assistant" =>
           \/ x.type = "message" /\ x.role = history[i].role
           \/ x.type = "function_call"
  BY TurnItemRoles
<1>2. v \in Seq(ChatMessages) /\ d.ok \in BOOLEAN
  BY DEF Converted
<1>3. /\ x \in Items
      /\ x.type \in {"function_call", "function_call_output"} => x.id \in Ids
      /\ x.type = "message" => x.role \in {"user", "assistant", "system"}
  BY <1>1 DEF Input
<1>4. d.ok
  BY <1>1, <1>2, ItemAdded
<1>5. ~Refused(v, x)
  BY <1>1, <1>4, ItemAdded
<1>6. ASSUME NEW m \in ChatMessages, r.out = Append(v, m), OfTurn(i, m)
      PROVE  Grown(i, u, r.out) /\ Len(u) < Len(r.out)
  <2> HIDE DEF r, v
  <2>1. Grown(i, u, v)
    BY DEF v
  <2> QED BY <1>2, <1>6, <2>1, GrownMore
<1>7. CASE x.type = "message"
  <2> DEFINE ro == x.role
             m == ChatMessage(x, ro, x.parts, <<>>)
  <2>0. ro = history[i].role
    BY <1>1, <1>7
  <2>a. <<>> \in Seq(Ids) /\ ro \in {"user", "assistant", "system", "tool"} /\ ro # "tool"
    BY <1>3, <1>7
  <2>1. m \in ChatMessages
    <3> HIDE DEF ro
    <3>1. x \in Items /\ x.parts \in Seq(Parts)
      BY <1>1, <1>3
    <3> QED BY <2>a, <3>1, ChatMessageType, ZenonT(60)
  <2>2. m = [turn |-> x.turn, role |-> ro, id |-> x.id, parts |-> x.parts, calls |-> <<>>,
             reasoning |-> ""]
    BY DEF ChatMessage
  <2>3. r.out = Append(v, m)
    BY <1>1, <1>4, <1>5, <1>7, ItemAdded DEF Refused
  <2> HIDE DEF m, ro, r, v
  <2>4. OfTurn(i, m)
    BY <1>1, <2>0, <2>2 DEF OfTurn
  <2>5. Grown(i, u, r.out) /\ Len(u) < Len(r.out)
    BY <1>6, <2>0, <2>1, <2>3, <2>4
  <2> QED BY <1>4, <2>5 DEF r
<1>8. CASE x.type = "function_call"
  <2>a. history[i].role = "assistant"
    BY <1>1, <1>8
  <2>1. CASE JoinsLast(v)
    <3>1. r.out = JoinCall(v, x.id)
      BY <1>1, <1>4, <1>8, <2>1, ItemAdded
    <3> HIDE DEF r
    <3>2. Grown(i, u, JoinCall(v, x.id)) /\ Len(u) < Len(JoinCall(v, x.id))
      BY <1>2, <1>3, <1>8, <2>1, <2>a, GrownJoin
    <3>3. Grown(i, u, r.out) /\ Len(u) < Len(r.out)
      BY <3>1, <3>2
    <3> QED BY <1>4, <3>3 DEF r
  <2>2. CASE ~JoinsLast(v)
    <3> DEFINE m == ChatMessage(x, "assistant", <<>>, <<x.id>>)
    <3>0. <<>> \in Seq(Parts) /\ <<x.id>> \in Seq(Ids)
      BY <1>3, <1>8
    <3>1. m \in ChatMessages
      <4>1. x \in Items
        BY <1>3
      <4> QED BY <3>0, <4>1, ChatMessageType, ZenonT(60)
    <3>2. m = [turn |-> x.turn, role |-> "assistant", id |-> x.id, parts |-> <<>>,
               calls |-> <<x.id>>, reasoning |-> ""]
      BY DEF ChatMessage
    <3>3. r.out = Append(v, m)
      BY <1>1, <1>4, <1>8, <2>2, ItemAdded
    <3> HIDE DEF m, r, v
    <3>4. OfTurn(i, m)
      BY <1>1, <2>a, <3>2 DEF OfTurn
    <3>5. Grown(i, u, r.out) /\ Len(u) < Len(r.out)
      BY <1>6, <2>a, <3>1, <3>3, <3>4
    <3> QED BY <1>4, <3>5 DEF r
  <2> QED BY <2>1, <2>2
<1>9. CASE x.type = "function_call_output"
  <2> DEFINE p == JsonValueToString(x.parts)
             m == ChatMessage(x, "tool", p, <<>>)
  <2>0. p \in Seq(Parts) /\ <<>> \in Seq(Ids) /\ history[i].role # "assistant"
    BY <1>1, <1>9, JsonType
  <2>1. m \in ChatMessages
    <3> HIDE DEF p
    <3> QED BY <1>3, <1>9, <2>0, ChatMessageType
  <2>2. m = [turn |-> x.turn, role |-> "tool", id |-> x.id, parts |-> p, calls |-> <<>>,
             reasoning |-> ""]
    BY DEF ChatMessage
  <2>3. r.out = Append(v, m)
    BY <1>1, <1>4, <1>9, ItemAdded
  <2> HIDE DEF m, p, r, v
  <2>4. OfTurn(i, m)
    BY <1>1, <2>0, <2>2 DEF OfTurn
  <2>5. Grown(i, u, r.out) /\ Len(u) < Len(r.out)
    BY <1>6, <2>0, <2>1, <2>3, <2>4
  <2> QED BY <1>4, <2>5 DEF r
<1> QED BY <1>1, <1>7, <1>8, <1>9

LEMMA BlocksGrow ==
  ASSUME TypeInv, Accepted, NEW i \in DOMAIN history, NEW a \in Converted,
         history[i].role = "assistant" => ~JoinsLast(a.out),
         NEW s \in Seq(TurnItems(i)), NEW b, Converts(a, s, b), b.ok
  PROVE  Grown(i, a.out, b.out) /\ (s # <<>> => Len(a.out) < Len(b.out))
<1> DEFINE X == TurnItems(i)
           Grows(v) == \A c \in Converted : Converts(a, v, c) /\ c.ok =>
                         Grown(i, a.out, c.out) /\ (v # <<>> => Len(a.out) < Len(c.out))
           M == {v \in Seq(X) : Grows(v)}
<1>0. a.out \in Seq(ChatMessages)
  BY DEF Converted
<1>a. \A v \in Seq(X) : v \in Seq(Input)
  BY TurnSeqsAreInput
<1>1. Grows(<<>>)
  BY <1>0, NoItems, GrownSame
<1>2. ASSUME NEW v \in Seq(X), Grows(v), NEW x \in X PROVE Grows(Append(v, x))
  <2> SUFFICES ASSUME NEW c \in Converted, Converts(a, Append(v, x), c), c.ok
               PROVE  Grown(i, a.out, c.out) /\ Len(a.out) < Len(c.out)
    OBVIOUS
  <2>0. v \in Seq(Input) /\ x \in Input
    BY <1>a, TurnItemsAreInput
  <2>1. PICK d \in Converted : Converts(a, v, d) /\ c = AddItem(d, x)
    BY <2>0, OneItemLess
  <2>2. d.ok
    BY <2>0, <2>1, ItemAdded DEF Converted
  <2>3. Grown(i, a.out, d.out)
    BY <1>2, <2>1, <2>2
  <2> HIDE DEF Grows, M
  <2> QED BY <1>0, <2>1, <2>3, ItemGrows
<1>3. s \in Seq(Input)
  BY <1>a
<1>4. b \in Converted
  BY <1>3, ConvertsTyped
<1> HIDE DEF Grows
<1>5. M = Seq(X)
  <2>1. M \in SUBSET Seq(X) /\ <<>> \in M
    BY <1>1
  <2>2. \A v \in M, x \in X : Append(v, x) \in M
    BY <1>2
  <2> HIDE DEF M, X
  <2> QED BY <2>1, <2>2, SeqInduction
<1>6. Grows(s)
  BY <1>5
<1> QED BY <1>4, <1>6 DEF Grows

(* Items without files convert. *)
LEMMA BlocksConvert ==
  ASSUME TypeInv, NEW i \in DOMAIN history, NEW a \in Converted, a.ok,
         NEW s \in Seq({x \in TurnItems(i) : PartsConvert(x)}), NEW b, Converts(a, s, b)
  PROVE  b.ok
<1> DEFINE X == {x \in TurnItems(i) : PartsConvert(x)}
           Good(v) == \A c \in Converted : Converts(a, v, c) => c.ok
           M == {v \in Seq(X) : Good(v)}
<1>a. X \subseteq Input
  BY TurnItemsAreInput
<1>b. \A v \in Seq(X) : v \in Seq(Input)
  <2> HIDE DEF X
  <2> QED BY <1>a, SeqMonotonic
<1>1. Good(<<>>)
  BY NoItems
<1>2. ASSUME NEW v \in Seq(X), Good(v), NEW x \in X PROVE Good(Append(v, x))
  <2> SUFFICES ASSUME NEW c \in Converted, Converts(a, Append(v, x), c) PROVE c.ok
    OBVIOUS
  <2>0. /\ v \in Seq(Input) /\ x \in Input /\ PartsConvert(x)
        /\ x.type \in {"message", "function_call", "function_call_output"}
    BY <1>a, <1>b DEF TurnItems
  <2>1. PICK d \in Converted : Converts(a, v, d) /\ c = AddItem(d, x)
    BY <2>0, OneItemLess
  <2>2. d.ok
    BY <1>2, <2>1
  <2> QED BY <2>0, <2>1, <2>2, ItemAdded
<1>3. s \in Seq(Input)
  BY <1>b
<1>4. b \in Converted
  BY <1>3, ConvertsTyped
<1> HIDE DEF Good
<1>5. M = Seq(X)
  <2>1. M \in SUBSET Seq(X) /\ <<>> \in M
    BY <1>1
  <2>2. \A v \in M, x \in X : Append(v, x) \in M
    BY <1>2
  <2> HIDE DEF M, X
  <2> QED BY <2>1, <2>2, SeqInduction
<1>6. Good(s)
  BY <1>5
<1> QED BY <1>4, <1>6 DEF Good

(* Whatever is in a part is in the join. *)
LEMMA FlattenHas ==
  ASSUME NEW X, NEW q \in Seq(Seq(X)), NEW i \in 1 .. Len(q), NEW k \in 1 .. Len(q[i])
  PROVE  \E j \in 1 .. Len(FlattenSeq(q)) : FlattenSeq(q)[j] = q[i][k]
<1>1. PICK fl \in [0 .. Len(q) -> Seq(X)] :
        /\ \A n \in 1 .. Len(q) : fl[n] = fl[n - 1] \o q[n]
        /\ FlattenSeq(q) = fl[Len(q)]
  BY Flattening
<1> DEFINE N == Len(q)
           x == q[i][k]
           Has(n) == \E j \in 1 .. Len(fl[n]) : fl[n][j] = x
           T == {n \in Nat : i <= n /\ n <= N => Has(n)}
<1>2. N \in Nat /\ i \in Nat /\ i # 0 /\ i <= N
  OBVIOUS
<1>3. ASSUME NEW n \in Nat, n + 1 <= N, n + 1 = i \/ Has(n) PROVE Has(n + 1)
  <2>1. n \in 0 .. N /\ n + 1 \in 1 .. N /\ (n + 1) - 1 = n
    BY <1>2, <1>3
  <2> DEFINE u == fl[n]
             v == q[n + 1]
  <2>2. u \in Seq(X)
    BY <2>1
  <2>3. v \in Seq(X)
    BY <2>1
  <2>4. fl[n + 1] = u \o v
    BY <1>1, <2>1
  <2>5. n + 1 = i => v = q[i]
    OBVIOUS
  <2>6. Has(n) => \E j \in 1 .. Len(u) : u[j] = x
    OBVIOUS
  <2>7. (\E j \in 1 .. Len(u \o v) : (u \o v)[j] = x) => Has(n + 1)
    BY <2>4
  <2> HIDE DEF u, v, Has, T
  <2>8. CASE n + 1 = i
    <3>1. k \in 1 .. Len(v) /\ v[k] = x
      BY <2>5, <2>8
    <3>2. Len(u) + k \in 1 .. Len(u \o v) /\ (u \o v)[Len(u) + k] = v[k]
      BY <2>2, <2>3, <3>1
    <3> QED BY <2>7, <3>1, <3>2
  <2>9. CASE Has(n)
    <3>1. PICK j \in 1 .. Len(u) : u[j] = x
      BY <2>6, <2>9
    <3>2. j \in 1 .. Len(u \o v) /\ (u \o v)[j] = u[j]
      BY <2>2, <2>3, <3>1
    <3> QED BY <2>7, <3>1, <3>2
  <2> QED BY <1>3, <2>8, <2>9
<1> HIDE DEF Has, N, x
<1>4. 0 \in T
  BY <1>2
<1>5. ASSUME NEW n \in T PROVE n + 1 \in T
  <2>1. n \in Nat
    OBVIOUS
  <2> SUFFICES ASSUME i <= n + 1, n + 1 <= N PROVE Has(n + 1)
    OBVIOUS
  <2>2. n + 1 = i \/ (i <= n /\ n <= N)
    BY <1>2, <2>1
  <2>3. n + 1 = i \/ Has(n)
    BY <2>2
  <2> QED BY <1>3, <2>1, <2>3
<1>6. T = Nat
  <2>1. T \in SUBSET Nat
    OBVIOUS
  <2> HIDE DEF T
  <2> QED BY <1>4, <1>5, <2>1, NumberInduction
<1>7. Has(N)
  <2>1. N \in T
    <3> HIDE DEF T
    <3> QED BY <1>2, <1>6
  <2> QED BY <1>2, <2>1
<1> QED BY <1>1, <1>7 DEF Has, N, x

LEMMA BlocksWithoutFiles ==
  ASSUME TypeInv, chat, ~HasPart("file"), NEW i \in DOMAIN history
  PROVE  BlocksToInput(i) \in Seq({x \in TurnItems(i) : PartsConvert(x)})
<1> DEFINE u == BlocksToInput(i)
           w == Reasoning(i, "chat_reasoning")
           X == {x \in TurnItems(i) : PartsConvert(x)}
           s == MessagesToInput
<1>1. u \in Seq(TurnItems(i)) /\ u \in Seq(Input) /\ w \in Seq(Input) /\ TurnToInput(i) = u \o w
  BY BlocksTyped, ChatTurn
<1>2. /\ Turns \in Seq(Seq(Input)) /\ i \in 1 .. Len(Turns) /\ Turns[i] = TurnToInput(i)
      /\ s = FlattenSeq(Turns)
  BY TurnsTyped
<1>3. ~(\E j \in DOMAIN s : \E k \in DOMAIN s[j].parts : s[j].parts[k].kind = "file")
  BY DEF HasPart
<1>4. s \in Seq(Input)
  BY InputTyped
<1> HIDE DEF u, w, s, X
<1>5. ASSUME NEW k \in 1 .. Len(u) PROVE u[k] \in X
  <2>1. u[k] \in TurnItems(i) /\ k \in 1 .. Len(u \o w) /\ (u \o w)[k] = u[k]
    BY <1>1
  <2>2. k \in 1 .. Len(Turns[i]) /\ Turns[i][k] = u[k]
    BY <1>1, <1>2, <2>1
  <2>3. \E j \in 1 .. Len(FlattenSeq(Turns)) : FlattenSeq(Turns)[j] = Turns[i][k]
    BY <1>2, <2>2, FlattenHas
  <2>4. PICK j \in 1 .. Len(s) : s[j] = u[k]
    BY <1>2, <2>2, <2>3
  <2>5. j \in DOMAIN s
    BY <1>4
  <2>6. PartsConvert(u[k])
    BY <1>3, <2>4, <2>5 DEF PartsConvert
  <2> QED BY <2>1, <2>6 DEF X
<1>6. u \in [1 .. Len(u) -> X] /\ Len(u) \in Nat
  BY <1>1, <1>5
<1>7. u \in Seq(X)
  BY <1>6
<1> QED BY <1>7 DEF u, X

(* Since the last assistant turn that said something, up to turn n, nobody *)
(* else said anything.                                                     *)
Open(n) ==
  \E k \in 1 .. n :
    /\ history[k].role = "assistant"
    /\ \A j \in k + 1 .. n : history[j].role = "assistant" \/ ~Speaks(j)

(* At the boundary after turn n a call joins a message of another turn     *)
(* only then.                                                              *)
Edge(n, out) == Open(n) \/ ~JoinsLast(out)

LEMMA AlternateTurns ==
  ASSUME TypeInv, Alternates, NEW i \in DOMAIN history, history[i].role = "assistant"
  PROVE  Speaks(i) /\ ~Open(i - 1)
<1>1. \A k \in 1 .. i - 1 : history[k].role = "assistant" =>
        \E j \in k + 1 .. i - 1 : history[j].role # "assistant" /\ Speaks(j)
  BY DEF Alternates
<1>2. Speaks(i)
  BY DEF Alternates
<1> QED BY <1>1, <1>2 DEF Open

LEMMA StaysOpen ==
  ASSUME NEW i \in Nat \ {0}
  PROVE  /\ history[i].role = "assistant" => Open(i)
         /\ Open(i - 1) /\ ~Speaks(i) => Open(i)
<1>1. ASSUME history[i].role = "assistant" PROVE Open(i)
  <2>1. i \in 1 .. i /\ ~(\E j \in Nat : j \in i + 1 .. i)
    OBVIOUS
  <2> QED BY <1>1, <2>1 DEF Open
<1>2. ASSUME Open(i - 1), ~Speaks(i) PROVE Open(i)
  <2>1. PICK k \in 1 .. i - 1 :
          /\ history[k].role = "assistant"
          /\ \A j \in k + 1 .. i - 1 : history[j].role = "assistant" \/ ~Speaks(j)
    BY <1>2 DEF Open
  <2>2. ASSUME NEW j \in k + 1 .. i PROVE history[j].role = "assistant" \/ ~Speaks(j)
    <3>1. j = i \/ j \in k + 1 .. i - 1
      OBVIOUS
    <3> QED BY <1>2, <2>1, <3>1
  <2>3. k \in 1 .. i
    OBVIOUS
  <2> QED BY <2>1, <2>2, <2>3 DEF Open
<1> QED BY <1>1, <1>2

LEMMA TurnGrows ==
  ASSUME TypeInv, Accepted, Alternates, NEW i \in DOMAIN history, Speaks(i), NEW a \in Converted,
         Edge(i - 1, a.out), NEW d \in Converted, Converts(a, BlocksToInput(i), d), d.ok
  PROVE  /\ Grown(i, a.out, d.out) /\ Len(a.out) < Len(d.out)
         /\ history[i].role = "assistant" => LastAssistant(d.out) = Len(d.out)
         /\ Edge(i, d.out)
<1>1. BlocksToInput(i) \in Seq(TurnItems(i)) /\ BlocksToInput(i) # <<>>
  BY BlocksTyped, BlocksSpeak
<1>2. history[i].role = "assistant" => ~JoinsLast(a.out)
  BY AlternateTurns DEF Edge
<1>3. Grown(i, a.out, d.out) /\ Len(a.out) < Len(d.out)
  BY <1>1, <1>2, BlocksGrow
<1> DEFINE v == d.out
           n == Len(v)
           l == Len(a.out)
<1>4. v \in Seq(ChatMessages) /\ n \in Nat /\ l \in Nat
  <2>1. v \in Seq(ChatMessages) /\ a.out \in Seq(ChatMessages)
    BY DEF Converted
  <2> QED BY <2>1
<1>5. l < n
  BY <1>3
<1>6. \A j \in 1 .. n : l < j => OfTurn(i, v[j])
  BY <1>3 DEF Grown
<1>7. v # <<>> => Last(v) = v[n]
  BY DEF Last
<1>8. i \in Nat \ {0}
  BY TurnShape
<1> HIDE DEF v, n, l
<1>9. n \in 1 .. n /\ OfTurn(i, v[n])
  BY <1>4, <1>5, <1>6
<1>10. ASSUME history[i].role = "assistant" PROVE LastAssistant(v) = n
  <2>1. v[n].role = "assistant"
    BY <1>9, <1>10 DEF OfTurn
  <2>2. n \in 1 .. Len(v)
    BY <1>9 DEF n
  <2>3. LastAssistant(v) # 0
    BY <1>4, <2>1, <2>2, LastAssistantIs
  <2>4. LastAssistant(v) \in 1 .. Len(v) /\ n <= LastAssistant(v)
    BY <1>4, <2>1, <2>2, <2>3, LastAssistantIs
  <2> QED BY <1>4, <2>4 DEF n
<1>11. ASSUME history[i].role # "assistant" PROVE ~JoinsLast(v)
  <2>1. v[n].role # "assistant"
    BY <1>9, <1>11 DEF OfTurn
  <2> QED BY <1>7, <2>1 DEF JoinsLast
<1>12. Edge(i, v)
  BY <1>8, <1>11, StaysOpen DEF Edge
<1> QED BY <1>3, <1>10, <1>12 DEF v, n

(* The reasoning of turn k is on the last of its messages. *)
Placed(k, out) ==
  IF Remembered(k) = <<>>
  THEN \A j \in 1 .. Len(out) : out[j].turn = k => out[j].reasoning = ""
  ELSE \E j \in 1 .. Len(out) :
         /\ out[j].turn = k /\ out[j].reasoning # "" /\ out[j].reasoning = Remembered(k)[1]
         /\ \A m \in 1 .. Len(out) :
              out[m].turn = k => m <= j /\ (m # j => out[m].reasoning = "")

LEMMA PlacedKept ==
  ASSUME NEW k \in Nat, NEW u \in Seq(ChatMessages), NEW v \in Seq(ChatMessages), Len(u) <= Len(v),
         \A j \in 1 .. Len(u) : v[j] = u[j],
         \A j \in 1 .. Len(v) : Len(u) < j => v[j].turn # k,
         Placed(k, u)
  PROVE  Placed(k, v)
<1> DEFINE n == Len(v)
           l == Len(u)
<1>1. n \in Nat /\ l \in Nat /\ l <= n
  OBVIOUS
<1>2. /\ \A j \in 1 .. l : v[j] = u[j]
      /\ \A j \in 1 .. n : l < j => v[j].turn # k
  OBVIOUS
<1> HIDE DEF n, l
<1>3. \A j \in 1 .. n : v[j].turn = k => j \in 1 .. l /\ v[j] = u[j]
  <2> TAKE j \in 1 .. n
  <2>1. CASE l < j
    BY <1>2, <2>1
  <2>2. CASE ~(l < j)
    BY <1>1, <1>2, <2>2
  <2> QED BY <2>1, <2>2
<1>4. CASE Remembered(k) = <<>>
  <2>1. \A j \in 1 .. l : u[j].turn = k => u[j].reasoning = ""
    BY <1>4 DEF Placed, l
  <2>2. \A j \in 1 .. n : v[j].turn = k => v[j].reasoning = ""
    BY <1>3, <2>1
  <2> QED BY <1>4, <2>2 DEF Placed, n
<1>5. CASE Remembered(k) # <<>>
  <2>1. PICK j \in 1 .. l :
          /\ u[j].turn = k /\ u[j].reasoning # "" /\ u[j].reasoning = Remembered(k)[1]
          /\ \A m \in 1 .. l :
               u[m].turn = k => m <= j /\ (m # j => u[m].reasoning = "")
    BY <1>5 DEF Placed, l
  <2>2. j \in 1 .. n /\ v[j] = u[j]
    BY <1>1, <1>2
  <2>3. \A m \in 1 .. n : v[m].turn = k => m <= j /\ (m # j => v[m].reasoning = "")
    BY <1>3, <2>1
  <2>4. v[j].turn = k /\ v[j].reasoning # "" /\ v[j].reasoning = Remembered(k)[1]
    BY <2>1, <2>2
  <2> QED BY <1>5, <2>2, <2>3, <2>4 DEF Placed, n
<1> QED BY <1>4, <1>5

(* What holds after turn n. *)
Bound(n, out) ==
  /\ Edge(n, out)
  /\ \A j \in 1 .. Len(out) : out[j].turn \in 1 .. n
  /\ \A k \in 1 .. n : Placed(k, out)

LEMMA SpokenKept ==
  ASSUME TypeInv, Accepted, Alternates, chat, NEW i \in DOMAIN history, Speaks(i),
         NEW a \in Converted, Bound(i - 1, a.out), NEW c \in Converted, Converts(a, TurnToInput(i), c), c.ok
  PROVE  Bound(i, c.out)
<1>0. i \in Nat /\ i # 0 /\ i \in Nat \ {0}
  BY TurnShape
<1>1. PICK d \in Converted : /\ Converts(a, BlocksToInput(i), d)
                             /\ Converts(d, Reasoning(i, "chat_reasoning"), c)
  BY TurnSplit
<1>2. d.ok
  <2>1. Reasoning(i, "chat_reasoning") \in Seq(Input)
    BY ChatTurn
  <2>2. ~d.ok => c = d
    BY <1>1, <2>1, StaysFailed
  <2> QED BY <2>2
<1> DEFINE u == a.out
           v == d.out
           w == c.out
           l == Len(u)
           n == Len(v)
<1>3. /\ Edge(i - 1, u)
      /\ \A j \in 1 .. l : u[j].turn \in 1 .. i - 1
      /\ \A k \in 1 .. i - 1 : Placed(k, u)
  BY DEF Bound
<1>4. /\ Grown(i, u, v) /\ l < n
      /\ history[i].role = "assistant" => LastAssistant(v) = n
      /\ Edge(i, v)
  BY <1>1, <1>2, <1>3, TurnGrows
<1>5. u \in Seq(ChatMessages) /\ v \in Seq(ChatMessages) /\ w \in Seq(ChatMessages)
  BY DEF Converted
<1>6. /\ \A j \in 1 .. l : v[j] = u[j]
      /\ \A j \in 1 .. n : l < j => OfTurn(i, v[j])
  BY <1>4 DEF Grown
<1>7. l \in Nat /\ n \in Nat
  BY <1>5
(* What w may be. *)
<1>8. \/ Remembered(i) = <<>> /\ w = v
      \/ /\ history[i].role = "assistant"
         /\ \E t \in Thoughts : Remembered(i) = <<t>> /\ w = SetReasoning(v, t)
  <2>1. CASE Remembered(i) = <<>> /\ c = d
    BY <2>1
  <2>2. ASSUME history[i].role = "assistant", NEW t \in Thoughts, NEW x \in Input,
               Remembered(i) = <<t>>, x.type = "chat_reasoning", x.id = t, c = AddItem(d, x)
        PROVE  w = SetReasoning(v, t)
    <3>1. LastAssistant(d.out) # 0
      BY <1>4, <1>7, <2>2
    <3> QED BY <1>2, <2>2, <3>1, ItemAdded
  <2> QED BY <1>1, <2>1, <2>2, MarkerStep
<1> HIDE DEF u, v, w, l, n
<1>9. /\ w \in Seq(ChatMessages) /\ Len(w) = n
      /\ \A j \in 1 .. n : j # n => w[j] = v[j]
      /\ w[n].turn = v[n].turn
      /\ Remembered(i) = <<>> => w = v
      /\ Remembered(i) # <<>> => /\ w[n].reasoning = Remembered(i)[1]
                                 /\ Remembered(i)[1] # ""
                                 /\ history[i].role = "assistant"
  <2>1. CASE Remembered(i) = <<>> /\ w = v
    BY <1>5, <2>1 DEF n
  <2>2. ASSUME NEW t \in Thoughts, history[i].role = "assistant", Remembered(i) = <<t>>,
               w = SetReasoning(v, t)
        PROVE  <1>9!:
    <3>1. LastAssistant(v) = n /\ n # 0
      BY <1>4, <1>7, <2>2
    <3>2. /\ Len(w) = Len(v)
          /\ \A j \in 1 .. Len(v) : j # n => w[j] = v[j]
          /\ w[n].reasoning = t
          /\ w[n].turn = v[n].turn
      BY <1>5, <2>2, <3>1, SetReasoningIs
    <3>3. t # "" /\ Remembered(i)[1] = t /\ Remembered(i) # <<>>
      <4>1. t # ""
        BY TranslationAssumption
      <4>2. <<t>>[1] = t /\ <<t>> # <<>>
        OBVIOUS
      <4> QED BY <2>2, <4>1, <4>2, Zenon
    <3> QED BY <1>5, <2>2, <3>2, <3>3 DEF n
  <2> QED BY <1>8, <2>1, <2>2
<1>a. Len(w) = n /\ l < n /\ l \in Nat /\ n \in Nat
  BY <1>4, <1>7, <1>9
<1>10. ASSUME NEW j \in 1 .. l PROVE w[j] = u[j] /\ u[j].turn \in 1 .. i - 1 /\ u[j].turn # i
  <2>1. j \in 1 .. n /\ j # n
    BY <1>4, <1>7
  <2>2. u[j].turn \in 1 .. i - 1
    BY <1>3 DEF l
  <2>3. u[j].turn # i
    BY <1>0, <2>2
  <2> QED BY <1>6, <1>9, <2>1, <2>2, <2>3
<1>11. ASSUME NEW j \in 1 .. n, l < j PROVE w[j].turn = i /\ v[j].turn = i /\ v[j].reasoning = ""
  <2>1. v[j].turn = i /\ v[j].reasoning = ""
    BY <1>6, <1>11 DEF OfTurn
  <2>2. CASE j = n
    BY <1>9, <2>1, <2>2
  <2>3. CASE j # n
    BY <1>9, <2>1, <2>3
  <2> QED BY <2>1, <2>2, <2>3
<1>12. \A j \in 1 .. Len(w) : w[j].turn \in 1 .. i
  <2> TAKE j \in 1 .. Len(w)
  <2>1. j \in 1 .. n
    BY <1>9
  <2>2. CASE l < j
    <3>1. w[j].turn = i
      BY <1>11, <2>1, <2>2
    <3> QED BY <1>0, <3>1
  <2>3. CASE ~(l < j)
    <3>1. j \in 1 .. l
      BY <1>7, <2>1, <2>3
    <3>2. w[j].turn \in 1 .. i - 1
      BY <1>10, <3>1
    <3> QED BY <1>0, <3>2
  <2> QED BY <2>2, <2>3
<1>13. ASSUME NEW k \in 1 .. i PROVE Placed(k, w)
  <2>0. k \in Nat
    BY <1>0
  <2>1. CASE k # i
    <3>1. k \in 1 .. i - 1
      BY <1>0, <2>1
    <3>2. Placed(k, u)
      BY <1>3, <3>1
    <3>3. Len(u) <= Len(w)
      <4>1. l <= Len(w)
        BY <1>a
      <4> QED BY <4>1 DEF l
    <3>4. \A j \in 1 .. Len(u) : w[j] = u[j]
      BY <1>10 DEF l
    <3>5. \A j \in 1 .. Len(w) : Len(u) < j => w[j].turn # k
      BY <1>9, <1>11, <2>1 DEF l
    <3> QED BY <1>5, <2>0, <3>2, <3>3, <3>4, <3>5, PlacedKept
  <2>2. CASE k = i /\ Remembered(i) = <<>>
    <3>1. \A j \in 1 .. Len(w) : w[j].turn = i => w[j].reasoning = ""
      <4> TAKE j \in 1 .. Len(w)
      <4> SUFFICES ASSUME w[j].turn = i PROVE w[j].reasoning = ""
        OBVIOUS
      <4>1. j \in 1 .. n /\ w = v
        BY <1>9, <2>2
      <4>2. l < j
        <5> SUFFICES ASSUME ~(l < j) PROVE FALSE
          OBVIOUS
        <5>1. j \in 1 .. l
          BY <1>7, <4>1
        <5> QED BY <1>10, <5>1
      <4> QED BY <1>11, <4>1, <4>2
    <3> QED BY <2>2, <3>1 DEF Placed
  <2>3. CASE k = i /\ Remembered(i) # <<>>
    <3>1. n \in 1 .. Len(w) /\ n \in 1 .. n
      BY <1>a
    <3>2. w[n].turn = i
      BY <1>4, <1>11, <3>1
    <3>3. ASSUME NEW m \in 1 .. Len(w), w[m].turn = i
          PROVE  m <= n /\ (m # n => w[m].reasoning = "")
      <4>1. m \in 1 .. n /\ m <= n
        BY <1>a
      <4>2. l < m
        <5> SUFFICES ASSUME ~(l < m) PROVE FALSE
          OBVIOUS
        <5>1. m \in 1 .. l
          BY <1>7, <4>1
        <5> QED BY <1>10, <3>3, <5>1
      <4>3. m # n => w[m] = v[m]
        BY <1>9, <4>1
      <4> QED BY <1>11, <4>1, <4>2, <4>3
    <3>4. w[n].reasoning # "" /\ w[n].reasoning = Remembered(i)[1]
      BY <1>9, <2>3
    <3> QED BY <2>3, <3>1, <3>2, <3>3, <3>4 DEF Placed
  <2> QED BY <2>1, <2>2, <2>3
<1>14. Edge(i, w)
  <2>1. CASE Remembered(i) = <<>>
    BY <1>4, <1>9, <2>1
  <2>2. CASE Remembered(i) # <<>>
    BY <1>0, <1>9, <2>2, StaysOpen DEF Edge
  <2> QED BY <2>1, <2>2
<1>15. Bound(i, w)
  BY <1>12, <1>13, <1>14 DEF Bound
<1> QED BY <1>15 DEF w

LEMMA SilentKept ==
  ASSUME TypeInv, Alternates, chat, NEW i \in DOMAIN history, ~Speaks(i),
         NEW a \in Converted, Bound(i - 1, a.out), NEW c \in Converted,
         Converts(a, TurnToInput(i), c)
  PROVE  Bound(i, c.out)
<1>0. i \in Nat \ {0}
  BY TurnShape
<1>1. PICK d \in Converted : /\ Converts(a, BlocksToInput(i), d)
                             /\ Converts(d, Reasoning(i, "chat_reasoning"), c)
  BY TurnSplit
<1>2. d = a
  BY <1>1, BlocksSilent, NoItems
<1>3. Remembered(i) = <<>> /\ c = a
  BY <1>1, <1>2, AlternateTurns, MarkerStep
<1> DEFINE u == a.out
<1>4. /\ Edge(i - 1, u)
      /\ \A j \in 1 .. Len(u) : u[j].turn \in 1 .. i - 1
      /\ \A k \in 1 .. i - 1 : Placed(k, u)
  BY DEF Bound
<1> HIDE DEF u
<1>5. Edge(i, u)
  BY <1>0, <1>4, StaysOpen DEF Edge
<1>6. \A j \in 1 .. Len(u) : u[j].turn \in 1 .. i /\ u[j].turn # i
  BY <1>0, <1>4
<1>7. Placed(i, u)
  BY <1>3, <1>6 DEF Placed
<1>8. \A k \in 1 .. i : k \in 1 .. i - 1 \/ k = i
  BY <1>0
<1>9. Bound(i, u)
  BY <1>4, <1>5, <1>6, <1>7, <1>8 DEF Bound
<1> QED BY <1>3, <1>9 DEF u

LEMMA BoundKept ==
  ASSUME TypeInv, Accepted, Alternates, chat, NEW i \in DOMAIN history, NEW a \in Converted,
         Bound(i - 1, a.out), NEW c \in Converted, Converts(a, TurnToInput(i), c), c.ok
  PROVE  Bound(i, c.out)
BY SpokenKept, SilentKept

(* The boundary holds all the way. *)
LEMMA BoundHolds ==
  ASSUME TypeInv, Accepted, Alternates, chat, ResponsesInputToChat.ok
  PROVE  ResponsesInputToChat \in Converted /\ Bound(Len(history), ResponsesInputToChat.out)
<1> DEFINE n == Len(history)
           I == [k \in 0 .. n |-> {c \in Converted : c.ok => Bound(k, c.out)}]
           e == ResponsesInputToChat
<1>1. /\ Turns \in Seq(Seq(Input)) /\ Len(Turns) = n
      /\ DOMAIN history = 1 .. n /\ n \in Nat
      /\ \A i \in 1 .. n : Turns[i] = TurnToInput(i)
      /\ MessagesToInput = FlattenSeq(Turns)
  BY TurnsTyped
<1>2. Converts(Start, FlattenSeq(Turns), e)
  BY <1>1, ChatConverts
<1>a. MessagesToInput \in Seq(Input)
  BY InputTyped
<1>3. e \in Converted
  BY <1>1, <1>2, <1>a, ConvertsTyped
<1> HIDE DEF e, n
<1>4. \A k \in 0 .. n : I[k] = {c \in Converted : c.ok => Bound(k, c.out)}
  OBVIOUS
<1> HIDE DEF I
<1>5. Start \in I[0]
  <2>1. Start \in Converted /\ Start.out = <<>>
    BY StartTyped
  <2>2. Bound(0, <<>>)
    BY DEF Bound, Edge, JoinsLast
  <2> QED BY <1>1, <1>4, <2>1, <2>2
<1>6. ASSUME NEW i \in 1 .. Len(Turns), NEW b \in Converted, NEW c \in Converted,
             b \in I[i - 1], Converts(b, Turns[i], c)
      PROVE  c \in I[i]
  <2>1. /\ i \in 1 .. n /\ i \in DOMAIN history /\ i \in 0 .. n /\ i - 1 \in 0 .. n
        /\ Turns[i] = TurnToInput(i)
    BY <1>1
  <2>2. b.ok => Bound(i - 1, b.out)
    BY <1>4, <1>6, <2>1
  <2>3. TurnToInput(i) \in Seq(Input)
    BY <1>1, <2>1
  <2>4. ASSUME c.ok PROVE Bound(i, c.out)
    <3>1. b.ok
      BY <1>6, <2>1, <2>3, <2>4, StaysFailed
    <3> QED BY <1>6, <2>1, <2>2, <2>4, <3>1, BoundKept
  <2> QED BY <1>4, <2>1, <2>4
<1>7. e \in I[Len(Turns)]
  BY <1>1, <1>2, <1>5, <1>6, StartTyped, ConvertsFlatten
<1>8. e.ok
  BY DEF e
<1>9. n \in 0 .. n
  BY <1>1
<1>10. Bound(n, e.out)
  BY <1>1, <1>4, <1>7, <1>8, <1>9
<1> QED BY <1>3, <1>10 DEF e, n

(* Every reasoning item leads its turn. *)
Led(s) == \A j \in 1 .. Len(s) : s[j].type = "reasoning" =>
            j + 1 \in 1 .. Len(s) /\ s[j + 1].turn = s[j].turn

LEMMA LedJoin ==
  ASSUME NEW s \in Seq(Input), NEW t \in Seq(Input), Led(s), Led(t)
  PROVE  Led(s \o t)
<1> DEFINE w == s \o t
           l == Len(s)
           m == Len(t)
<1>1. /\ l \in Nat /\ m \in Nat /\ Len(w) = l + m
      /\ \A j \in 1 .. l : w[j] = s[j]
  OBVIOUS
<1>a. \A j \in 1 .. m : w[l + j] = t[j]
  OBVIOUS
<1>2. /\ \A j \in 1 .. l : s[j].type = "reasoning" => j + 1 \in 1 .. l /\ s[j + 1].turn = s[j].turn
      /\ \A j \in 1 .. m : t[j].type = "reasoning" => j + 1 \in 1 .. m /\ t[j + 1].turn = t[j].turn
  BY DEF Led
<1> HIDE DEF w, l, m
<1>3. ASSUME NEW j \in 1 .. l + m, w[j].type = "reasoning"
      PROVE  j + 1 \in 1 .. l + m /\ w[j + 1].turn = w[j].turn
  <2>1. CASE j <= l
    <3>1. j \in 1 .. l /\ w[j] = s[j]
      BY <1>1, <2>1
    <3>2. j + 1 \in 1 .. l /\ s[j + 1].turn = s[j].turn
      BY <1>2, <1>3, <3>1
    <3>3. w[j + 1] = s[j + 1]
      BY <1>1, <3>2
    <3>4. j + 1 \in 1 .. l + m
      BY <1>1, <3>2
    <3> QED BY <3>1, <3>2, <3>3, <3>4
  <2>2. CASE ~(j <= l)
    <3> DEFINE k == j - l
    <3>1. k \in 1 .. m /\ l + k = j
      BY <1>1, <2>2
    <3>2. w[j] = t[k]
      BY <1>a, <3>1
    <3> HIDE DEF k
    <3>3. k + 1 \in 1 .. m /\ t[k + 1].turn = t[k].turn
      BY <1>2, <1>3, <3>1, <3>2
    <3>4. l + (k + 1) = j + 1 /\ j + 1 \in 1 .. l + m
      BY <1>1, <3>1, <3>3
    <3>5. w[l + (k + 1)] = t[k + 1]
      BY <1>a, <3>3
    <3> QED BY <3>2, <3>3, <3>4, <3>5
  <2> QED BY <2>1, <2>2
<1>4. Led(w)
  BY <1>1, <1>3 DEF Led
<1> QED BY <1>4 DEF w

LEMMA TurnLed ==
  ASSUME TypeInv, Accepted, Alternates, ~chat, NEW i \in DOMAIN history
  PROVE  Led(TurnToInput(i))
<1> DEFINE u == Reasoning(i, "reasoning")
           v == BlocksToInput(i)
<1>1. u \in Seq(Input) /\ v \in Seq(TurnItems(i)) /\ v \in Seq(Input)
  BY BlocksTyped, TurnSeqsAreInput, ReasoningIsInput
<1>2. TurnToInput(i) = u \o v
  <2>1. TurnToInput(i) = (u \o v) \o <<>>
    BY DEF TurnToInput
  <2> HIDE DEF u, v
  <2>2. u \o v \in Seq(Input)
    BY <1>1, Joined
  <2> QED BY <2>1, <2>2, Unit
<1>3. u # <<>> => v # <<>>
  BY BlocksSpeak, AlternateTurns, ReasoningIs
<1>4. \A j \in 1 .. Len(v) : v[j].turn = i /\ v[j].type # "reasoning"
  <2> HIDE DEF v
  <2> TAKE j \in 1 .. Len(v)
  <2>1. v[j] \in TurnItems(i)
    BY <1>1
  <2> QED BY <2>1 DEF TurnItems
<1>5. u = <<>> \/ (Len(u) = 1 /\ u[1].turn = i)
  <2>1. CASE u = <<>>
    BY <2>1
  <2>2. ASSUME NEW t \in Thoughts, u = <<Item(i, "reasoning", "", t, <<>>)>>
        PROVE  Len(u) = 1 /\ u[1].turn = i
    <3> DEFINE x == Item(i, "reasoning", "", t, <<>>)
    <3>1. x.turn = i
      BY DEF Item
    <3> HIDE DEF x
    <3>2. u = <<x>>
      BY <2>2 DEF x
    <3> HIDE DEF u
    <3> QED BY <3>1, <3>2
  <2> QED BY <2>1, <2>2, ReasoningIs
<1> HIDE DEF u, v
<1> DEFINE w == u \o v
<1>c. Len(v) \in Nat /\ (u # <<>> => Len(v) # 0)
  BY <1>1, <1>3, EmptySeq
<1>d. Len(w) = Len(u) + Len(v) /\ (Len(u) # 0 => w[1] = u[1])
  BY <1>1
<1>e. \A j \in 1 .. Len(v) : w[Len(u) + j] = v[j]
  BY <1>1
<1>6. CASE u = <<>>
  <2>1. w = v
    BY <1>1, <1>6, Unit
  <2>2. Led(v)
    BY <1>4 DEF Led
  <2> QED BY <1>2, <2>1, <2>2
<1>7. CASE Len(u) = 1 /\ u[1].turn = i
  <2> DEFINE m == Len(v)
  <2>1. m \in Nat /\ m # 0 /\ Len(w) = 1 + m /\ w[1] = u[1]
    BY <1>1, <1>7, <1>c, <1>d
  <2>2. \A j \in 1 .. m : w[1 + j] = v[j]
    BY <1>7, <1>e
  <2>3. \A j \in 1 .. m : v[j].turn = i /\ v[j].type # "reasoning"
    BY <1>4
  <2> HIDE DEF w, m
  <2>4. ASSUME NEW j \in 1 .. 1 + m, w[j].type = "reasoning"
        PROVE  j + 1 \in 1 .. 1 + m /\ w[j + 1].turn = w[j].turn
    <3>1. j = 1
      <4> SUFFICES ASSUME j # 1 PROVE FALSE
        OBVIOUS
      <4>1. j - 1 \in 1 .. m /\ 1 + (j - 1) = j
        BY <2>1
      <4>2. w[j] = v[j - 1]
        BY <2>2, <4>1
      <4> QED BY <2>3, <2>4, <4>1, <4>2
    <3>2. 1 \in 1 .. m /\ 2 \in 1 .. 1 + m
      BY <2>1
    <3>3. w[1 + 1] = v[1]
      BY <2>2, <3>2
    <3>4. w[2].turn = i
      BY <2>3, <3>2, <3>3
    <3> QED BY <1>7, <2>1, <3>1, <3>2, <3>4
  <2>5. Led(w)
    BY <2>1, <2>4 DEF Led
  <2> QED BY <1>2, <2>5 DEF w
<1> QED BY <1>5, <1>6, <1>7

LEMMA ReasoningLeads ==
  ASSUME TypeInv, Accepted, Alternates
  PROVE  TurnFollowsReasoning
<1> SUFFICES ASSUME ~chat PROVE TurnFollowsReasoning
  BY DEF TurnFollowsReasoning
<1> DEFINE s == MessagesToInput
           M == {v \in Seq(Input) : Led(v)}
<1>1. /\ Turns \in Seq(Seq(Input)) /\ s = FlattenSeq(Turns)
      /\ \A i \in 1 .. Len(Turns) : i \in DOMAIN history /\ Turns[i] = TurnToInput(i)
  BY TurnsTyped
<1>2. \A i \in 1 .. Len(Turns) : Turns[i] \in M
  <2> TAKE i \in 1 .. Len(Turns)
  <2>1. Turns[i] \in Seq(Input)
    BY <1>1
  <2>2. Led(Turns[i])
    BY <1>1, TurnLed
  <2> QED BY <2>1, <2>2
<1>3. M \in SUBSET Seq(Input) /\ <<>> \in M
  BY DEF Led
<1>4. \A u, v \in M : u \o v \in M
  <2> TAKE u, v \in M
  <2>1. u \in Seq(Input) /\ v \in Seq(Input) /\ Led(u) /\ Led(v)
    OBVIOUS
  <2>2. u \o v \in Seq(Input)
    BY <2>1, Joined
  <2>3. Led(u \o v)
    BY <2>1, LedJoin
  <2> QED BY <2>2, <2>3
<1>5. s \in M
  <2> HIDE DEF M, s
  <2> QED BY <1>1, <1>2, <1>3, <1>4, FlattenStays
<1>6. s \in Seq(Input) /\ Led(s)
  BY <1>5
<1> HIDE DEF s, M
<1>7. \A j \in DOMAIN s : s[j].type = "reasoning" =>
        j + 1 \in DOMAIN s /\ s[j + 1].turn = s[j].turn
  BY <1>6 DEF Led
<1> QED BY <1>7 DEF TurnFollowsReasoning, s

LEMMA ReasoningPlaced == TypeInv => ReasoningInPlace
<1> SUFFICES ASSUME TypeInv, Accepted, ~HasPart("error"), Alternates PROVE ReasoningInPlace
  BY DEF ReasoningInPlace
<1> DEFINE out == ResponsesInputToChat.out
           Said(i) == {j \in DOMAIN out : out[j].turn = i /\ out[j].reasoning # ""}
<1>1. ASSUME chat, ResponsesInputToChat.ok, NEW i \in DOMAIN history
      PROVE  IF Remembered(i) = <<>> THEN Said(i) = {}
             ELSE \E j \in Said(i) :
                    /\ Said(i) = {j}
                    /\ out[j].reasoning = Remembered(i)[1]
                    /\ \A k \in DOMAIN out : out[k].turn = i => k <= j
  <2>1. ResponsesInputToChat \in Converted /\ Bound(Len(history), out)
    BY <1>1, BoundHolds
  <2>2. out \in Seq(ChatMessages)
    BY <2>1 DEF Converted
  <2>3. i \in 1 .. Len(history)
    BY TurnShape
  <2> HIDE DEF out
  <2>4. Placed(i, out)
    BY <2>1, <2>3 DEF Bound
  <2>5. DOMAIN out = 1 .. Len(out)
    BY <2>2
  <2>6. CASE Remembered(i) = <<>>
    BY <2>4, <2>5, <2>6 DEF Placed
  <2>7. CASE Remembered(i) # <<>>
    <3>1. PICK j \in 1 .. Len(out) :
            /\ out[j].turn = i /\ out[j].reasoning # "" /\ out[j].reasoning = Remembered(i)[1]
            /\ \A m \in 1 .. Len(out) :
                 out[m].turn = i => m <= j /\ (m # j => out[m].reasoning = "")
      BY <2>4, <2>7 DEF Placed
    <3>2. j \in Said(i)
      BY <2>5, <3>1
    <3>3. \A k \in Said(i) : k = j
      BY <2>5, <3>1
    <3>4. Said(i) = {j}
      BY <3>2, <3>3, Zenon
    <3>5. \A k \in DOMAIN out : out[k].turn = i => k <= j
      BY <2>5, <3>1
    <3> QED BY <2>7, <3>1, <3>2, <3>4, <3>5
  <2> QED BY <2>6, <2>7
<1>2. TurnFollowsReasoning
  BY ReasoningLeads
<1> HIDE DEF Said, out
<1>3. chat /\ ResponsesInputToChat.ok =>
        \A i \in DOMAIN history :
          IF Remembered(i) = <<>> THEN Said(i) = {}
          ELSE \E j \in Said(i) :
                 /\ Said(i) = {j}
                 /\ out[j].reasoning = Remembered(i)[1]
                 /\ \A k \in DOMAIN out : out[k].turn = i => k <= j
  BY <1>1
<1> QED BY <1>2, <1>3 DEF ReasoningInPlace, Said, out

(* The reasoning the gateway remembered for a turn goes with that turn and *)
(* no other, on either wire, whatever the cache let go of in between and   *)
(* whichever turns of the client are empty, if assistant turns speak and   *)
(* someone else speaks between them: ReasoningInPlace is an invariant of   *)
(* the translation.                                                        *)
THEOREM ReasoningStaysInPlace == Spec => []ReasoningInPlace
<1>1. TypeInv => ReasoningInPlace
  BY ReasoningPlaced
<1> QED BY <1>1, TypeHolds, PTL


-----------------------------------------------------------------------------
(* What converts.                                                          *)

HasAssistant(out) == \E j \in 1 .. Len(out) : out[j].role = "assistant"

LEMMA LastAssistantFound ==
  ASSUME NEW out \in Seq(ChatMessages)
  PROVE  LastAssistant(out) # 0 <=> HasAssistant(out)
BY LastAssistantIs DEF HasAssistant

LEMMA AppendHas ==
  ASSUME NEW out \in Seq(ChatMessages), NEW m \in ChatMessages
  PROVE  /\ Append(out, m) # <<>>
         /\ HasAssistant(Append(out, m)) <=> HasAssistant(out) \/ m.role = "assistant"
<1> DEFINE r == Append(out, m)
           n == Len(out)
<1>1. n \in Nat /\ Len(r) = n + 1 /\ r[n + 1] = m /\ \A j \in 1 .. n : r[j] = out[j]
  OBVIOUS
<1>2. r # <<>>
  <2>1. r \in Seq(ChatMessages) /\ Len(r) # 0
    BY <1>1
  <2> HIDE DEF r
  <2> QED BY <2>1
<1> HIDE DEF r, n
<1>3. (\E j \in 1 .. n + 1 : r[j].role = "assistant")
        <=> (\E j \in 1 .. n : out[j].role = "assistant") \/ m.role = "assistant"
  <2>1. \A j \in 1 .. n + 1 : j \in 1 .. n \/ j = n + 1
    BY <1>1
  <2>2. \A j \in 1 .. n : j \in 1 .. n + 1
    BY <1>1
  <2>3. n + 1 \in 1 .. n + 1
    BY <1>1
  <2> QED BY <1>1, <2>1, <2>2, <2>3
<1>4. HasAssistant(r) <=> HasAssistant(out) \/ m.role = "assistant"
  BY <1>1, <1>3 DEF HasAssistant, n
<1> QED BY <1>2, <1>4 DEF r

(* JoinCall and SetReasoning leave the roles. *)
LEMMA SameRoles ==
  ASSUME NEW u \in Seq(ChatMessages), NEW v \in Seq(ChatMessages), Len(v) = Len(u),
         \A j \in 1 .. Len(u) : v[j].role = u[j].role
  PROVE  (HasAssistant(v) <=> HasAssistant(u)) /\ (v # <<>> <=> u # <<>>)
<1>1. HasAssistant(v) <=> HasAssistant(u)
  BY DEF HasAssistant
<1>2. v # <<>> <=> u # <<>>
  OBVIOUS
<1> QED BY <1>1, <1>2

(* An item of a turn: it converts but for a file, and an assistant's item  *)
(* is or joins an assistant message.                                       *)
LEMMA ItemHas ==
  ASSUME TypeInv, Accepted, NEW i \in DOMAIN history, NEW d \in Converted, d.ok,
         NEW x \in TurnItems(i), NEW r, r = AddItem(d, x), r.ok
  PROVE  /\ r.out # <<>>
         /\ HasAssistant(r.out) <=> HasAssistant(d.out) \/ history[i].role = "assistant"
<1> DEFINE v == d.out
           ro == x.role
<1>1. /\ x \in Input /\ x \in Items /\ x.parts \in Seq(Parts)
      /\ x.type \in {"function_call", "function_call_output"} => x.id \in Ids
      /\ x.type = "message" => ro \in {"user", "assistant", "system"}
  BY TurnItemRoles DEF Input
<1>2. /\ history[i].role # "assistant" =>
           (x.type = "message" /\ ro = history[i].role) \/ x.type = "function_call_output"
      /\ history[i].role = "assistant" =>
           (x.type = "message" /\ ro = history[i].role) \/ x.type = "function_call"
  BY TurnItemRoles
<1>3. v \in Seq(ChatMessages)
  BY DEF Converted
<1>4. ASSUME NEW m \in ChatMessages, r.out = Append(v, m),
             m.role = "assistant" <=> history[i].role = "assistant"
      PROVE  /\ r.out # <<>>
             /\ HasAssistant(r.out) <=> HasAssistant(v) \/ history[i].role = "assistant"
  <2> HIDE DEF v
  <2> QED BY <1>3, <1>4, AppendHas
<1>5. CASE x.type = "message"
  <2> DEFINE m == ChatMessage(x, ro, x.parts, <<>>)
  <2>1. PartsConvert(x)
    BY <1>1, <1>5, ItemAdded DEF Refused
  <2>2. r.out = Append(v, m)
    BY <1>1, <1>5, <2>1, ItemAdded
  <2>3. <<>> \in Seq(Ids) /\ ro \in {"user", "assistant", "system", "tool"} /\ ro # "tool"
    BY <1>1, <1>5
  <2>4. m \in ChatMessages /\ m.role = ro
    <3>1. x \in Items /\ x.parts \in Seq(Parts)
      BY <1>1
    <3> HIDE DEF ro
    <3>2. m \in ChatMessages
      BY <2>3, <3>1, ChatMessageType, ZenonT(60)
    <3>3. m.role = ro
      BY DEF ChatMessage
    <3> QED BY <3>2, <3>3
  <2> HIDE DEF m, v, ro
  <2>5. m.role = "assistant" <=> history[i].role = "assistant"
    BY <1>2, <1>5, <2>4
  <2>6. /\ r.out # <<>>
        /\ HasAssistant(r.out) <=> HasAssistant(v) \/ history[i].role = "assistant"
    BY <1>4, <2>2, <2>4, <2>5
  <2> QED BY <2>6 DEF v
<1>6. CASE x.type = "function_call"
  <2>a. history[i].role = "assistant"
    BY <1>2, <1>6
  <2>1. CASE JoinsLast(v)
    <3>1. r.out = JoinCall(v, x.id)
      BY <1>1, <1>6, <2>1, ItemAdded
    <3> DEFINE n == Len(v)
    <3>2. /\ n \in Nat /\ n # 0 /\ r.out \in Seq(ChatMessages) /\ Len(r.out) = n
          /\ r.out[n].role = "assistant"
      BY <1>1, <1>3, <1>6, <2>1, <3>1, JoinCallIs
    <3>3. n \in 1 .. Len(r.out)
      BY <3>2
    <3>4. HasAssistant(r.out)
      BY <3>2, <3>3 DEF HasAssistant
    <3>5. r.out # <<>>
      BY <3>2
    <3> QED BY <2>a, <3>4, <3>5
  <2>2. CASE ~JoinsLast(v)
    <3> DEFINE m == ChatMessage(x, "assistant", <<>>, <<x.id>>)
    <3>1. r.out = Append(v, m)
      BY <1>1, <1>6, <2>2, ItemAdded
    <3>2. <<>> \in Seq(Parts) /\ <<x.id>> \in Seq(Ids)
      BY <1>1, <1>6
    <3>3. m \in ChatMessages /\ m.role = "assistant"
      <4>1. x \in Items
        BY <1>1
      <4>2. m \in ChatMessages
        BY <3>2, <4>1, ChatMessageType, ZenonT(60)
      <4>3. m.role = "assistant"
        BY DEF ChatMessage
      <4> QED BY <4>2, <4>3
    <3> HIDE DEF m, v
    <3>4. /\ r.out # <<>>
          /\ HasAssistant(r.out) <=> HasAssistant(v) \/ history[i].role = "assistant"
      BY <1>4, <2>a, <3>1, <3>3
    <3> QED BY <3>4 DEF v
  <2> QED BY <2>1, <2>2
<1>7. CASE x.type = "function_call_output"
  <2> DEFINE p == JsonValueToString(x.parts)
             m == ChatMessage(x, "tool", p, <<>>)
  <2>1. r.out = Append(v, m)
    BY <1>1, <1>7, ItemAdded
  <2>2. p \in Seq(Parts) /\ <<>> \in Seq(Ids)
    BY <1>1, JsonType
  <2>3. m \in ChatMessages /\ m.role = "tool"
    <3> HIDE DEF p
    <3>1. x \in Items /\ x.id \in Ids
      BY <1>1, <1>7
    <3>2. m \in ChatMessages
      BY <2>2, <3>1, ChatMessageType, ZenonT(60)
    <3>3. m.role = "tool"
      BY DEF ChatMessage
    <3> QED BY <3>2, <3>3
  <2> HIDE DEF m, p, v
  <2>4. history[i].role # "assistant"
    BY <1>2, <1>7
  <2>5. /\ r.out # <<>>
        /\ HasAssistant(r.out) <=> HasAssistant(v) \/ history[i].role = "assistant"
    BY <1>4, <2>1, <2>3, <2>4
  <2> QED BY <2>5 DEF v
<1> QED BY <1>2, <1>5, <1>6, <1>7

LEMMA BlocksHave ==
  ASSUME TypeInv, Accepted, NEW i \in DOMAIN history, NEW a \in Converted,
         NEW s \in Seq(TurnItems(i)), NEW b, Converts(a, s, b), b.ok
  PROVE  /\ b.out # <<>> <=> a.out # <<>> \/ s # <<>>
         /\ HasAssistant(b.out) <=>
              HasAssistant(a.out) \/ (history[i].role = "assistant" /\ s # <<>>)
<1> DEFINE X == TurnItems(i)
           Has(v) == \A c \in Converted : Converts(a, v, c) /\ c.ok =>
                       /\ c.out # <<>> <=> a.out # <<>> \/ v # <<>>
                       /\ HasAssistant(c.out) <=>
                            HasAssistant(a.out) \/ (history[i].role = "assistant" /\ v # <<>>)
           M == {v \in Seq(X) : Has(v)}
<1>a. \A v \in Seq(X) : v \in Seq(Input)
  BY TurnSeqsAreInput
<1>1. Has(<<>>)
  BY NoItems
<1>2. ASSUME NEW v \in Seq(X), Has(v), NEW x \in X PROVE Has(Append(v, x))
  <2> SUFFICES ASSUME NEW c \in Converted, Converts(a, Append(v, x), c), c.ok
               PROVE  /\ c.out # <<>>
                      /\ HasAssistant(c.out) <=>
                           HasAssistant(a.out) \/ history[i].role = "assistant"
    OBVIOUS
  <2>0. v \in Seq(Input) /\ x \in Input
    BY <1>a, TurnItemsAreInput
  <2>1. PICK d \in Converted : Converts(a, v, d) /\ c = AddItem(d, x)
    BY <2>0, OneItemLess
  <2>2. d.ok
    BY <2>0, <2>1, ItemAdded DEF Converted
  <2>3. HasAssistant(d.out) <=>
          HasAssistant(a.out) \/ (history[i].role = "assistant" /\ v # <<>>)
    BY <1>2, <2>1, <2>2
  <2>4. /\ c.out # <<>>
        /\ HasAssistant(c.out) <=> HasAssistant(d.out) \/ history[i].role = "assistant"
    <3> HIDE DEF Has, M
    <3> QED BY <2>1, <2>2, ItemHas
  <2> QED BY <2>3, <2>4
<1>3. b \in Converted
  BY <1>a, ConvertsTyped
<1> HIDE DEF Has
<1>4. M = Seq(X)
  <2>1. M \in SUBSET Seq(X) /\ <<>> \in M
    BY <1>1
  <2>2. \A v \in M, x \in X : Append(v, x) \in M
    BY <1>2
  <2> HIDE DEF M, X
  <2> QED BY <2>1, <2>2, SeqInduction
<1>5. Has(s)
  BY <1>4
<1> QED BY <1>3, <1>5 DEF Has

(* What a conversion has got after n turns. *)
Tells(n, out) ==
  /\ out # <<>> <=> \E k \in 1 .. n : Speaks(k)
  /\ HasAssistant(out) <=> SaidBefore(n)

(* Every reasoning so far had a message to go with. *)
Lands(n) == \A k \in 1 .. n : Remembered(k) # <<>> => SaidBefore(k)

LEMMA BlocksTell ==
  ASSUME TypeInv, Accepted, chat, ~HasPart("file"), NEW i \in DOMAIN history,
         NEW b \in Converted, b.ok, Tells(i - 1, b.out),
         NEW d \in Converted, Converts(b, BlocksToInput(i), d)
  PROVE  d.ok /\ Tells(i, d.out)
<1> DEFINE s == BlocksToInput(i)
<1>1. i \in Nat \ {0}
  BY TurnShape
<1>2. d.ok
  BY BlocksWithoutFiles, BlocksConvert
<1>3. s \in Seq(TurnItems(i)) /\ (s # <<>> <=> Speaks(i))
  BY BlocksTyped, BlocksSpeak, BlocksSilent
<1>4. /\ d.out # <<>> <=> b.out # <<>> \/ Speaks(i)
      /\ HasAssistant(d.out) <=>
           HasAssistant(b.out) \/ (history[i].role = "assistant" /\ Speaks(i))
  BY <1>2, <1>3, BlocksHave
<1>5. \A k : k \in 1 .. i <=> k \in 1 .. i - 1 \/ k = i
  BY <1>1
<1>6. d.out # <<>> <=> \E k \in 1 .. i : Speaks(k)
  BY <1>4, <1>5 DEF Tells
<1>7. HasAssistant(d.out) <=> SaidBefore(i)
  BY <1>4, <1>5 DEF Tells, SaidBefore
<1> QED BY <1>2, <1>6, <1>7 DEF Tells

LEMMA TurnTells ==
  ASSUME TypeInv, Accepted, chat, ~HasPart("file"), NEW i \in DOMAIN history,
         NEW b \in Converted, b.ok, Tells(i - 1, b.out),
         NEW c \in Converted, Converts(b, TurnToInput(i), c)
  PROVE  /\ c.ok <=> (Remembered(i) # <<>> => SaidBefore(i))
         /\ c.ok => Tells(i, c.out)
<1>1. PICK d \in Converted : /\ Converts(b, BlocksToInput(i), d)
                             /\ Converts(d, Reasoning(i, "chat_reasoning"), c)
  BY TurnSplit
<1>2. d.ok /\ Tells(i, d.out) /\ d.out \in Seq(ChatMessages)
  BY <1>1, BlocksTell DEF Converted
<1>3. LastAssistant(d.out) # 0 <=> SaidBefore(i)
  BY <1>2, LastAssistantFound DEF Tells
<1>4. CASE Remembered(i) = <<>> /\ c = d
  BY <1>2, <1>4
<1>5. ASSUME NEW t \in Thoughts, NEW x \in Input, Remembered(i) = <<t>>,
             x.type = "chat_reasoning", x.id = t, c = AddItem(d, x)
      PROVE  /\ c.ok <=> (Remembered(i) # <<>> => SaidBefore(i))
             /\ c.ok => Tells(i, c.out)
  <2>1. Remembered(i) # <<>>
    BY <1>5
  <2>2. CASE ~SaidBefore(i)
    <3>1. ~c.ok
      BY <1>2, <1>3, <1>5, <2>2, ItemAdded DEF Refused
    <3> QED BY <2>1, <2>2, <3>1
  <2>3. CASE SaidBefore(i)
    <3> DEFINE u == d.out
               w == c.out
               l == LastAssistant(u)
    <3>1. c.ok /\ w = SetReasoning(u, t)
      BY <1>2, <1>3, <1>5, <2>3, ItemAdded
    <3>2. u \in Seq(ChatMessages) /\ l # 0
      BY <1>2, <1>3, <2>3
    <3> HIDE DEF u, w, l
    <3>3. /\ w \in Seq(ChatMessages) /\ Len(w) = Len(u)
          /\ \A j \in 1 .. Len(u) : j # l => w[j] = u[j]
          /\ w[l].role = u[l].role
      BY <3>1, <3>2, SetReasoningIs DEF l
    <3>4. \A j \in 1 .. Len(u) : w[j].role = u[j].role
      BY <3>3
    <3>5. (HasAssistant(w) <=> HasAssistant(u)) /\ (w # <<>> <=> u # <<>>)
      BY <3>2, <3>3, <3>4, SameRoles
    <3>6. Tells(i, w)
      BY <1>2, <3>5 DEF Tells, u
    <3> QED BY <2>3, <3>1, <3>6 DEF w
  <2> QED BY <2>2, <2>3
<1> QED BY <1>1, <1>4, <1>5, MarkerStep

(* Without a file the messages convert just if every reasoning lands. *)
LEMMA HistoryConverts ==
  ASSUME TypeInv, Accepted, chat, ~HasPart("file"), NEW e, e = ResponsesInputToChat
  PROVE  /\ e.ok <=> Lands(Len(history))
         /\ e.ok => Tells(Len(history), e.out)
<1> DEFINE n == Len(history)
           Right(k, c) == (c.ok <=> Lands(k)) /\ (c.ok => Tells(k, c.out))
           I == [k \in 0 .. n |-> {c \in Converted : Right(k, c)}]
<1>1. /\ Turns \in Seq(Seq(Input)) /\ Len(Turns) = n
      /\ DOMAIN history = 1 .. n /\ n \in Nat
      /\ \A i \in 1 .. n : Turns[i] = TurnToInput(i)
  BY TurnsTyped
<1>2. Converts(Start, FlattenSeq(Turns), e)
  BY ChatConverts, TurnsTyped
<1> HIDE DEF n
<1>3. \A k \in 0 .. n : I[k] = {c \in Converted : Right(k, c)}
  OBVIOUS
<1> HIDE DEF I
<1>4. Start \in I[0]
  <2>1. Start \in Converted /\ Start.ok /\ Start.out = <<>>
    BY StartTyped
  <2>2. Lands(0) /\ Tells(0, <<>>)
    BY DEF Lands, Tells, SaidBefore, HasAssistant
  <2> QED BY <1>1, <1>3, <2>1, <2>2
<1>5. ASSUME NEW i \in 1 .. Len(Turns), NEW b \in Converted, NEW c \in Converted,
             b \in I[i - 1], Converts(b, Turns[i], c)
      PROVE  c \in I[i]
  <2>1. /\ i \in DOMAIN history /\ i \in 0 .. n /\ i - 1 \in 0 .. n
        /\ Turns[i] = TurnToInput(i) /\ Turns[i] \in Seq(Input)
    BY <1>1
  <2>2. (b.ok <=> Lands(i - 1)) /\ (b.ok => Tells(i - 1, b.out))
    BY <1>3, <1>5, <2>1
  <2>3. Lands(i) <=> Lands(i - 1) /\ (Remembered(i) # <<>> => SaidBefore(i))
    <3>1. \A k : k \in 1 .. i <=> k \in 1 .. i - 1 \/ k = i
      BY <1>1
    <3> QED BY <3>1 DEF Lands
  <2>4. CASE ~b.ok
    <3>1. c = b
      BY <1>5, <2>1, <2>4, StaysFailed
    <3> QED BY <1>3, <2>1, <2>2, <2>3, <2>4, <3>1
  <2>5. CASE b.ok
    <3>1. /\ c.ok <=> (Remembered(i) # <<>> => SaidBefore(i))
          /\ c.ok => Tells(i, c.out)
      BY <1>5, <2>1, <2>2, <2>5, TurnTells
    <3> QED BY <1>3, <2>1, <2>2, <2>3, <2>5, <3>1
  <2> QED BY <2>4, <2>5
<1>6. e \in I[Len(Turns)]
  <2> HIDE DEF Right
  <2> QED BY <1>1, <1>2, <1>4, <1>5, StartTyped, ConvertsFlatten
<1>7. n \in 0 .. n
  BY <1>1
<1> QED BY <1>1, <1>3, <1>6, <1>7 DEF n

(* A file fails the conversion. *)
LEMMA ItemsConvert ==
  ASSUME NEW a \in Converted, NEW s \in Seq(Input), NEW b, Converts(a, s, b), b.ok
  PROVE  \A j \in 1 .. Len(s) : PartsConvert(s[j])
<1> DEFINE Fine(v) == \A c \in Converted : Converts(a, v, c) /\ c.ok =>
                        \A j \in 1 .. Len(v) : PartsConvert(v[j])
           M == {v \in Seq(Input) : Fine(v)}
<1>1. Fine(<<>>)
  OBVIOUS
<1>2. ASSUME NEW v \in Seq(Input), Fine(v), NEW x \in Input PROVE Fine(Append(v, x))
  <2> DEFINE w == Append(v, x)
  <2> SUFFICES ASSUME NEW c \in Converted, Converts(a, w, c), c.ok, NEW j \in 1 .. Len(w)
               PROVE  PartsConvert(w[j])
    OBVIOUS
  <2>1. PICK d \in Converted : Converts(a, v, d) /\ c = AddItem(d, x)
    BY OneItemLess
  <2>2. d.ok
    BY <2>1, ItemAdded DEF Converted
  <2>3. \A k \in 1 .. Len(v) : PartsConvert(v[k])
    BY <1>2, <2>1, <2>2
  <2>4. PartsConvert(x)
    <3>1. CASE x.type = "message"
      BY <2>1, <2>2, <3>1, ItemAdded DEF Refused
    <3>2. CASE x.type # "message"
      BY <3>2 DEF Input
    <3> QED BY <3>1, <3>2
  <2>5. (j = Len(v) + 1 /\ w[j] = x) \/ (j \in 1 .. Len(v) /\ w[j] = v[j])
    <3>1. /\ Len(v) \in Nat /\ Len(w) = Len(v) + 1 /\ w[Len(v) + 1] = x
          /\ \A k \in 1 .. Len(v) : w[k] = v[k]
      OBVIOUS
    <3> HIDE DEF w
    <3>2. j = Len(v) + 1 \/ j \in 1 .. Len(v)
      BY <3>1
    <3> QED BY <3>1, <3>2
  <2> HIDE DEF w
  <2> QED BY <2>3, <2>4, <2>5
<1>3. b \in Converted
  BY ConvertsTyped
<1> HIDE DEF Fine
<1>4. M = Seq(Input)
  <2>1. M \in SUBSET Seq(Input) /\ <<>> \in M
    BY <1>1
  <2>2. \A v \in M, x \in Input : Append(v, x) \in M
    BY <1>2
  <2> HIDE DEF M
  <2> QED BY <2>1, <2>2, SeqInduction
<1>5. Fine(s)
  BY <1>4
<1> QED BY <1>3, <1>5 DEF Fine

LEMMA FilesFail ==
  ASSUME TypeInv, ResponsesInputToChat.ok
  PROVE  ~HasPart("file")
<1> DEFINE s == MessagesToInput
<1>1. s \in Seq(Input) /\ Converts(Start, s, ResponsesInputToChat)
  BY InputTyped, ChatConverts
<1> HIDE DEF s
<1>2. \A j \in 1 .. Len(s) : PartsConvert(s[j])
  BY <1>1, StartTyped, ItemsConvert
<1>3. ~(\E j \in DOMAIN s : \E k \in DOMAIN s[j].parts : s[j].parts[k].kind = "file")
  BY <1>1, <1>2 DEF PartsConvert
<1> QED BY <1>3 DEF HasPart, s

LEMMA OptionsConvert ==
  ASSUME TypeInv, Accepted
  PROVE  EffortConverts /\ ResponsesToolChoiceToChat(ToolChoiceToResponses(opts)) # "error"
<1> DEFINE e == ToResponsesEffort(opts)
           c == ToolChoiceToResponses(opts)
<1>1. e \in {"low", "medium", "high", "xhigh", "max", "absent"}
  BY EffortSent
<1>2. opts.choice \in {"absent", "auto", "none", "any", "tool"}
  BY OptionShape DEF Accepted, ValidateOptions
<1>3. c \in {"absent", "auto", "none", "required", "function"}
  BY <1>2 DEF ToolChoiceToResponses
<1> HIDE DEF e, c
<1>4. e # "absent" => DeepSeekEffort(e) \in 1 .. 100
  BY <1>1 DEF DeepSeekEffort
<1>5. ResponsesToolChoiceToChat(c) # "error"
  BY <1>3 DEF ResponsesToolChoiceToChat
<1> QED BY <1>4, <1>5 DEF EffortConverts, e, c

LEMMA AcceptedIsConverted == TypeInv => AcceptedConverts
<1> SUFFICES ASSUME TypeInv, chat, Accepted
             PROVE  ChatRequestOK <=>
                      /\ ~HasPart("file")
                      /\ \E i \in DOMAIN history : Speaks(i)
                      /\ \A i \in DOMAIN history : Remembered(i) # <<>> => SaidBefore(i)
  BY DEF AcceptedConverts
<1>1. DOMAIN history = 1 .. Len(history)
  BY TurnsTyped
<1>2. ChatRequestOK <=> ResponsesInputToChat.ok /\ ResponsesInputToChat.out # <<>>
  BY OptionsConvert DEF ChatRequestOK
<1>3. CASE HasPart("file")
  BY <1>2, <1>3, FilesFail
<1>4. CASE ~HasPart("file")
  <2>1. /\ ResponsesInputToChat.ok <=> Lands(Len(history))
        /\ ResponsesInputToChat.ok => Tells(Len(history), ResponsesInputToChat.out)
    BY <1>4, HistoryConverts
  <2> QED BY <1>1, <1>2, <1>4, <2>1 DEF Lands, Tells
<1> QED BY <1>3, <1>4

(* What Parse accepts the adapter converts, but for a file, a conversation *)
(* in which no turn says anything, and reasoning that precedes the         *)
(* assistant's first words; it refuses no other conversation, for its      *)
(* calls, its effort or its tool choice, however long and however many     *)
(* turns are empty: AcceptedConverts is an invariant of the translation.   *)
THEOREM AcceptedStaysConvertible == Spec => []AcceptedConverts
<1>1. TypeInv => AcceptedConverts
  BY AcceptedIsConverted
<1> QED BY <1>1, TypeHolds, PTL


-----------------------------------------------------------------------------
(* Calls and their results.                                                *)

(* Message j, if it has calls, is followed by their results. *)
Answered(out, j) ==
  out[j].calls # <<>> =>
    /\ \E i \in DOMAIN history : Range(out[j].calls) = CallsOf(i)
    /\ \A k \in 1 .. Len(out[j].calls) : j + k \in 1 .. Len(out) /\ out[j + k].role = "tool"
    /\ {out[j + k].id : k \in 1 .. Len(out[j].calls)} = Range(out[j].calls)

Done(out) == \A j \in 1 .. Len(out) : Answered(out, j)

LEMMA AnsweredKept ==
  ASSUME NEW u \in Seq(ChatMessages), NEW v \in Seq(ChatMessages), Len(u) <= Len(v),
         \A m \in 1 .. Len(u) : v[m].role = u[m].role /\ v[m].id = u[m].id,
         NEW j \in 1 .. Len(u), v[j].calls = u[j].calls, Answered(u, j)
  PROVE  Answered(v, j)
<1> DEFINE c == u[j].calls
           l == Len(u)
           n == Len(v)
<1>1. l \in Nat /\ n \in Nat /\ l <= n /\ j \in 1 .. l /\ v[j].calls = c
  OBVIOUS
<1>2. \A m \in 1 .. l : v[m].role = u[m].role /\ v[m].id = u[m].id
  OBVIOUS
<1>3. CASE c = <<>>
  BY <1>1, <1>3 DEF Answered
<1>4. CASE c # <<>>
  <2>1. /\ \E i \in DOMAIN history : Range(c) = CallsOf(i)
        /\ \A k \in 1 .. Len(c) : j + k \in 1 .. l /\ u[j + k].role = "tool"
        /\ {u[j + k].id : k \in 1 .. Len(c)} = Range(c)
    BY <1>4 DEF Answered
  <2> HIDE DEF c, l, n
  <2>2. \A k \in 1 .. Len(c) : /\ j + k \in 1 .. n
                               /\ v[j + k].role = "tool" /\ v[j + k].id = u[j + k].id
    <3> TAKE k \in 1 .. Len(c)
    <3>1. j + k \in 1 .. l /\ u[j + k].role = "tool"
      BY <2>1
    <3>2. j + k \in 1 .. n
      BY <1>1, <3>1
    <3> QED BY <1>2, <3>1, <3>2
  <2>3. {v[j + k].id : k \in 1 .. Len(c)} = {u[j + k].id : k \in 1 .. Len(c)}
    BY <2>2
  <2>4. {v[j + k].id : k \in 1 .. Len(c)} = Range(c)
    BY <2>1, <2>3
  <2> QED BY <1>1, <2>1, <2>2, <2>4 DEF Answered, n
<1> QED BY <1>3, <1>4

LEMMA DoneMore ==
  ASSUME NEW u \in Seq(ChatMessages), NEW m \in ChatMessages, m.calls = <<>>, Done(u)
  PROVE  Done(Append(u, m))
<1> DEFINE v == Append(u, m)
           l == Len(u)
<1>1. /\ l \in Nat /\ Len(v) = l + 1 /\ v \in Seq(ChatMessages) /\ v[l + 1] = m
      /\ \A j \in 1 .. l : v[j] = u[j]
  OBVIOUS
<1>2. \A j \in 1 .. l : Answered(u, j)
  BY DEF Done
<1>a. \A j \in 1 .. Len(u) : v[j].role = u[j].role /\ v[j].id = u[j].id
  BY <1>1
<1>b. Len(u) <= Len(v)
  <2> HIDE DEF v
  <2> QED BY <1>1
<1> HIDE DEF v
<1>3. ASSUME NEW j \in 1 .. l + 1 PROVE Answered(v, j)
  <2>1. CASE j = l + 1
    <3>1. v[j].calls = <<>>
      BY <1>1, <2>1
    <3> QED BY <3>1 DEF Answered
  <2>2. CASE j # l + 1
    <3>1. j \in 1 .. Len(u) /\ v[j].calls = u[j].calls
      BY <1>1, <2>2
    <3>2. Answered(u, j)
      BY <1>2, <3>1
    <3> QED BY <1>1, <1>a, <1>b, <3>1, <3>2, AnsweredKept
  <2> QED BY <2>1, <2>2
<1>4. Done(v)
  BY <1>1, <1>3 DEF Done
<1> QED BY <1>4 DEF v

(* Nothing but messages and results. *)
Plain == {x \in Input : x.type \in {"message", "function_call_output"}}

LEMMA SpokenMessage ==
  ASSUME NEW x \in Items, x.type = "message", x.role \in {"user", "assistant", "system"}
  PROVE  /\ ChatMessage(x, x.role, x.parts, <<>>) \in ChatMessages
         /\ ChatMessage(x, x.role, x.parts, <<>>).calls = <<>>
<1> DEFINE ro == x.role
           m == ChatMessage(x, ro, x.parts, <<>>)
<1>1. x.parts \in Seq(Parts)
  BY DEF Items
<1>a. <<>> \in Seq(Ids)
  OBVIOUS
<1>2. ro \in {"user", "assistant", "system"}
  OBVIOUS
<1>3. m \in ChatMessages
  <2> HIDE DEF ro
  <2> QED BY <1>1, <1>2, <1>a, ChatMessageType, ZenonT(60)
<1>4. m = [turn |-> x.turn, role |-> ro, id |-> x.id, parts |-> x.parts, calls |-> <<>>,
           reasoning |-> ""]
  BY DEF ChatMessage
<1> HIDE DEF m, ro
<1>5. m.calls = <<>>
  BY <1>4
<1> QED BY <1>3, <1>5 DEF m, ro

LEMMA ToolMessage ==
  ASSUME NEW x \in Items, x.id \in Ids
  PROVE  /\ ChatMessage(x, "tool", JsonValueToString(x.parts), <<>>) \in ChatMessages
         /\ ChatMessage(x, "tool", JsonValueToString(x.parts), <<>>).calls = <<>>
         /\ ChatMessage(x, "tool", JsonValueToString(x.parts), <<>>).role = "tool"
         /\ ChatMessage(x, "tool", JsonValueToString(x.parts), <<>>).id = x.id
<1> DEFINE p == JsonValueToString(x.parts)
           m == ChatMessage(x, "tool", p, <<>>)
<1>1. x.parts \in Seq(Parts)
  BY DEF Items
<1>a. <<>> \in Seq(Ids)
  OBVIOUS
<1>2. p \in Seq(Parts)
  BY <1>1, JsonType
<1>3. m \in ChatMessages
  <2> HIDE DEF p
  <2> QED BY <1>1, <1>2, <1>a, ChatMessageType
<1>4. m = [turn |-> x.turn, role |-> "tool", id |-> x.id, parts |-> p, calls |-> <<>>,
           reasoning |-> ""]
  BY DEF ChatMessage
<1> HIDE DEF m, p
<1>5. m.calls = <<>> /\ m.role = "tool" /\ m.id = x.id
  BY <1>4
<1> QED BY <1>3, <1>5 DEF m, p

LEMMA CallMessage ==
  ASSUME NEW x \in Items, x.id \in Ids
  PROVE  /\ ChatMessage(x, "assistant", <<>>, <<x.id>>) \in ChatMessages
         /\ ChatMessage(x, "assistant", <<>>, <<x.id>>).calls = <<x.id>>
         /\ ChatMessage(x, "assistant", <<>>, <<x.id>>).role = "assistant"
<1> DEFINE m == ChatMessage(x, "assistant", <<>>, <<x.id>>)
<1>1. <<>> \in Seq(Parts) /\ <<x.id>> \in Seq(Ids)
  OBVIOUS
<1>2. m \in ChatMessages
  BY <1>1, ChatMessageType
<1>3. m = [turn |-> x.turn, role |-> "assistant", id |-> x.id, parts |-> <<>>,
           calls |-> <<x.id>>, reasoning |-> ""]
  BY DEF ChatMessage
<1> HIDE DEF m
<1>4. m.calls = <<x.id>> /\ m.role = "assistant"
  BY <1>3
<1> QED BY <1>2, <1>4 DEF m

LEMMA PlainAdded ==
  ASSUME NEW d \in Converted, NEW x \in Plain, Done(d.out)
  PROVE  Done(AddItem(d, x).out)
<1>1. /\ x \in Input /\ x \in Items /\ x.parts \in Seq(Parts)
      /\ x.type \in {"message", "function_call_output"}
      /\ x.type = "function_call_output" => x.id \in Ids
      /\ x.type = "message" => x.role \in {"user", "assistant", "system"}
  BY DEF Plain, Input, Items
<1>2. d.out \in Seq(ChatMessages)
  BY DEF Converted
<1>3. CASE ~d.ok
  BY <1>1, <1>3, ItemAdded
<1>4. CASE d.ok /\ x.type = "message" /\ PartsConvert(x)
  <2> DEFINE m == ChatMessage(x, x.role, x.parts, <<>>)
  <2>1. AddItem(d, x).out = Append(d.out, m)
    BY <1>1, <1>4, ItemAdded
  <2>2. m \in ChatMessages /\ m.calls = <<>>
    BY <1>1, <1>4, SpokenMessage
  <2> HIDE DEF m
  <2> QED BY <1>2, <2>1, <2>2, DoneMore
<1>5. CASE d.ok /\ x.type = "message" /\ ~PartsConvert(x)
  BY <1>1, <1>5, ItemAdded DEF Refused
<1>6. CASE d.ok /\ x.type = "function_call_output"
  <2> DEFINE m == ChatMessage(x, "tool", JsonValueToString(x.parts), <<>>)
  <2>1. AddItem(d, x).out = Append(d.out, m)
    BY <1>1, <1>6, ItemAdded
  <2>2. m \in ChatMessages /\ m.calls = <<>>
    BY <1>1, <1>6, ToolMessage
  <2> HIDE DEF m
  <2> QED BY <1>2, <2>1, <2>2, DoneMore
<1> QED BY <1>1, <1>3, <1>4, <1>5, <1>6

LEMMA PlainStaysDone ==
  ASSUME NEW a \in Converted, Done(a.out), NEW s \in Seq(Plain), NEW b, Converts(a, s, b)
  PROVE  b \in Converted /\ Done(b.out)
<1> DEFINE Good(v) == \A c \in Converted : Converts(a, v, c) => Done(c.out)
           M == {v \in Seq(Plain) : Good(v)}
<1>a. Plain \subseteq Input
  BY DEF Plain
<1>b. \A v \in Seq(Plain) : v \in Seq(Input)
  BY <1>a, SeqMonotonic
<1>1. Good(<<>>)
  BY NoItems
<1>2. ASSUME NEW v \in Seq(Plain), Good(v), NEW x \in Plain PROVE Good(Append(v, x))
  <2> SUFFICES ASSUME NEW c \in Converted, Converts(a, Append(v, x), c) PROVE Done(c.out)
    OBVIOUS
  <2>0. v \in Seq(Input) /\ x \in Input
    BY <1>a, <1>b
  <2>1. PICK d \in Converted : Converts(a, v, d) /\ c = AddItem(d, x)
    BY <2>0, OneItemLess
  <2>2. Done(d.out)
    BY <1>2, <2>1
  <2> QED BY <2>1, <2>2, PlainAdded
<1>3. b \in Converted
  BY <1>b, ConvertsTyped
<1> HIDE DEF Good
<1>4. M = Seq(Plain)
  <2>1. M \in SUBSET Seq(Plain) /\ <<>> \in M
    BY <1>1
  <2>2. \A v \in M, x \in Plain : Append(v, x) \in M
    BY <1>2
  <2> HIDE DEF M
  <2> QED BY <2>1, <2>2, SeqInduction
<1>5. Good(s)
  BY <1>4
<1> QED BY <1>3, <1>5 DEF Good

(* No more positions than ids: they are all taken. *)
LEMMA Pigeonhole ==
  ASSUME NEW P, IsFiniteSet(P), NEW S \in SUBSET P, NEW T, NEW f \in Surjection(S, T),
         Cardinality(T) = Cardinality(P)
  PROVE  S = P
<1>1. IsFiniteSet(S) /\ Cardinality(S) <= Cardinality(P)
  BY FS_Subset
<1>2. Cardinality(T) <= Cardinality(S) /\ IsFiniteSet(T)
  BY <1>1, FS_Surjection
<1>3. Cardinality(S) \in Nat /\ Cardinality(P) \in Nat
  BY <1>1, FS_CardinalityType
<1>4. Cardinality(P) = Cardinality(S)
  BY <1>1, <1>2, <1>3
<1> QED BY <1>4, FS_Subset


Calls == {x \in Input : x.type = "function_call"}
Results == {x \in Input : x.type = "function_call_output"}

(* The calls v were added, to the last message if it is the assistant's,   *)
(* and every other message is answered.                                    *)
Ready(out, v) ==
  IF JoinsLast(out)
  THEN /\ Len(out[Len(out)].calls) = Len(v)
       /\ \A k \in 1 .. Len(v) : out[Len(out)].calls[k] = v[k].id
       /\ \A j \in 1 .. Len(out) : j # Len(out) => Answered(out, j)
  ELSE v = <<>> /\ Done(out)

LEMMA LastHasNoCalls ==
  ASSUME NEW out \in Seq(ChatMessages), Done(out), out # <<>>
  PROVE  out[Len(out)].calls = <<>>
<1> DEFINE n == Len(out)
           c == out[n].calls
<1>1. n \in Nat /\ n # 0 /\ n \in 1 .. n
  BY EmptySeq
<1>2. out[n] \in ChatMessages
  BY <1>1
<1>3. c \in Seq(Ids)
  BY <1>2, MessageShape
<1>4. Answered(out, n)
  BY <1>1 DEF Done
<1>5. ASSUME c # <<>> PROVE FALSE
  <2>1. \A k \in 1 .. Len(c) : n + k \in 1 .. n
    BY <1>4, <1>5 DEF Answered
  <2>2. 1 \in 1 .. Len(c)
    BY <1>3, <1>5, EmptySeq
  <2>3. n + 1 \in 1 .. n
    BY <2>1, <2>2
  <2> QED BY <1>1, <2>3
<1> QED BY <1>5

LEMMA DoneIsReady ==
  ASSUME NEW out \in Seq(ChatMessages), Done(out)
  PROVE  Ready(out, <<>>)
<1> DEFINE n == Len(out)
           u == <<>>
<1>1. CASE JoinsLast(out)
  <2>1. out # <<>>
    BY <1>1 DEF JoinsLast
  <2>2. out[n].calls = <<>>
    BY <2>1, LastHasNoCalls
  <2>3. Len(u) = 0 /\ out[n].calls = u
    BY <2>2
  <2>4. \A j \in 1 .. n : Answered(out, j)
    BY DEF Done
  <2>5. Len(out[n].calls) = Len(u)
    BY <2>2
  <2> HIDE DEF n, u
  <2>6. \A k \in 1 .. Len(u) : out[n].calls[k] = u[k].id
    BY <2>3
  <2>7. Ready(out, u)
    BY <1>1, <2>4, <2>5, <2>6 DEF Ready, n
  <2> QED BY <2>7 DEF u
<1>2. CASE ~JoinsLast(out)
  BY <1>2 DEF Ready
<1> QED BY <1>1, <1>2

LEMMA CallJoinsLast ==
  ASSUME NEW out \in Seq(ChatMessages), JoinsLast(out), NEW id \in Ids
  PROVE  /\ Len(out) # 0 /\ JoinCall(out, id) \in Seq(ChatMessages)
         /\ Len(JoinCall(out, id)) = Len(out) /\ out[Len(out)].role = "assistant"
         /\ \A j \in 1 .. Len(out) : j # Len(out) => JoinCall(out, id)[j] = out[j]
         /\ JoinCall(out, id)[Len(out)].calls = Append(out[Len(out)].calls, id)
         /\ JoinCall(out, id)[Len(out)].role = out[Len(out)].role
         /\ JoinCall(out, id)[Len(out)].id = out[Len(out)].id
BY JoinCallIs

LEMMA CallJoins ==
  ASSUME NEW out \in Seq(ChatMessages), JoinsLast(out), NEW v \in Seq(Calls), Ready(out, v),
         NEW x \in Calls, NEW id \in Ids, id = x.id
  PROVE  Ready(JoinCall(out, id), Append(v, x)) /\ JoinsLast(JoinCall(out, id))
<1> DEFINE n == Len(out)
           r == JoinCall(out, id)
           t == Append(v, x)
           q == Len(v)
<1>q. n \in Nat
  OBVIOUS
<1>r. q \in Nat /\ Len(t) = q + 1 /\ t[q + 1] = x /\ \A k \in 1 .. q : t[k] = v[k]
  OBVIOUS
<1>2. /\ Len(out[n].calls) = q
      /\ \A k \in 1 .. q : out[n].calls[k] = v[k].id
      /\ \A j \in 1 .. n : j # n => Answered(out, j)
  BY DEF Ready
<1>3. /\ n # 0 /\ r \in Seq(ChatMessages) /\ Len(r) = n /\ out[n].role = "assistant"
      /\ \A j \in 1 .. n : j # n => r[j] = out[j]
      /\ r[n].calls = Append(out[n].calls, id)
      /\ r[n].role = out[n].role /\ r[n].id = out[n].id
  BY CallJoinsLast
<1> HIDE DEF r, n, t, q
<1>4. n \in 1 .. n /\ Len(r) = n /\ r # <<>>
  BY <1>q, <1>3
<1>5. Last(r) = r[n]
  BY <1>3 DEF Last
<1>6. JoinsLast(r)
  BY <1>3, <1>4, <1>5 DEF JoinsLast
<1>7. out[n] \in ChatMessages
  BY <1>q, <1>4 DEF n
<1> DEFINE c == out[n].calls
<1>8. c \in Seq(Ids)
  BY <1>7, MessageShape
<1>9. Len(c) = q /\ \A k \in 1 .. q : c[k] = v[k].id
  BY <1>2
<1>10. r[n].calls = Append(c, id)
  BY <1>3
<1> HIDE DEF c
<1> DEFINE e == Append(c, id)
<1>11. Len(e) = q + 1 /\ e[q + 1] = id /\ \A k \in 1 .. q : e[k] = c[k]
  BY <1>8, <1>9
<1> HIDE DEF e
<1>12. \A k \in 1 .. q + 1 : e[k] = t[k].id
  <2> TAKE k \in 1 .. q + 1
  <2>1. CASE k = q + 1
    BY <1>r, <1>11, <2>1
  <2>2. CASE k # q + 1
    <3>1. k \in 1 .. q
      BY <1>r, <2>2
    <3> QED BY <1>r, <1>9, <1>11, <3>1
  <2> QED BY <2>1, <2>2
<1>13. Len(r[n].calls) = Len(t) /\ \A k \in 1 .. Len(t) : r[n].calls[k] = t[k].id
  BY <1>r, <1>10, <1>11, <1>12 DEF e
<1>14. ASSUME NEW j \in 1 .. n, j # n PROVE Answered(r, j)
  <2>1. Answered(out, j)
    BY <1>2, <1>14
  <2>2. \A m \in 1 .. Len(out) : r[m].role = out[m].role /\ r[m].id = out[m].id
    BY <1>3 DEF n
  <2>3. r[j].calls = out[j].calls
    BY <1>3, <1>14
  <2>4. Len(out) <= Len(r) /\ j \in 1 .. Len(out)
    BY <1>q, <1>3 DEF n
  <2> QED BY <1>q, <1>3, <2>1, <2>2, <2>3, <2>4, AnsweredKept
<1>15. Ready(r, t)
  BY <1>3, <1>6, <1>13, <1>14 DEF Ready
<1> QED BY <1>6, <1>15 DEF r, t

LEMMA CallStarts ==
  ASSUME NEW out \in Seq(ChatMessages), ~JoinsLast(out), NEW v \in Seq(Calls), Ready(out, v),
         NEW x \in Calls, NEW id \in Ids, id = x.id,
         NEW m \in ChatMessages, m.calls = <<id>>, m.role = "assistant"
  PROVE  Ready(Append(out, m), Append(v, x)) /\ JoinsLast(Append(out, m))
<1> DEFINE n == Len(out)
           r == Append(out, m)
           t == Append(v, x)
           q == Len(v)
<1>q. n \in Nat
  OBVIOUS
<1>r. q \in Nat /\ Len(t) = q + 1 /\ t[q + 1] = x /\ \A k \in 1 .. q : t[k] = v[k]
  OBVIOUS
<1>2. v = <<>> /\ Done(out)
  BY DEF Ready
<1>a. Len(<<id>>) = 1 /\ <<id>>[1] = id
  OBVIOUS
<1>b. q = 0
  BY <1>2
<1>4. /\ r \in Seq(ChatMessages) /\ Len(r) = n + 1 /\ r[n + 1] = m
      /\ \A j \in 1 .. n : r[j] = out[j]
  OBVIOUS
<1> HIDE DEF r, n, t, q
<1>5. r # <<>>
  BY <1>q, <1>4
<1>6. Last(r) = m
  BY <1>4 DEF Last
<1>7. JoinsLast(r)
  BY <1>5, <1>6 DEF JoinsLast
<1>8. Len(r[n + 1].calls) = Len(t) /\ \A k \in 1 .. Len(t) : r[n + 1].calls[k] = t[k].id
  <2>1. Len(t) = 1 /\ t[1] = x /\ r[n + 1].calls = <<id>>
    BY <1>r, <1>4, <1>b
  <2>2. \A k \in 1 .. 1 : <<id>>[k] = t[k].id
    BY <1>a, <2>1
  <2> QED BY <1>a, <2>1, <2>2
<1>9. ASSUME NEW j \in 1 .. n + 1, j # n + 1 PROVE Answered(r, j)
  <2>1. j \in 1 .. n
    BY <1>q, <1>9
  <2>2. Answered(out, j)
    BY <1>2, <2>1 DEF Done, n
  <2>3. \A k \in 1 .. Len(out) : r[k].role = out[k].role /\ r[k].id = out[k].id
    BY <1>4 DEF n
  <2>4. r[j].calls = out[j].calls
    BY <1>4, <2>1
  <2>5. Len(out) <= Len(r) /\ j \in 1 .. Len(out)
    BY <1>q, <1>4, <2>1 DEF n
  <2> QED BY <1>q, <1>4, <2>2, <2>3, <2>4, <2>5, AnsweredKept
<1>10. Ready(r, t)
  BY <1>4, <1>7, <1>8, <1>9 DEF Ready
<1> QED BY <1>7, <1>10 DEF r, t

LEMMA CallAdded ==
  ASSUME NEW d \in Converted, d.ok, NEW v \in Seq(Calls), Ready(d.out, v), NEW x \in Calls
  PROVE  /\ AddItem(d, x).ok /\ Ready(AddItem(d, x).out, Append(v, x))
         /\ JoinsLast(AddItem(d, x).out)
<1>1. x \in Input /\ x \in Items /\ x.type = "function_call" /\ x.id \in Ids
  BY DEF Calls, Input
<1>2. d.out \in Seq(ChatMessages)
  BY DEF Converted
<1>3. CASE JoinsLast(d.out)
  <2>1. AddItem(d, x).ok /\ AddItem(d, x).out = JoinCall(d.out, x.id)
    BY <1>1, <1>3, ItemAdded
  <2> QED BY <1>1, <1>2, <1>3, <2>1, CallJoins
<1>4. CASE ~JoinsLast(d.out)
  <2> DEFINE m == ChatMessage(x, "assistant", <<>>, <<x.id>>)
  <2>1. AddItem(d, x).ok /\ AddItem(d, x).out = Append(d.out, m)
    BY <1>1, <1>4, ItemAdded
  <2>2. m \in ChatMessages /\ m.calls = <<x.id>> /\ m.role = "assistant"
    BY <1>1, CallMessage
  <2> HIDE DEF m
  <2>3. Ready(Append(d.out, m), Append(v, x)) /\ JoinsLast(Append(d.out, m))
    BY <1>1, <1>2, <1>4, <2>2, CallStarts
  <2> QED BY <2>1, <2>3
<1> QED BY <1>3, <1>4

LEMMA CallsAdded ==
  ASSUME NEW a \in Converted, a.ok, Done(a.out), NEW s \in Seq(Calls), NEW b, Converts(a, s, b)
  PROVE  b \in Converted /\ b.ok /\ Ready(b.out, s) /\ (s # <<>> => JoinsLast(b.out))
<1> DEFINE Good(v) == \A c \in Converted : Converts(a, v, c) =>
                        c.ok /\ Ready(c.out, v) /\ (v # <<>> => JoinsLast(c.out))
           M == {v \in Seq(Calls) : Good(v)}
<1>a. Calls \subseteq Input
  BY DEF Calls
<1>b. \A v \in Seq(Calls) : v \in Seq(Input)
  BY <1>a, SeqMonotonic
<1>c. a.out \in Seq(ChatMessages)
  BY DEF Converted
<1>1. Good(<<>>)
  BY <1>c, NoItems, DoneIsReady
<1>2. ASSUME NEW v \in Seq(Calls), Good(v), NEW x \in Calls PROVE Good(Append(v, x))
  <2> SUFFICES ASSUME NEW c \in Converted, Converts(a, Append(v, x), c)
               PROVE  c.ok /\ Ready(c.out, Append(v, x)) /\ JoinsLast(c.out)
    OBVIOUS
  <2>0. v \in Seq(Input) /\ x \in Input
    BY <1>a, <1>b
  <2>1. PICK d \in Converted : Converts(a, v, d) /\ c = AddItem(d, x)
    BY <2>0, OneItemLess
  <2>2. d.ok /\ Ready(d.out, v)
    BY <1>2, <2>1
  <2> HIDE DEF Good, M
  <2> QED BY <2>1, <2>2, CallAdded
<1>3. b \in Converted
  BY <1>b, ConvertsTyped
<1> HIDE DEF Good
<1>4. M = Seq(Calls)
  <2>1. M \in SUBSET Seq(Calls) /\ <<>> \in M
    BY <1>1
  <2>2. \A v \in M, x \in Calls : Append(v, x) \in M
    BY <1>2
  <2> HIDE DEF M
  <2> QED BY <2>1, <2>2, SeqInduction
<1>5. Good(s)
  BY <1>4
<1> QED BY <1>3, <1>5 DEF Good


(* The messages w are the messages u and, after them, the results v. *)
Replied(u, w, v) ==
  /\ Len(w) = Len(u) + Len(v)
  /\ \A j \in 1 .. Len(u) : w[j] = u[j]
  /\ \A k \in 1 .. Len(v) : /\ w[Len(u) + k].role = "tool" /\ w[Len(u) + k].id = v[k].id
                            /\ w[Len(u) + k].calls = <<>>

LEMMA ReplyMore ==
  ASSUME NEW u \in Seq(ChatMessages), NEW w \in Seq(ChatMessages), NEW v \in Seq(Results),
         Replied(u, w, v), NEW x \in Results, NEW m \in ChatMessages,
         m.role = "tool", m.id = x.id, m.calls = <<>>
  PROVE  Replied(u, Append(w, m), Append(v, x))
<1> DEFINE l == Len(u)
           q == Len(v)
           n == Len(w)
           z == Append(w, m)
           t == Append(v, x)
<1>1. l \in Nat /\ q \in Nat /\ n \in Nat
  OBVIOUS
<1>2. Len(z) = n + 1 /\ z[n + 1] = m /\ \A j \in 1 .. n : z[j] = w[j]
  OBVIOUS
<1>3. Len(t) = q + 1 /\ t[q + 1] = x /\ \A k \in 1 .. q : t[k] = v[k]
  OBVIOUS
<1>4. /\ n = l + q /\ \A j \in 1 .. l : w[j] = u[j]
      /\ \A k \in 1 .. q : /\ w[l + k].role = "tool" /\ w[l + k].id = v[k].id
                           /\ w[l + k].calls = <<>>
  BY DEF Replied
<1> HIDE DEF l, q, n, z, t
<1>5. Len(z) = l + Len(t)
  BY <1>1, <1>2, <1>3, <1>4
<1>6. \A j \in 1 .. l : z[j] = u[j]
  <2> TAKE j \in 1 .. l
  <2>1. j \in 1 .. n
    BY <1>1, <1>4
  <2> QED BY <1>2, <1>4, <2>1
<1>7. ASSUME NEW k \in 1 .. q + 1
      PROVE  z[l + k].role = "tool" /\ z[l + k].id = t[k].id /\ z[l + k].calls = <<>>
  <2>1. CASE k = q + 1
    <3>1. l + k = n + 1
      BY <1>1, <1>4, <2>1
    <3>2. z[l + k] = m /\ t[k] = x
      BY <1>2, <1>3, <2>1, <3>1
    <3> QED BY <3>2
  <2>2. CASE k # q + 1
    <3>1. k \in 1 .. q /\ l + k \in 1 .. n
      BY <1>1, <1>4, <2>2
    <3>2. z[l + k] = w[l + k] /\ t[k] = v[k]
      BY <1>2, <1>3, <3>1
    <3> QED BY <1>4, <3>1, <3>2
  <2> QED BY <2>1, <2>2
<1>8. Replied(u, z, t)
  BY <1>3, <1>5, <1>6, <1>7 DEF Replied, l
<1> QED BY <1>8 DEF z, t

LEMMA ResultsAdded ==
  ASSUME NEW a \in Converted, a.ok, NEW s \in Seq(Results), NEW b, Converts(a, s, b)
  PROVE  b \in Converted /\ b.ok /\ Replied(a.out, b.out, s)
<1> DEFINE Good(v) == \A c \in Converted : Converts(a, v, c) => c.ok /\ Replied(a.out, c.out, v)
           M == {v \in Seq(Results) : Good(v)}
<1>a. Results \subseteq Input
  BY DEF Results
<1>b. \A v \in Seq(Results) : v \in Seq(Input)
  BY <1>a, SeqMonotonic
<1>c. \A c \in Converted : c.out \in Seq(ChatMessages)
  BY DEF Converted
<1>1. Good(<<>>)
  <2>1. ASSUME NEW u \in Seq(ChatMessages) PROVE Replied(u, u, <<>>)
    BY DEF Replied
  <2>2. Replied(a.out, a.out, <<>>)
    BY <1>c, <2>1
  <2> QED BY <2>2, NoItems
<1>2. ASSUME NEW v \in Seq(Results), Good(v), NEW x \in Results PROVE Good(Append(v, x))
  <2> SUFFICES ASSUME NEW c \in Converted, Converts(a, Append(v, x), c)
               PROVE  c.ok /\ Replied(a.out, c.out, Append(v, x))
    OBVIOUS
  <2>0. v \in Seq(Input) /\ x \in Input
    BY <1>a, <1>b
  <2>1. PICK d \in Converted : Converts(a, v, d) /\ c = AddItem(d, x)
    BY <2>0, OneItemLess
  <2>2. d.ok /\ Replied(a.out, d.out, v)
    BY <1>2, <2>1
  <2>3. x \in Items /\ x.type = "function_call_output" /\ x.id \in Ids
    BY DEF Results, Input
  <2> HIDE DEF Good, M
  <2> DEFINE m == ChatMessage(x, "tool", JsonValueToString(x.parts), <<>>)
  <2>4. c.ok /\ c.out = Append(d.out, m)
    BY <2>0, <2>1, <2>2, <2>3, ItemAdded
  <2>5. m \in ChatMessages /\ m.calls = <<>> /\ m.role = "tool" /\ m.id = x.id
    BY <2>3, ToolMessage
  <2> HIDE DEF m
  <2>6. Replied(a.out, Append(d.out, m), Append(v, x))
    BY <1>c, <2>2, <2>5, ReplyMore
  <2> QED BY <2>4, <2>6
<1>3. b \in Converted
  BY <1>b, ConvertsTyped
<1> HIDE DEF Good
<1>4. M = Seq(Results)
  <2>1. M \in SUBSET Seq(Results) /\ <<>> \in M
    BY <1>1
  <2>2. \A v \in M, x \in Results : Append(v, x) \in M
    BY <1>2
  <2> HIDE DEF M
  <2> QED BY <2>1, <2>2, SeqInduction
<1>5. Good(s)
  BY <1>4
<1> QED BY <1>3, <1>5 DEF Good

(* After turn i its calls wait for their results. *)
Pending(i, out) ==
  /\ JoinsLast(out)
  /\ Range(out[Len(out)].calls) = CallsOf(i)
  /\ Len(out[Len(out)].calls) = Cardinality(CallsOf(i))
  /\ \A j \in 1 .. Len(out) : j # Len(out) => Answered(out, j)

LEMMA AllAnswered ==
  ASSUME NEW i \in DOMAIN history, NEW u \in Seq(ChatMessages), NEW w \in Seq(ChatMessages),
         Pending(i, u), NEW s \in Seq(Results), Replied(u, w, s),
         Len(s) = Cardinality(CallsOf(i)), {s[k].id : k \in 1 .. Len(s)} = CallsOf(i)
  PROVE  Done(w)
<1> DEFINE l == Len(u)
           q == Len(s)
           n == Len(w)
           c == u[l].calls
<1>1. l \in Nat /\ q \in Nat /\ n \in Nat /\ l # 0
  BY EmptySeq DEF Pending, JoinsLast
<1>2. /\ Range(c) = CallsOf(i) /\ Len(c) = q
      /\ \A j \in 1 .. l : j # l => Answered(u, j)
  BY DEF Pending
<1>3. n = l + q
  BY DEF Replied
<1>4. \A j \in 1 .. l : w[j] = u[j]
  BY DEF Replied
<1>5. \A k \in 1 .. q : w[l + k].role = "tool" /\ w[l + k].id = s[k].id /\ w[l + k].calls = <<>>
  BY DEF Replied
<1>6. {s[k].id : k \in 1 .. q} = CallsOf(i)
  OBVIOUS
<1> HIDE DEF l, q, n, c
<1>7. ASSUME NEW j \in 1 .. n PROVE Answered(w, j)
  <2>1. CASE j < l
    <3>1. j \in 1 .. Len(u) /\ j # l
      BY <1>1, <2>1 DEF l
    <3>2. Answered(u, j)
      BY <1>2, <3>1 DEF l
    <3>3. \A m \in 1 .. Len(u) : w[m].role = u[m].role /\ w[m].id = u[m].id
      BY <1>4 DEF l
    <3>4. w[j].calls = u[j].calls
      BY <1>4, <3>1 DEF l
    <3>5. Len(u) <= Len(w)
      <4>1. l <= n
        BY <1>1, <1>3
      <4> QED BY <4>1 DEF l, n
    <3> QED BY <3>1, <3>2, <3>3, <3>4, <3>5, AnsweredKept
  <2>2. CASE j = l
    <3>1. w[j].calls = c
      <4>1. l \in 1 .. l
        BY <1>1
      <4> QED BY <1>4, <2>2, <4>1 DEF c
    <3>2. \E h \in DOMAIN history : Range(c) = CallsOf(h)
      BY <1>2
    <3>3. \A k \in 1 .. Len(c) : j + k \in 1 .. n /\ w[j + k].role = "tool"
      <4> TAKE k \in 1 .. Len(c)
      <4>1. k \in 1 .. q
        BY <1>2
      <4>2. j + k \in 1 .. n
        BY <1>1, <1>3, <2>2, <4>1
      <4> QED BY <1>5, <2>2, <4>1, <4>2
    <3>4. {w[j + k].id : k \in 1 .. Len(c)} = {s[k].id : k \in 1 .. q}
      <4>1. \A k \in 1 .. q : w[l + k].id = s[k].id
        BY <1>5
      <4>2. {w[l + k].id : k \in 1 .. q} = {s[k].id : k \in 1 .. q}
        BY <4>1, Zenon
      <4> QED BY <1>2, <2>2, <4>2, Zenon
    <3>5. {w[j + k].id : k \in 1 .. Len(c)} = Range(c)
      BY <1>2, <1>6, <3>4
    <3> QED BY <3>1, <3>2, <3>3, <3>5 DEF Answered, n
  <2>3. CASE l < j
    <3>1. j - l \in 1 .. q /\ l + (j - l) = j
      BY <1>1, <1>3, <2>3
    <3>2. w[j].calls = <<>>
      BY <1>5, <3>1
    <3> QED BY <3>2 DEF Answered
  <2> QED BY <1>1, <2>1, <2>2, <2>3
<1> QED BY <1>7 DEF Done, n

(* The marker changes nothing of that. *)
LEMMA MarkerKeeps ==
  ASSUME NEW u \in Seq(ChatMessages), LastAssistant(u) # 0, NEW t \in Thoughts,
         NEW w, w = SetReasoning(u, t)
  PROVE  /\ Done(u) => Done(w)
         /\ \A i : Pending(i, u) => Pending(i, w)
<1> DEFINE p == LastAssistant(u)
<1>1. /\ w \in Seq(ChatMessages) /\ Len(w) = Len(u)
      /\ \A j \in 1 .. Len(u) : j # p => w[j] = u[j]
      /\ w[p].role = u[p].role /\ w[p].id = u[p].id /\ w[p].calls = u[p].calls
  BY SetReasoningIs
<1> HIDE DEF p
<1>2. \A j \in 1 .. Len(u) : w[j].role = u[j].role /\ w[j].id = u[j].id /\ w[j].calls = u[j].calls
  BY <1>1
<1>3. Len(u) <= Len(w)
  BY <1>1
<1>4. \A j \in 1 .. Len(u) : Answered(u, j) => Answered(w, j)
  BY <1>1, <1>2, <1>3, AnsweredKept
<1>5. Done(u) => Done(w)
  BY <1>1, <1>4 DEF Done
<1>6. ASSUME NEW i, Pending(i, u) PROVE Pending(i, w)
  <2> DEFINE n == Len(u)
  <2>1. /\ u # <<>> /\ Last(u).role = "assistant"
        /\ Range(u[n].calls) = CallsOf(i) /\ Len(u[n].calls) = Cardinality(CallsOf(i))
        /\ \A j \in 1 .. n : j # n => Answered(u, j)
    BY <1>6 DEF Pending, JoinsLast
  <2>2. n \in 1 .. n /\ Len(w) = n
    BY <1>1, <2>1, EmptySeq
  <2>3. w[n].calls = u[n].calls /\ w[n].role = u[n].role
    BY <1>2, <2>2
  <2>4. Last(u) = u[n] /\ Last(w) = w[n]
    BY <1>1 DEF Last
  <2>5. w # <<>>
    BY <1>1, <2>1, EmptySeq
  <2>6. JoinsLast(w)
    BY <2>1, <2>3, <2>4, <2>5 DEF JoinsLast
  <2>7. \A j \in 1 .. n : j # n => Answered(w, j)
    BY <1>4, <2>1
  <2> HIDE DEF n
  <2> QED BY <2>1, <2>2, <2>3, <2>6, <2>7 DEF Pending
<1> QED BY <1>5, <1>6


LEMMA SeqAppends ==
  ASSUME NEW u \in Seq(Input), NEW s \in Seq(Input), NEW x \in Input
  PROVE  Append(u \o s, x) = u \o Append(s, x)
BY Appended

(* What one block after the other appends: s, with the ids from p on. *)
Run(g, id, p, m, s) ==
  /\ g[p + m] = g[p] \o s /\ Len(s) = m
  /\ \A k \in 1 .. m : s[k].id = id[p + k]

LEMMA RunAppends ==
  ASSUME NEW X \in SUBSET Input, NEW N \in Nat, NEW g \in [0 .. N -> Seq(Input)], NEW id,
         NEW p \in Nat, NEW n \in Nat, p + n <= N,
         \A k \in p + 1 .. p + n : \E x \in X : x.id = id[k] /\ g[k] = Append(g[k - 1], x)
  PROVE  \E s \in Seq(X) : Run(g, id, p, n, s)
<1> DEFINE T == {m \in Nat : m <= n => \E s \in Seq(X) : Run(g, id, p, m, s)}
<1>1. 0 \in T
  <2> DEFINE s == <<>>
  <2>1. s \in Seq(X) /\ Len(s) = 0
    OBVIOUS
  <2>2. g[p] \in Seq(Input)
    OBVIOUS
  <2>3. g[p] = g[p] \o s /\ p + 0 = p
    BY <2>2, Unit
  <2> HIDE DEF s
  <2>4. Run(g, id, p, 0, s)
    BY <2>1, <2>3 DEF Run
  <2> QED BY <2>1, <2>4
<1>2. ASSUME NEW m \in T PROVE m + 1 \in T
  <2>0. m \in Nat
    OBVIOUS
  <2> SUFFICES ASSUME m + 1 <= n PROVE \E s \in Seq(X) : Run(g, id, p, m + 1, s)
    OBVIOUS
  <2>1. PICK s \in Seq(X) : Run(g, id, p, m, s)
    BY <2>0
  <2> DEFINE k == p + (m + 1)
  <2>2. k \in p + 1 .. p + n /\ k - 1 = p + m
    BY <2>0
  <2>3. PICK x \in X : x.id = id[k] /\ g[k] = Append(g[p + m], x)
    BY <2>2
  <2> DEFINE t == Append(s, x)
             u == g[p]
  <2>4. /\ t \in Seq(X) /\ Len(t) = Len(s) + 1 /\ t[Len(s) + 1] = x
        /\ \A j \in 1 .. Len(s) : t[j] = s[j]
    OBVIOUS
  <2>5. u \in Seq(Input) /\ s \in Seq(Input) /\ x \in Input
    BY SeqMonotonic
  <2>6. g[k] = Append(u \o s, x)
    BY <2>1, <2>3 DEF Run
  <2>7. Len(s) = m /\ \A j \in 1 .. m : s[j].id = id[p + j]
    BY <2>1 DEF Run
  <2> HIDE DEF u, t, k
  <2>8. g[k] = u \o t
    BY <2>5, <2>6, SeqAppends DEF t
  <2>9. \A j \in 1 .. m + 1 : t[j].id = id[p + j]
    <3> TAKE j \in 1 .. m + 1
    <3>1. CASE j = m + 1
      BY <2>3, <2>4, <2>7, <3>1 DEF k
    <3>2. CASE j # m + 1
      <4>1. j \in 1 .. m
        BY <2>0, <3>2
      <4> QED BY <2>4, <2>7, <4>1
    <3> QED BY <3>1, <3>2
  <2>10. Len(t) = m + 1
    BY <2>4, <2>7
  <2>11. Run(g, id, p, m + 1, t)
    BY <2>8, <2>9, <2>10 DEF k, u, Run
  <2> QED BY <2>4, <2>11
<1>3. T = Nat
  <2>1. T \in SUBSET Nat
    OBVIOUS
  <2> HIDE DEF T
  <2> QED BY <1>1, <1>2, <2>1, NumberInduction
<1>4. \E s \in Seq(X) : Run(g, id, p, n, s)
  <2>1. n \in T
    <3> HIDE DEF T
    <3> QED BY <1>3
  <2> QED BY <2>1
<1> QED BY <1>4

(* A call or a result closes what was collected and adds one item. *)
LEMMA ToolBlockAdds ==
  ASSUME TypeInv, NEW i \in DOMAIN history, NEW k \in DOMAIN history[i].content.blocks,
         NEW s \in Collected(i), NEW b, b = BlockAt(i, k), NEW r, r = AddBlock(i, s, b)
  PROVE  /\ b.type = "tool_use" =>
              \E x \in Calls : /\ x.id = b.id /\ r.content = <<>>
                               /\ r.out = Append(FlushMessage(i, s).out, x)
         /\ b.type = "tool_result" =>
              \E x \in Results : /\ x.id = b.id /\ r.content = <<>>
                                 /\ r.out = Append(FlushMessage(i, s).out, x)
<1>1. ASSUME b.type = "tool_use"
      PROVE  \E x \in Calls : /\ x.id = b.id /\ r.content = <<>>
                              /\ r.out = Append(FlushMessage(i, s).out, x)
  <2> DEFINE x == Item(i, "function_call", "", b.id, <<>>)
  <2>1. x \in TurnItems(i)
    BY <1>1, CallFits
  <2>2. x.type = "function_call" /\ x.id = b.id
    BY DEF Item
  <2>3. r.out = Append(FlushMessage(i, s).out, x) /\ r.content = <<>>
    BY <1>1, AddBlockSays, ZenonT(60)
  <2> HIDE DEF x
  <2>4. x \in Calls
    BY <2>1, <2>2, TurnItemsAreInput DEF Calls
  <2> QED BY <2>2, <2>3, <2>4
<1>2. ASSUME b.type = "tool_result"
      PROVE  \E x \in Results : /\ x.id = b.id /\ r.content = <<>>
                                /\ r.out = Append(FlushMessage(i, s).out, x)
  <2> DEFINE x == Item(i, "function_call_output", "", b.id, ToolResultToResponsesOutput(b))
  <2>1. x \in TurnItems(i)
    BY <1>2, OutputFits
  <2>2. x.type = "function_call_output" /\ x.id = b.id
    BY DEF Item
  <2>3. r.out = Append(FlushMessage(i, s).out, x) /\ r.content = <<>>
    BY <1>2, AddBlockSays, ZenonT(60)
  <2> HIDE DEF x
  <2>4. x \in Results
    BY <2>1, <2>2, TurnItemsAreInput DEF Results
  <2> QED BY <2>2, <2>3, <2>4
<1> QED BY <1>1, <1>2

(* The items collected by the blocks of a turn, flushed after each. *)
LEMMA FlushedSteps ==
  ASSUME TypeInv, NEW i \in DOMAIN history
  PROVE  \E f \in [0 .. Len(history[i].content.blocks) -> Collected(i)],
            g \in [0 .. Len(history[i].content.blocks) -> Seq(Input)] :
           /\ f[0] = [out |-> <<>>, content |-> <<>>]
           /\ \A k \in 1 .. Len(history[i].content.blocks) :
                f[k] = AddBlock(i, f[k - 1], BlockAt(i, k))
           /\ \A k \in 0 .. Len(history[i].content.blocks) : g[k] = FlushMessage(i, f[k]).out
           /\ BlocksToInput(i) = g[Len(history[i].content.blocks)]
           /\ \A k \in 1 .. Len(history[i].content.blocks) :
                /\ BlockAt(i, k).type = "tool_use" =>
                     /\ f[k].content = <<>> /\ f[k].out = g[k]
                     /\ \E x \in Calls : x.id = BlockAt(i, k).id /\ g[k] = Append(g[k - 1], x)
                /\ BlockAt(i, k).type = "tool_result" =>
                     /\ f[k].content = <<>> /\ f[k].out = g[k]
                     /\ \E x \in Results : x.id = BlockAt(i, k).id /\ g[k] = Append(g[k - 1], x)
<1> DEFINE bs == history[i].content.blocks
           N == Len(bs)
<1>0. N \in Nat /\ DOMAIN bs = 1 .. N
  <2>1. bs \in Seq(Blocks)
    BY TurnShape
  <2> QED BY <2>1
<1>1. PICK f \in [0 .. N -> Collected(i)] :
        /\ f[0] = [out |-> <<>>, content |-> <<>>]
        /\ \A k \in 1 .. N : f[k] = AddBlock(i, f[k - 1], BlockAt(i, k))
        /\ BlocksToInput(i) = FlushMessage(i, f[N]).out
  BY BlockSteps
<1> DEFINE g == [k \in 0 .. N |-> FlushMessage(i, f[k]).out]
<1>a. \A k \in 1 .. N : k \in DOMAIN bs
  BY <1>0
<1> HIDE DEF N
<1>2. ASSUME NEW k \in 0 .. N PROVE FlushMessage(i, f[k]).out \in Seq(Input)
  <2>1. f[k] \in Collected(i)
    OBVIOUS
  <2>2. FlushMessage(i, f[k]) \in Collected(i)
    BY <2>1, FlushFits
  <2>3. FlushMessage(i, f[k]).out \in Seq(TurnItems(i))
    BY <2>2 DEF Collected
  <2> QED BY <2>3, TurnSeqsAreInput
<1>3. g \in [0 .. N -> Seq(Input)]
  BY <1>2
<1>4. \A k \in 0 .. N : g[k] = FlushMessage(i, f[k]).out
  OBVIOUS
<1> HIDE DEF g
<1>5. ASSUME NEW k \in 1 .. N
      PROVE  /\ BlockAt(i, k).type = "tool_use" =>
                  /\ f[k].content = <<>> /\ f[k].out = g[k]
                  /\ \E x \in Calls : x.id = BlockAt(i, k).id /\ g[k] = Append(g[k - 1], x)
             /\ BlockAt(i, k).type = "tool_result" =>
                  /\ f[k].content = <<>> /\ f[k].out = g[k]
                  /\ \E x \in Results : x.id = BlockAt(i, k).id /\ g[k] = Append(g[k - 1], x)
  <2> DEFINE b == BlockAt(i, k)
             s == f[k - 1]
             r == f[k]
  <2>1. k \in DOMAIN bs /\ k - 1 \in 0 .. N /\ k \in 0 .. N
    BY <1>0, <1>a
  <2>2. s \in Collected(i) /\ r \in Collected(i) /\ r = AddBlock(i, s, b)
    BY <1>1, <2>1
  <2>3. g[k - 1] = FlushMessage(i, s).out /\ g[k] = FlushMessage(i, r).out
    BY <1>4, <2>1
  <2>4. r.content = <<>> => FlushMessage(i, r).out = r.out
    BY <2>2, FlushFits
  <2>b. b = BlockAt(i, k) /\ k \in DOMAIN history[i].content.blocks
    BY <2>1
  <2> HIDE DEF b, s, r
  <2>5. /\ b.type = "tool_use" =>
             \E x \in Calls : /\ x.id = b.id /\ r.content = <<>>
                              /\ r.out = Append(FlushMessage(i, s).out, x)
        /\ b.type = "tool_result" =>
             \E x \in Results : /\ x.id = b.id /\ r.content = <<>>
                                /\ r.out = Append(FlushMessage(i, s).out, x)
    BY <2>2, <2>b, ToolBlockAdds, SMTT(30)
  <2>6. /\ b.type = "tool_use" =>
             /\ r.content = <<>> /\ r.out = g[k]
             /\ \E x \in Calls : x.id = b.id /\ g[k] = Append(g[k - 1], x)
        /\ b.type = "tool_result" =>
             /\ r.content = <<>> /\ r.out = g[k]
             /\ \E x \in Results : x.id = b.id /\ g[k] = Append(g[k - 1], x)
    BY <2>3, <2>4, <2>5
  <2> QED BY <2>6 DEF b, r
<1>6. BlocksToInput(i) = g[N]
  <2>1. N \in 0 .. N
    BY <1>0
  <2> QED BY <1>1, <1>4, <2>1
<1> QED BY <1>1, <1>3, <1>4, <1>5, <1>6 DEF N


(* Calls end their turn: they are the last of its blocks. *)
LEMMA CallPositions ==
  ASSUME TypeInv, CallsAreAnswered, NEW i \in DOMAIN history, CallsOf(i) # {},
         NEW N, N = Len(history[i].content.blocks)
  PROVE  \E n \in Nat, p \in Nat :
           /\ n = Cardinality(CallsOf(i)) /\ n # 0 /\ p + n = N
           /\ \A k \in 1 .. N : (p < k) = (BlockAt(i, k).type = "tool_use")
           /\ IsFiniteSet(CallsOf(i))
<1> DEFINE bs == history[i].content.blocks
           C == CallsOf(i)
           n == Cardinality(C)
           S == {k \in 1 .. N : BlockAt(i, k).type = "tool_use"}
           f == [k \in S |-> BlockAt(i, k).id]
<1>1. N \in Nat /\ DOMAIN bs = 1 .. N
  <2>1. bs \in Seq(Blocks)
    BY TurnShape
  <2> QED BY <2>1
<1>2. C = {BlockAt(i, k).id : k \in S}
  BY <1>1 DEF CallsOf, BlockAt
<1>3. \A k \in 1 .. N : BlockAt(i, k).type = "tool_use" => k > N - n
  BY <1>1 DEF CallsAreAnswered, BlockAt
<1> HIDE DEF C
<1>4. f \in Surjection(S, C)
  BY <1>2 DEF Surjection
<1>5. IsFiniteSet(1 .. N) /\ Cardinality(1 .. N) = N
  <2>1. 1 \in Int /\ N \in Int
    BY <1>1
  <2>2. IsFiniteSet(1 .. N) /\ Cardinality(1 .. N) = IF 1 > N THEN 0 ELSE N - 1 + 1
    BY <2>1, FS_Interval
  <2> QED BY <1>1, <2>2
<1>6. S \in SUBSET (1 .. N)
  OBVIOUS
<1>a. \A k : k \in S <=> k \in 1 .. N /\ BlockAt(i, k).type = "tool_use"
  OBVIOUS
<1> HIDE DEF f, S, n
<1>7. IsFiniteSet(S) /\ Cardinality(S) <= Cardinality(1 .. N)
  BY <1>5, <1>6, FS_Subset
<1>8. IsFiniteSet(C) /\ Cardinality(C) <= Cardinality(S)
  BY <1>4, <1>7, FS_Surjection
<1>9. n \in Nat /\ Cardinality(S) \in Nat
  BY <1>7, <1>8, FS_CardinalityType DEF n
<1>10. n <= N
  BY <1>1, <1>5, <1>7, <1>8, <1>9 DEF n
<1>11. n # 0
  <2>1. C # {}
    BY DEF C
  <2> QED BY <1>8, <2>1, FS_EmptySet DEF n
<1> DEFINE p == N - n
<1>12. p \in Nat /\ p + n = N
  BY <1>1, <1>9, <1>10
<1>13. IsFiniteSet(p + 1 .. N) /\ Cardinality(p + 1 .. N) = n
  <2>1. p + 1 \in Int /\ N \in Int
    BY <1>1, <1>12
  <2>2. IsFiniteSet(p + 1 .. N) /\ Cardinality(p + 1 .. N) = IF p + 1 > N THEN 0 ELSE N - (p + 1) + 1
    BY <2>1, FS_Interval
  <2> QED BY <1>1, <1>9, <1>11, <1>12, <2>2
<1>14. S \in SUBSET (p + 1 .. N)
  BY <1>1, <1>3, <1>9, <1>a
<1> HIDE DEF p
<1>15. S = p + 1 .. N
  BY <1>4, <1>13, <1>14, Pigeonhole DEF n
<1>16. \A k \in 1 .. N : p < k <=> BlockAt(i, k).type = "tool_use"
  BY <1>1, <1>12, <1>15, <1>a
<1> QED BY <1>8, <1>9, <1>11, <1>12, <1>16 DEF C, n

(* Their results start the next one. *)
LEMMA ResultPositions ==
  ASSUME TypeInv, NEW i \in DOMAIN history, NEW C, IsFiniteSet(C), NEW n \in Nat,
         n = Cardinality(C), n <= Len(history[i].content.blocks),
         ResultIds(SubSeq(history[i].content.blocks, 1, n)) = C
  PROVE  /\ \A k \in 1 .. n : BlockAt(i, k).type = "tool_result"
         /\ C = {BlockAt(i, k).id : k \in 1 .. n}
<1> DEFINE bs == history[i].content.blocks
           N == Len(bs)
           sub == SubSeq(bs, 1, n)
           S == {k \in 1 .. n : BlockAt(i, k).type = "tool_result"}
           f == [k \in S |-> BlockAt(i, k).id]
<1>0. bs \in Seq(Blocks)
  BY TurnShape
<1>1. DOMAIN sub = 1 .. n /\ \A k \in 1 .. n : sub[k] = bs[k]
  <2> HIDE DEF bs
  <2> QED BY <1>0 DEF bs
<1>2. C = {sub[k].id : k \in {k \in DOMAIN sub : sub[k].type = "tool_result"}}
  BY DEF ResultIds
<1>3. \A k \in 1 .. n : sub[k] = BlockAt(i, k)
  BY <1>1 DEF BlockAt
<1> HIDE DEF sub, bs
<1>4. C = {BlockAt(i, k).id : k \in S}
  <2>1. {k \in DOMAIN sub : sub[k].type = "tool_result"} = S
    BY <1>1, <1>3
  <2>2. \A k \in S : sub[k].id = BlockAt(i, k).id
    BY <1>3
  <2>3. C = {sub[k].id : k \in S}
    BY <1>2, <2>1
  <2> HIDE DEF S
  <2> QED BY <2>2, <2>3
<1>5. f \in Surjection(S, C)
  BY <1>4 DEF Surjection
<1>6. IsFiniteSet(1 .. n) /\ Cardinality(1 .. n) = n
  <2>1. 1 \in Int /\ n \in Int
    OBVIOUS
  <2>2. IsFiniteSet(1 .. n) /\ Cardinality(1 .. n) = IF 1 > n THEN 0 ELSE n - 1 + 1
    BY <2>1, FS_Interval
  <2> QED BY <2>2
<1>7. S \in SUBSET (1 .. n)
  OBVIOUS
<1>8. \A k : k \in S <=> k \in 1 .. n /\ BlockAt(i, k).type = "tool_result"
  OBVIOUS
<1> HIDE DEF S, f
<1>9. S = 1 .. n
  BY <1>5, <1>6, <1>7, Pigeonhole
<1> QED BY <1>4, <1>8, <1>9

LEMMA CallsEndTurn ==
  ASSUME TypeInv, Accepted, CallsAreAnswered, NEW i \in DOMAIN history, CallsOf(i) # {}
  PROVE  \E pre \in Seq(Plain), s \in Seq(Calls) :
           /\ BlocksToInput(i) = pre \o s
           /\ Len(s) = Cardinality(CallsOf(i)) /\ s # <<>>
           /\ {s[k].id : k \in 1 .. Len(s)} = CallsOf(i)
<1> DEFINE bs == history[i].content.blocks
           N == Len(bs)
           id == [k \in 1 .. N |-> BlockAt(i, k).id]
<1>0. N = Len(history[i].content.blocks)
  OBVIOUS
<1>c. \E n \in Nat, p \in Nat :
        /\ n = Cardinality(CallsOf(i)) /\ n # 0 /\ p + n = N
        /\ \A k \in 1 .. N : (p < k) = (BlockAt(i, k).type = "tool_use")
        /\ IsFiniteSet(CallsOf(i))
  <2> HIDE DEF N, bs, id
  <2> QED BY <1>0, CallPositions
<1>1. PICK n \in Nat, p \in Nat :
        /\ n = Cardinality(CallsOf(i)) /\ n # 0 /\ p + n = N
        /\ \A k \in 1 .. N : (p < k) = (BlockAt(i, k).type = "tool_use")
  BY <1>c
<1>2. N \in Nat /\ DOMAIN bs = 1 .. N
  <2>1. bs \in Seq(Blocks)
    BY TurnShape
  <2> QED BY <2>1
<1>3. CallsOf(i) = {id[k] : k \in {k \in 1 .. N : BlockAt(i, k).type = "tool_use"}}
  BY <1>2 DEF CallsOf, BlockAt
<1>a. \A k \in 1 .. N : id[k] = BlockAt(i, k).id
  OBVIOUS
<1>4. PICK f \in [0 .. N -> Collected(i)], g \in [0 .. N -> Seq(Input)] :
        /\ f[0] = [out |-> <<>>, content |-> <<>>]
        /\ \A k \in 1 .. N : f[k] = AddBlock(i, f[k - 1], BlockAt(i, k))
        /\ \A k \in 0 .. N : g[k] = FlushMessage(i, f[k]).out
        /\ BlocksToInput(i) = g[N]
        /\ \A k \in 1 .. N : BlockAt(i, k).type = "tool_use" =>
             \E x \in Calls : x.id = BlockAt(i, k).id /\ g[k] = Append(g[k - 1], x)
  BY FlushedSteps
<1>b. \A k \in 1 .. N : k \in DOMAIN bs
  BY <1>2
<1> HIDE DEF N, id
<1>5. \A k \in p + 1 .. p + n : \E x \in Calls : x.id = id[k] /\ g[k] = Append(g[k - 1], x)
  <2> TAKE k \in p + 1 .. p + n
  <2>1. k \in 1 .. N /\ p < k
    BY <1>1
  <2>2. BlockAt(i, k).type = "tool_use"
    BY <1>1, <2>1
  <2> QED BY <1>4, <1>a, <2>1, <2>2
<1>6. Calls \in SUBSET Input
  BY DEF Calls
<1>d. p + n <= N /\ N \in Nat
  BY <1>1, <1>2
<1>7. PICK s \in Seq(Calls) : Run(g, id, p, n, s)
  BY <1>5, <1>6, <1>d, RunAppends
<1>8. /\ g[N] = g[p] \o s /\ Len(s) = n
      /\ \A k \in 1 .. n : s[k].id = id[p + k]
  BY <1>1, <1>7 DEF Run
(* What comes before the calls is plain. *)
<1> DEFINE Plainly(k) == f[k].out \in Seq(Plain)
           T == {k \in Nat : k <= p => Plainly(k)}
<1>9. Plainly(0)
  BY <1>4
<1>10. ASSUME NEW k \in Nat, k + 1 <= p, Plainly(k) PROVE Plainly(k + 1)
  <2> DEFINE b == BlockAt(i, k + 1)
             c == f[k]
             r == f[k + 1]
  <2>1. k + 1 \in 1 .. N /\ k \in 0 .. N /\ (k + 1) - 1 = k /\ ~(p < k + 1)
    BY <1>1, <1>10
  <2>2. r = AddBlock(i, c, b) /\ c \in Collected(i) /\ c.out \in Seq(Plain)
    BY <1>4, <1>10, <2>1
  <2>3. b.type # "tool_use"
    BY <1>1, <2>1
  <2>4. b = BlockAt(i, k + 1) /\ k + 1 \in DOMAIN history[i].content.blocks
    BY <1>b, <2>1
  <2>5. b \in Blocks
    BY <2>4, TurnShape
  <2>c. b.type # "tool_result"
    <3>1. history[i].role = "assistant"
      BY TurnRoles
    <3> QED BY <2>4, <3>1, TurnRoles
  <2>d. (r.out \in Seq(Plain)) => Plainly(k + 1)
    OBVIOUS
  <2> HIDE DEF b, c, r, Plainly
  <2>6. b.type \in {"text", "image", "document", "thinking"}
    BY <2>3, <2>5, <2>c, BlockShapes
  <2>7. r.out = c.out
    BY <2>2, <2>4, <2>6, AddBlockSays, ZenonT(60)
  <2> QED BY <2>2, <2>7, <2>d
<1> HIDE DEF Plainly
<1>11. T = Nat
  <2>1. T \in SUBSET Nat /\ 0 \in T
    BY <1>9
  <2>2. ASSUME NEW k \in T PROVE k + 1 \in T
    <3>1. k \in Nat
      OBVIOUS
    <3> SUFFICES ASSUME k + 1 <= p PROVE Plainly(k + 1)
      OBVIOUS
    <3>2. k <= p
      BY <3>1
    <3>3. Plainly(k)
      BY <3>2
    <3> QED BY <1>10, <3>1, <3>3
  <2> HIDE DEF T
  <2> QED BY <2>1, <2>2, NumberInduction
<1>12. f[p].out \in Seq(Plain)
  <2>1. p \in T
    <3> HIDE DEF T
    <3> QED BY <1>11
  <2> QED BY <2>1 DEF Plainly
<1>13. g[p] \in Seq(Plain)
  <2> DEFINE c == f[p]
             x == Item(i, "message", history[i].role, "", c.content)
  <2>1. p \in 0 .. N
    BY <1>1
  <2>2. c \in Collected(i) /\ g[p] = FlushMessage(i, c).out /\ c.out \in Seq(Plain)
    BY <1>4, <1>12, <2>1
  <2> HIDE DEF c
  <2>3. CASE c.content = <<>>
    BY <2>2, <2>3, FlushFits
  <2>4. CASE c.content # <<>>
    <3>1. g[p] = Append(c.out, x)
      BY <2>2, <2>4, FlushFits
    <3>2. c.content \in Seq(ContentParts(i))
      BY <2>2 DEF Collected
    <3>3. x \in TurnItems(i)
      BY <3>2, MessageFits
    <3>4. x.type = "message"
      BY DEF Item
    <3> HIDE DEF x
    <3>5. x \in Plain
      BY <3>3, <3>4, TurnItemsAreInput DEF Plain
    <3> QED BY <2>2, <3>1, <3>5
  <2> QED BY <2>3, <2>4
<1>14. s # <<>>
  BY <1>1, <1>8
<1>15. {s[k].id : k \in 1 .. n} = CallsOf(i)
  <2>1. \A k \in 1 .. n : s[k].id = id[p + k]
    BY <1>8
  <2>2. \A k \in 1 .. n : p + k \in 1 .. N /\ p < p + k
    BY <1>1
  <2>3. \A k \in 1 .. n : s[k].id \in CallsOf(i)
    <3> TAKE k \in 1 .. n
    <3>1. p + k \in 1 .. N /\ BlockAt(i, p + k).type = "tool_use"
      BY <1>1, <2>2
    <3>2. id[p + k] \in CallsOf(i)
      BY <1>3, <3>1
    <3> QED BY <2>1, <3>2
  <2>4. ASSUME NEW y \in CallsOf(i) PROVE \E k \in 1 .. n : s[k].id = y
    <3>1. PICK k \in 1 .. N : BlockAt(i, k).type = "tool_use" /\ y = id[k]
      BY <1>3
    <3>2. p < k
      BY <1>1, <3>1
    <3>3. k - p \in 1 .. n /\ p + (k - p) = k
      BY <1>1, <3>2
    <3> QED BY <2>1, <3>1, <3>3
  <2> QED BY <2>3, <2>4, Zenon
<1> QED BY <1>1, <1>4, <1>8, <1>13, <1>14, <1>15


LEMMA AppendsWithin ==
  \A X : \A u, v \in Seq(X), x \in X :
    Append(u \o v, x) = u \o Append(v, x) /\ Append(v, x) \in Seq(X)
OBVIOUS

IdsOf(s) == {s[k].id : k \in 1 .. Len(s)}

LEMMA ResultsStartTurn ==
  ASSUME TypeInv, NEW i \in DOMAIN history, NEW C, IsFiniteSet(C), NEW n \in Nat, n # 0,
         n = Cardinality(C), n <= Len(history[i].content.blocks),
         ResultIds(SubSeq(history[i].content.blocks, 1, n)) = C
  PROVE  \E s \in Seq(Results), rest \in Seq(TurnItems(i)) :
           /\ BlocksToInput(i) = s \o rest /\ Len(s) = n
           /\ IdsOf(s) = C
<1> DEFINE bs == history[i].content.blocks
           N == Len(bs)
           id == [k \in 1 .. N |-> BlockAt(i, k).id]
           X == TurnItems(i)
<1>1. N \in Nat /\ DOMAIN bs = 1 .. N /\ n <= N
  <2>1. bs \in Seq(Blocks)
    BY TurnShape
  <2> QED BY <2>1
<1>2. /\ \A k \in 1 .. n : BlockAt(i, k).type = "tool_result"
      /\ C = {BlockAt(i, k).id : k \in 1 .. n}
  BY ResultPositions
<1>a. \A k \in 1 .. N : id[k] = BlockAt(i, k).id
  OBVIOUS
<1>3. PICK f \in [0 .. N -> Collected(i)], g \in [0 .. N -> Seq(Input)] :
        /\ f[0] = [out |-> <<>>, content |-> <<>>]
        /\ \A k \in 1 .. N : f[k] = AddBlock(i, f[k - 1], BlockAt(i, k))
        /\ \A k \in 0 .. N : g[k] = FlushMessage(i, f[k]).out
        /\ BlocksToInput(i) = g[N]
        /\ \A k \in 1 .. N : BlockAt(i, k).type = "tool_result" =>
             /\ f[k].content = <<>> /\ f[k].out = g[k]
             /\ \E x \in Results : x.id = BlockAt(i, k).id /\ g[k] = Append(g[k - 1], x)
  BY FlushedSteps
<1>b. \A k \in 1 .. N : k \in DOMAIN bs
  BY <1>1
<1> HIDE DEF N, id, X
<1>4. \A k \in 0 + 1 .. 0 + n : \E x \in Results : x.id = id[k] /\ g[k] = Append(g[k - 1], x)
  <2> TAKE k \in 0 + 1 .. 0 + n
  <2>1. k \in 1 .. N /\ k \in 1 .. n
    BY <1>1
  <2> QED BY <1>2, <1>3, <1>a, <2>1
<1>5. Results \in SUBSET Input
  BY DEF Results
<1>c. 0 + n <= N /\ N \in Nat /\ 0 \in Nat
  BY <1>1
<1>6. PICK s \in Seq(Results) : Run(g, id, 0, n, s)
  BY <1>4, <1>5, <1>c, RunAppends
<1>7. g[n] = g[0] \o s /\ Len(s) = n /\ \A k \in 1 .. n : s[k].id = id[0 + k]
  BY <1>6 DEF Run
<1>d. \A k \in 1 .. n : id[0 + k] = BlockAt(i, k).id
  <2> TAKE k \in 1 .. n
  <2>1. k \in 1 .. N /\ 0 + k = k
    BY <1>1
  <2> QED BY <1>a, <2>1
<1>8. g[0] = <<>>
  <2>1. 0 \in 0 .. N
    BY <1>1
  <2>2. f[0] \in Collected(i) /\ g[0] = FlushMessage(i, f[0]).out
    BY <1>3, <2>1
  <2>3. f[0].content = <<>> /\ f[0].out = <<>>
    BY <1>3
  <2> QED BY <2>2, <2>3, FlushFits
<1>9. s \in Seq(Input)
  BY <1>5, SeqMonotonic
<1>10. g[n] = s
  BY <1>7, <1>8, <1>9, Unit
<1>11. f[n].out = s
  <2>1. n \in 1 .. N /\ n \in 1 .. n
    BY <1>1
  <2> QED BY <1>2, <1>3, <1>10, <2>1
<1>e. s \in Seq(X)
  <2>1. n \in 0 .. N
    BY <1>1
  <2>2. f[n] \in Collected(i)
    BY <2>1
  <2> QED BY <1>11, <2>2 DEF Collected, X
(* What comes after the results. *)
<1>12. ASSUME NEW c \in Collected(i), NEW r \in Seq(X), c.out = s \o r
       PROVE  \E t \in Seq(X) : FlushMessage(i, c).out = s \o t
  <2> DEFINE x == Item(i, "message", history[i].role, "", c.content)
  <2>1. CASE c.content = <<>>
    BY <1>12, <2>1, FlushFits
  <2>2. CASE c.content # <<>>
    <3>1. FlushMessage(i, c).out = Append(c.out, x)
      BY <2>2, FlushFits
    <3>2. c.content \in Seq(ContentParts(i))
      BY DEF Collected
    <3>3. x \in X
      BY <3>2, MessageFits DEF X
    <3> HIDE DEF x
    <3>4. Append(s \o r, x) = s \o Append(r, x) /\ Append(r, x) \in Seq(X)
      BY <1>e, <3>3, AppendsWithin
    <3> QED BY <1>12, <3>1, <3>4
  <2> QED BY <2>1, <2>2
<1> DEFINE After(k) == \E r \in Seq(X) : f[k].out = s \o r
           T == {k \in Nat : n <= k /\ k <= N => After(k)}
<1>13. After(n)
  <2>1. s = s \o <<>> /\ <<>> \in Seq(X)
    BY <1>9, Unit
  <2> QED BY <1>11, <2>1
<1>14. ASSUME NEW k \in Nat, k + 1 <= N, After(k) PROVE After(k + 1)
  <2> DEFINE b == BlockAt(i, k + 1)
             c == f[k]
             z == f[k + 1]
  <2>1. k + 1 \in 1 .. N /\ k \in 0 .. N /\ (k + 1) - 1 = k
    BY <1>1, <1>14
  <2>2. z = AddBlock(i, c, b) /\ c \in Collected(i)
    BY <1>3, <2>1
  <2>3. PICK r \in Seq(X) : c.out = s \o r
    BY <1>14
  <2>4. b = BlockAt(i, k + 1) /\ k + 1 \in DOMAIN history[i].content.blocks
    BY <1>b, <2>1
  <2>5. b \in Blocks
    BY <2>4, TurnShape
  <2>6. (\E t \in Seq(X) : z.out = s \o t) => After(k + 1)
    OBVIOUS
  <2> HIDE DEF b, c, z, After
  <2>7. CASE b.type \in {"text", "image", "document", "thinking"}
    <3>1. z.out = c.out
      BY <2>2, <2>4, <2>7, AddBlockSays, ZenonT(60)
    <3> QED BY <2>3, <2>6, <3>1
  <2>8. CASE b.type \in {"tool_use", "tool_result"}
    <3>1. PICK t \in Seq(X) : FlushMessage(i, c).out = s \o t
      BY <1>12, <2>2, <2>3
    <3>2. PICK x \in X : z.out = Append(FlushMessage(i, c).out, x)
      <4>1. CASE b.type = "tool_use"
        <5> DEFINE y == Item(i, "function_call", "", b.id, <<>>)
        <5>1. y \in X
          BY <2>4, <4>1, CallFits DEF X
        <5>2. z.out = Append(FlushMessage(i, c).out, y)
          BY <2>2, <2>4, <4>1, AddBlockSays
        <5> HIDE DEF y
        <5> QED BY <5>1, <5>2
      <4>2. CASE b.type = "tool_result"
        <5> DEFINE y == Item(i, "function_call_output", "", b.id, ToolResultToResponsesOutput(b))
        <5>1. y \in X
          BY <2>4, <4>2, OutputFits DEF X
        <5>2. z.out = Append(FlushMessage(i, c).out, y)
          BY <2>2, <2>4, <4>2, AddBlockSays
        <5> HIDE DEF y
        <5> QED BY <5>1, <5>2
      <4> QED BY <2>8, <4>1, <4>2
    <3>3. Append(s \o t, x) = s \o Append(t, x) /\ Append(t, x) \in Seq(X)
      BY <1>e, AppendsWithin
    <3> QED BY <2>6, <3>1, <3>2, <3>3
  <2> QED BY <2>5, <2>7, <2>8, BlockShapes
<1> HIDE DEF After
<1>15. T = Nat
  <2>1. T \in SUBSET Nat /\ 0 \in T
    OBVIOUS
  <2>2. ASSUME NEW k \in T PROVE k + 1 \in T
    <3>1. k \in Nat
      OBVIOUS
    <3> SUFFICES ASSUME n <= k + 1, k + 1 <= N PROVE After(k + 1)
      OBVIOUS
    <3>2. n = k + 1 \/ (n <= k /\ k <= N)
      BY <1>1, <3>1
    <3>3. n = k + 1 \/ After(k)
      BY <3>2
    <3> QED BY <1>13, <1>14, <3>1, <3>3
  <2> HIDE DEF T
  <2> QED BY <2>1, <2>2, NumberInduction
<1>16. After(N)
  <2>1. N \in T
    <3> HIDE DEF T
    <3> QED BY <1>1, <1>15
  <2> QED BY <1>1, <2>1
<1>17. PICK rest \in Seq(X) : g[N] = s \o rest
  <2>1. N \in 0 .. N
    BY <1>1
  <2>2. f[N] \in Collected(i) /\ g[N] = FlushMessage(i, f[N]).out
    BY <1>3, <2>1
  <2> QED BY <1>12, <1>16, <2>2 DEF After
<1>18. IdsOf(s) = C
  <2>1. \A k \in 1 .. n : s[k].id = BlockAt(i, k).id
    BY <1>7, <1>d
  <2>2. {s[k].id : k \in 1 .. n} = {BlockAt(i, k).id : k \in 1 .. n}
    BY <2>1, Zenon
  <2> QED BY <1>2, <1>7, <2>2 DEF IdsOf
<1> QED BY <1>3, <1>7, <1>17, <1>18 DEF X


(* After turn n every call is answered, but for those of turn n itself. *)
Settled(n, c) ==
  IF c.ok /\ n # 0 /\ CallsOf(n) # {} THEN Pending(n, c.out) ELSE Done(c.out)

(* The marker of a turn leaves it settled. *)
LEMMA MarkerSettles ==
  ASSUME TypeInv, NEW i \in DOMAIN history, NEW d \in Converted, Settled(i, d), NEW c \in Converted,
         Converts(d, Reasoning(i, "chat_reasoning"), c)
  PROVE  Settled(i, c)
<1>1. d.out \in Seq(ChatMessages) /\ i # 0
  BY TurnShape DEF Converted
<1>2. ASSUME NEW t \in Thoughts, NEW x \in Input, x.type = "chat_reasoning", x.id = t,
             c = AddItem(d, x)
      PROVE  Settled(i, c)
  <2>1. CASE ~d.ok
    BY <1>2, <2>1, ItemAdded
  <2>2. CASE d.ok /\ LastAssistant(d.out) # 0
    <3>1. c.ok /\ c.out = SetReasoning(d.out, t)
      BY <1>2, <2>2, ItemAdded
    <3>2. Done(d.out) => Done(c.out)
      BY <1>1, <2>2, <3>1, MarkerKeeps
    <3>3. Pending(i, d.out) => Pending(i, c.out)
      BY <1>1, <2>2, <3>1, MarkerKeeps
    <3> QED BY <2>2, <3>1, <3>2, <3>3 DEF Settled
  <2>3. CASE d.ok /\ LastAssistant(d.out) = 0
    <3>1. ~c.ok /\ c.out = d.out
      BY <1>2, <2>3, ItemAdded DEF Refused
    <3>2. ~JoinsLast(d.out)
      <4> SUFFICES ASSUME JoinsLast(d.out) PROVE FALSE
        OBVIOUS
      <4> DEFINE u == d.out
                 n == Len(u)
      <4>1. u # <<>> /\ Last(u).role = "assistant" /\ u \in Seq(ChatMessages)
        BY <1>1 DEF JoinsLast
      <4>2. \A j \in 1 .. n : u[j].role # "assistant"
        BY <1>1, <2>3, LastAssistantIs
      <4>3. Last(u) = u[n]
        BY DEF Last
      <4> HIDE DEF u
      <4>4. n \in 1 .. n
        BY <4>1, EmptySeq
      <4> QED BY <4>1, <4>2, <4>3, <4>4
    <3>3. Done(d.out)
      BY <3>2 DEF Settled, Pending
    <3> QED BY <3>1, <3>3 DEF Settled
  <2> QED BY <2>1, <2>2, <2>3
<1> QED BY <1>2, MarkerStep

LEMMA PlainTurn ==
  ASSUME TypeInv, NEW i \in DOMAIN history, CallsOf(i) = {}, NEW s \in Seq(TurnItems(i))
  PROVE  s \in Seq(Plain)
<1>1. \A x \in TurnItems(i) : x \in Plain
  BY TurnItemsAreInput DEF Plain, TurnItems
<1> QED BY <1>1, SeqMonotonic

LEMMA CallsRange ==
  ASSUME NEW c \in Seq(Ids), NEW s \in Seq(Calls), Len(c) = Len(s),
         \A k \in 1 .. Len(s) : c[k] = s[k].id
  PROVE  Range(c) = {s[k].id : k \in 1 .. Len(s)}
<1>1. DOMAIN c = 1 .. Len(s)
  OBVIOUS
<1>2. Range(c) = {c[k] : k \in 1 .. Len(s)}
  BY <1>1 DEF Range
<1>3. {c[k] : k \in 1 .. Len(s)} = {s[k].id : k \in 1 .. Len(s)}
  <2>1. \A k \in 1 .. Len(s) : c[k] = s[k].id
    OBVIOUS
  <2> QED BY <2>1, Zenon
<1> QED BY <1>2, <1>3

LEMMA ResultsLead ==
  ASSUME TypeInv, CallsAreAnswered, NEW h \in DOMAIN history, CallsOf(h) # {},
         NEW i \in DOMAIN history, i = h + 1
  PROVE  /\ history[i].role = "user"
         /\ \E s \in Seq(Results), rest \in Seq(TurnItems(i)) :
              /\ BlocksToInput(i) = s \o rest /\ Len(s) = Cardinality(CallsOf(h))
              /\ IdsOf(s) = CallsOf(h)
<1> DEFINE C == CallsOf(h)
           q == Cardinality(C)
<1>1. /\ history[i].role = "user"
      /\ Len(history[i].content.blocks) >= q
      /\ ResultIds(SubSeq(history[i].content.blocks, 1, q)) = C
  BY DEF CallsAreAnswered
<1>2. IsFiniteSet(C) /\ q \in Nat /\ q # 0
  BY CallPositions
<1>3. q <= Len(history[i].content.blocks)
  <2>1. history[i].content.blocks \in Seq(Blocks)
    BY TurnShape
  <2>2. Len(history[i].content.blocks) \in Nat
    BY <2>1
  <2> QED BY <1>1, <1>2, <2>2
<1>4. q = Cardinality(C)
  OBVIOUS
<1> HIDE DEF C, q
<1>5. ASSUME NEW n \in Nat, n # 0, n = Cardinality(C), n <= Len(history[i].content.blocks),
             ResultIds(SubSeq(history[i].content.blocks, 1, n)) = C
      PROVE  \E s \in Seq(Results), rest \in Seq(TurnItems(i)) :
               /\ BlocksToInput(i) = s \o rest /\ Len(s) = n
               /\ IdsOf(s) = C
  BY <1>2, <1>5, ResultsStartTurn, ZenonT(60)
<1>6. \E s \in Seq(Results), rest \in Seq(TurnItems(i)) :
        /\ BlocksToInput(i) = s \o rest /\ Len(s) = q
        /\ IdsOf(s) = C
  BY <1>1, <1>2, <1>3, <1>4, <1>5, Zenon
<1> QED BY <1>1, <1>4, <1>6, Zenon DEF C

LEMMA BlocksSettle ==
  ASSUME TypeInv, Accepted, CallsAreAnswered, chat, NEW i \in DOMAIN history,
         NEW a \in Converted, a.ok, Settled(i - 1, a),
         NEW d \in Converted, Converts(a, BlocksToInput(i), d)
  PROVE  Settled(i, d)
<1>0. i \in Nat \ {0} /\ i \in 1 .. Len(history) /\ BlocksToInput(i) \in Seq(TurnItems(i))
  BY TurnShape, BlocksTyped
<1>1. a.out \in Seq(ChatMessages) /\ d.out \in Seq(ChatMessages)
  BY DEF Converted
<1>2. CASE ~(i - 1 # 0 /\ CallsOf(i - 1) # {}) /\ CallsOf(i) = {}
  <2>1. Done(a.out)
    BY <1>2 DEF Settled
  <2>2. Done(d.out)
    BY <1>0, <1>2, <2>1, PlainTurn, PlainStaysDone
  <2> QED BY <1>2, <2>2 DEF Settled
<1>3. CASE ~(i - 1 # 0 /\ CallsOf(i - 1) # {}) /\ CallsOf(i) # {}
  <2>1. Done(a.out)
    BY <1>3 DEF Settled
  <2>2. PICK pre \in Seq(Plain), s \in Seq(Calls) :
          /\ BlocksToInput(i) = pre \o s
          /\ Len(s) = Cardinality(CallsOf(i)) /\ s # <<>>
          /\ {s[k].id : k \in 1 .. Len(s)} = CallsOf(i)
    BY <1>3, CallsEndTurn
  <2>3. pre \in Seq(Input) /\ s \in Seq(Input)
    <3>1. Plain \subseteq Input /\ Calls \subseteq Input
      BY DEF Plain, Calls
    <3> QED BY <3>1, SeqMonotonic
  <2>4. PICK b \in Converted : Converts(a, pre, b) /\ Converts(b, s, d)
    BY <2>2, <2>3, ConvertsJoin
  <2>5. Done(b.out)
    BY <2>1, <2>4, PlainStaysDone
  <2>6. CASE ~b.ok
    <3>1. d = b
      BY <2>3, <2>4, <2>6, StaysFailed
    <3> QED BY <2>5, <2>6, <3>1 DEF Settled
  <2>7. CASE b.ok
    <3>1. d.ok /\ Ready(d.out, s) /\ JoinsLast(d.out)
      BY <2>2, <2>4, <2>5, <2>7, CallsAdded
    <3> DEFINE u == d.out
               n == Len(u)
               c == u[n].calls
    <3>2. /\ Len(c) = Len(s) /\ \A k \in 1 .. Len(s) : c[k] = s[k].id
          /\ \A j \in 1 .. n : j # n => Answered(u, j)
      BY <3>1 DEF Ready
    <3>3. c \in Seq(Ids)
      <4>1. u # <<>> /\ u \in Seq(ChatMessages)
        BY <1>1, <3>1 DEF JoinsLast
      <4> HIDE DEF u
      <4>2. u[n] \in ChatMessages
        BY <4>1, EmptySeq
      <4> QED BY <4>2, MessageShape
    <3> HIDE DEF c
    <3>4. Range(c) = {s[k].id : k \in 1 .. Len(s)}
      BY <3>2, <3>3, CallsRange
    <3>5. Range(c) = CallsOf(i) /\ Len(c) = Cardinality(CallsOf(i))
      BY <2>2, <3>2, <3>4
    <3>6. Pending(i, u)
      BY <3>1, <3>2, <3>5 DEF Pending, c
    <3> QED BY <1>0, <1>3, <3>1, <3>6 DEF Settled
  <2> QED BY <2>6, <2>7
<1>4. CASE i - 1 # 0 /\ CallsOf(i - 1) # {}
  <2> DEFINE h == i - 1
             C == CallsOf(h)
  <2>1. h \in DOMAIN history /\ h + 1 = i
    <3>1. history \in Seq(Messages)
      BY DEF TypeInv
    <3> QED BY <1>0, <1>4, <3>1
  <2>2. Pending(h, a.out) /\ C # {}
    BY <1>4 DEF Settled
  <2> HIDE DEF h
  <2> HIDE DEF C
  <2>3. history[i].role = "user"
    BY <2>1, <2>2, ResultsLead DEF C
  <2>6. PICK s \in Seq(Results), rest \in Seq(TurnItems(i)) :
          /\ BlocksToInput(i) = s \o rest /\ Len(s) = Cardinality(C)
          /\ IdsOf(s) = C
    BY <2>1, <2>2, ResultsLead DEF C
  <2>7. CallsOf(i) = {}
    BY <2>3, TurnRoles
  <2>8. rest \in Seq(Plain)
    BY <2>7, PlainTurn
  <2>9. rest \in Seq(Input) /\ s \in Seq(Input)
    <3>1. Plain \subseteq Input /\ Results \subseteq Input
      BY DEF Plain, Results
    <3> QED BY <2>8, <3>1, SeqMonotonic
  <2>10. PICK b \in Converted : Converts(a, s, b) /\ Converts(b, rest, d)
    BY <2>6, <2>9, ConvertsJoin
  <2>11. Replied(a.out, b.out, s)
    BY <2>10, ResultsAdded
  <2>12. b.out \in Seq(ChatMessages)
    BY DEF Converted
  <2>13. Done(b.out)
    BY <1>1, <2>1, <2>2, <2>6, <2>11, <2>12, AllAnswered DEF C, IdsOf
  <2>14. Done(d.out)
    BY <2>8, <2>10, <2>13, PlainStaysDone
  <2> QED BY <2>7, <2>14 DEF Settled
<1> QED BY <1>2, <1>3, <1>4

LEMMA TurnSettles ==
  ASSUME TypeInv, Accepted, CallsAreAnswered, chat, NEW i \in DOMAIN history,
         NEW a \in Converted, Settled(i - 1, a),
         NEW c \in Converted, Converts(a, TurnToInput(i), c)
  PROVE  Settled(i, c)
<1>1. CASE ~a.ok
  <2>1. TurnToInput(i) \in Seq(Input)
    BY TurnTyped
  <2>2. c = a
    BY <1>1, <2>1, StaysFailed
  <2> QED BY <1>1, <2>2 DEF Settled
<1>2. CASE a.ok
  <2>1. PICK d \in Converted : /\ Converts(a, BlocksToInput(i), d)
                               /\ Converts(d, Reasoning(i, "chat_reasoning"), c)
    BY TurnSplit
  <2>2. Settled(i, d)
    BY <1>2, <2>1, BlocksSettle
  <2> QED BY <2>1, <2>2, MarkerSettles
<1> QED BY <1>1, <1>2

LEMMA HistorySettles ==
  ASSUME TypeInv, Accepted, CallsAreAnswered, chat
  PROVE  ResponsesInputToChat \in Converted /\ Done(ResponsesInputToChat.out)
<1> DEFINE n == Len(history)
           I == [k \in 0 .. n |-> {c \in Converted : Settled(k, c)}]
           e == ResponsesInputToChat
<1>1. /\ Turns \in Seq(Seq(Input)) /\ Len(Turns) = n
      /\ DOMAIN history = 1 .. n /\ n \in Nat
      /\ \A i \in 1 .. n : Turns[i] = TurnToInput(i)
  BY TurnsTyped
<1>2. Converts(Start, FlattenSeq(Turns), e)
  BY ChatConverts, TurnsTyped
<1>a. n # 0 => CallsOf(n) = {}
  BY <1>1 DEF CallsAreAnswered
<1> HIDE DEF e, n
<1>4. \A k \in 0 .. n : I[k] = {c \in Converted : Settled(k, c)}
  OBVIOUS
<1> HIDE DEF I
<1>5. Start \in I[0]
  <2>1. Start \in Converted /\ Start.out = <<>>
    BY StartTyped
  <2>2. Done(<<>>)
    BY DEF Done
  <2>3. Settled(0, Start)
    BY <2>1, <2>2 DEF Settled
  <2> QED BY <1>1, <1>4, <2>1, <2>3
<1>6. ASSUME NEW i \in 1 .. Len(Turns), NEW b \in Converted, NEW c \in Converted,
             b \in I[i - 1], Converts(b, Turns[i], c)
      PROVE  c \in I[i]
  <2>1. /\ i \in DOMAIN history /\ i \in 0 .. n /\ i - 1 \in 0 .. n
        /\ Turns[i] = TurnToInput(i)
    BY <1>1
  <2>2. Settled(i - 1, b)
    BY <1>4, <1>6, <2>1
  <2>3. Settled(i, c)
    BY <1>6, <2>1, <2>2, TurnSettles
  <2> QED BY <1>4, <2>1, <2>3
<1>7. e \in I[Len(Turns)]
  BY <1>1, <1>2, <1>5, <1>6, StartTyped, ConvertsFlatten
<1>8. n \in 0 .. n
  BY <1>1
<1>9. e \in Converted /\ Settled(n, e)
  BY <1>1, <1>4, <1>7, <1>8
<1>10. Done(e.out)
  BY <1>9, <1>a DEF Settled
<1> QED BY <1>9, <1>10 DEF e

LEMMA ResultsAreInPlace == TypeInv => ResultsFollowCalls
<1> SUFFICES ASSUME TypeInv, chat, Accepted, CallsAreAnswered PROVE ResultsFollowCalls
  BY DEF ResultsFollowCalls
<1> DEFINE out == ResponsesInputToChat.out
<1>1. ResponsesInputToChat \in Converted /\ Done(out)
  BY HistorySettles
<1>2. out \in Seq(ChatMessages)
  BY <1>1 DEF Converted
<1> HIDE DEF out
<1>3. DOMAIN out = 1 .. Len(out)
  BY <1>2
<1>4. \A j \in DOMAIN out : out[j].calls # <<>> =>
        /\ \E i \in DOMAIN history : Range(out[j].calls) = CallsOf(i)
        /\ \A k \in 1 .. Len(out[j].calls) : j + k \in DOMAIN out /\ out[j + k].role = "tool"
        /\ {out[j + k].id : k \in 1 .. Len(out[j].calls)} = Range(out[j].calls)
  BY <1>1, <1>3 DEF Done, Answered
<1> QED BY <1>4 DEF ResultsFollowCalls, out

(* Every Chat Completions message with tool calls holds the calls of one   *)
(* turn and is followed by their results, whatever consecutive assistant   *)
(* turns, markers and refused parts do to the messages around them:        *)
(* ResultsFollowCalls is an invariant of the translation.                  *)
THEOREM ResultsStayWithCalls == Spec => []ResultsFollowCalls
<1>1. TypeInv => ResultsFollowCalls
  BY ResultsAreInPlace
<1> QED BY <1>1, TypeHolds, PTL
=============================================================================
