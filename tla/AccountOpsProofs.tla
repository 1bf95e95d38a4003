-------------------------- MODULE AccountOpsProofs --------------------------
(***************************************************************************)
(* The methods of Account keep AccountInv, for every set of client and     *)
(* exchange ids and every bound: one lemma per method on account values,   *)
(* which the proofs of every module that composes the methods cite.        *)
(***************************************************************************)
EXTENDS AccountOps, Sequences, SequencesExt, FiniteSetTheorems, SequenceTheorems, TLAPS

(***************************************************************************)
(* Facts about numbers, sequences and sets that say nothing of the program. *)
(***************************************************************************)

\* Induction over the natural numbers, for a set instead of a predicate: if n were
\* missing, the successor would map the members up to n one to one into those
\* that are not 0, and there is one less of them.
LEMMA NatSetInduction ==
    ASSUME NEW T, 0 \in T, \A n \in Nat : n \in T => n + 1 \in T
    PROVE  Nat \subseteq T
<1>1. SUFFICES ASSUME NEW n \in Nat, n \notin T PROVE FALSE
    OBVIOUS
<1> DEFINE A == {k \in 0..n : k \in T}
           B == A \ {0}
           f == [k \in A |-> k + 1]
<1>2. IsFiniteSet(A) /\ 0 \in A
  <2>1. IsFiniteSet(0..n)
      BY FS_Interval
  <2> QED
      BY <2>1, FS_Subset
<1>3. Cardinality(A) \in Nat /\ IsFiniteSet(B) /\ Cardinality(B) = Cardinality(A) - 1
  <2> HIDE DEF A
  <2> QED
      BY <1>2, FS_RemoveElement, FS_CardinalityType
<1>4. f \in Injection(A, B)
  <2>1. \A k \in A : k + 1 \in B /\ k \in Nat
      BY <1>1
  <2> HIDE DEF A, B
  <2>2. f \in [A -> B]
      BY <2>1
  <2>3. \A j, k \in A : f[j] = f[k] => j = k
      BY <2>1
  <2> QED
      BY <2>2, <2>3 DEF Injection, IsInjective
<1>5. Cardinality(A) <= Cardinality(B)
  <2> HIDE DEF A, B, f
  <2> QED
      BY <1>2, <1>3, <1>4, FS_Injection
<1> QED
    BY <1>3, <1>5

\* Where the elements of a concatenation come from.
LEMMA Concatenation ==
    ASSUME NEW S, NEW q \in Seq(S), NEW r \in Seq(S)
    PROVE  /\ q \o r \in Seq(S) /\ Len(q \o r) = Len(q) + Len(r)
           /\ \A i \in 1..Len(q) : (q \o r)[i] = q[i]
           /\ \A i \in 1..Len(r) : (q \o r)[Len(q) + i] = r[i]
           /\ \A i \in 1..Len(q \o r) :
                 i \in 1..Len(q) \/ \E j \in 1..Len(r) : i = Len(q) + j
<1>1. /\ q \o r \in Seq(S) /\ Len(q \o r) = Len(q) + Len(r)
      /\ \A i \in 1..Len(q) : (q \o r)[i] = q[i]
      /\ \A i \in 1..Len(r) : (q \o r)[Len(q) + i] = r[i]
    OBVIOUS
<1>2. ASSUME NEW i \in 1..Len(q \o r), i \notin 1..Len(q)
      PROVE  \E j \in 1..Len(r) : i = Len(q) + j
  <2>1. Len(q) \in Nat /\ Len(r) \in Nat
      OBVIOUS
  <2>2. i - Len(q) \in 1..Len(r) /\ i = Len(q) + (i - Len(q))
      BY <1>1, <1>2, <2>1
  <2> QED
      BY <2>2
<1> QED
    BY <1>1, <1>2

\* Sequences of one and of two.
LEMMA Singletons ==
    ASSUME NEW S, NEW a \in S, NEW b \in S
    PROVE  /\ <<a>> \in Seq(S) /\ Len(<<a>>) = 1 /\ <<a>>[1] = a
           /\ <<a, b>> \in Seq(S) /\ Len(<<a, b>>) = 2 /\ <<a, b>>[1] = a /\ <<a, b>>[2] = b
OBVIOUS

\* Two sequences are equal when their elements are.
LEMMA SameElements ==
    ASSUME NEW S, NEW p \in Seq(S), NEW q \in Seq(S), Len(p) = Len(q),
           \A i \in 1..Len(p) : p[i] = q[i]
    PROVE  p = q
OBVIOUS

\* A sequence of two elements is one of one element and another.
LEMMA Pairs ==
    ASSUME NEW S, NEW a \in S, NEW b \in S
    PROVE  <<a, b>> = <<a>> \o <<b>>
<1>1. PICK p \in Seq(S), q \in Seq(S), r \in Seq(S) :
        /\ p = <<a>> /\ Len(p) = 1 /\ p[1] = a
        /\ q = <<b>> /\ Len(q) = 1 /\ q[1] = b
        /\ r = <<a, b>> /\ Len(r) = 2 /\ r[1] = a /\ r[2] = b
  <2>1. /\ <<a>> \in Seq(S) /\ Len(<<a>>) = 1 /\ <<a>>[1] = a
        /\ <<b>> \in Seq(S) /\ Len(<<b>>) = 1 /\ <<b>>[1] = b
        /\ <<a, b>> \in Seq(S) /\ Len(<<a, b>>) = 2 /\ <<a, b>>[1] = a /\ <<a, b>>[2] = b
      BY Singletons
  <2> QED
      BY <2>1
<1>2. PICK t \in Seq(S) : t = p \o q /\ Len(t) = 2 /\ t[1] = a /\ t[2] = b
  <2>1. p \o q \in Seq(S) /\ Len(p \o q) = 2 /\ (p \o q)[1] = a /\ (p \o q)[2] = b
      BY <1>1
  <2> QED
      BY <2>1
<1>3. \A i \in 1..Len(r) : r[i] = t[i]
  <2>1. \A i \in 1..Len(r) : i = 1 \/ i = 2
      BY <1>1
  <2> QED
      BY <1>1, <1>2, <2>1
<1>4. r = t
    BY <1>1, <1>2, <1>3, SameElements, ZenonT(60)
<1> QED
    BY <1>1, <1>2, <1>4

\* The sequences that list a finite set.
LEMMA SequencesOf ==
    ASSUME NEW T, NEW S \in SUBSET T, IsFiniteSet(S), NEW events \in SetToSeqs(S)
    PROVE  events \in Seq(T) /\ \A i \in 1..Len(events) : events[i] \in S
<1>1. PICK n \in Nat : n = Cardinality(S)
    BY FS_CardinalityType
<1>2. events \in [1..n -> S]
    BY <1>1 DEF SetToSeqs
<1>3. events \in Seq(S) /\ Len(events) = n
    BY <1>1, <1>2
<1>4. events \in Seq(T)
    BY <1>2, <1>3
<1> QED
    BY <1>2, <1>3, <1>4

\* Each element of the set has one place in the sequence.
LEMMA SequencesOfAll ==
    ASSUME NEW S, IsFiniteSet(S), NEW events \in SetToSeqs(S), NEW c \in S
    PROVE  \E i \in 1..Len(events) : \A j \in 1..Len(events) : events[j] = c <=> j = i
<1>1. PICK n \in Nat : n = Cardinality(S)
    BY FS_CardinalityType
<1>2. events \in [1..n -> S] /\ \A i, j \in 1..n : i # j => events[i] # events[j]
    BY <1>1 DEF SetToSeqs
<1>3. events \in Seq(S) /\ Len(events) = n
    BY <1>1, <1>2
<1>4. \E i \in 1..n : events[i] = c
  <2>1. SUFFICES ASSUME \A i \in 1..n : events[i] # c PROVE FALSE
      OBVIOUS
  <2>2. events \in [1..n -> S \ {c}]
      BY <1>2, <2>1
  <2>3. IsFiniteSet(S \ {c}) /\ Cardinality(S \ {c}) = n - 1
      BY <1>1, FS_RemoveElement
  <2>4. IsFiniteSet(1..n) /\ Cardinality(1..n) = n
    <3>1. 1 \in Int /\ n \in Int /\ (IF 1 > n THEN 0 ELSE n - 1 + 1) = n
        OBVIOUS
    <3> QED
        BY <3>1, FS_Interval
  <2>5. Cardinality(S \ {c}) < Cardinality(1..n)
      BY <2>3, <2>4
  <2>6. PICK i \in 1..n, j \in 1..n : i # j /\ events[i] = events[j]
      BY <2>2, <2>3, <2>4, <2>5, FS_PigeonHole
  <2> QED
      BY <1>2, <2>6
<1> QED
    BY <1>2, <1>3, <1>4

(***************************************************************************)
(* Folds over finite sets: f[s] is what has been made of s.                *)

(***************************************************************************)

\* A set without the element that is taken first is smaller.
LEMMA FirstTaken ==
    ASSUME NEW s, IsFiniteSet(s), s # {}, NEW n \in Nat, Cardinality(s) <= n + 1
    PROVE  /\ (CHOOSE x \in s : TRUE) \in s
           /\ Cardinality(s \ {CHOOSE x \in s : TRUE}) <= n
<1>1. PICK c : c = CHOOSE x \in s : TRUE
    OBVIOUS
<1>2. c \in s
    BY <1>1
<1>3. Cardinality(s) \in Nat /\ Cardinality(s \ {c}) = Cardinality(s) - 1
    BY <1>2, FS_CardinalityType, FS_RemoveElement
<1> QED
    BY <1>1, <1>2, <1>3

\* What holds of the beginning, and of each step if it held before, holds at the end.
LEMMA FoldStays ==
    ASSUME NEW S, IsFiniteSet(S), NEW R, NEW f, f[{}] \in R[{}],
           \A s \in SUBSET S :
               s # {} /\ f[s \ {CHOOSE x \in s : TRUE}] \in R[s \ {CHOOSE x \in s : TRUE}]
               => f[s] \in R[s]
    PROVE  \A s \in SUBSET S : f[s] \in R[s]
<1> DEFINE T == {n \in Nat : \A s \in SUBSET S : Cardinality(s) <= n => f[s] \in R[s]}
<1>1. \A s \in SUBSET S : IsFiniteSet(s) /\ Cardinality(s) \in Nat
    BY FS_Subset, FS_CardinalityType
<1>2. 0 \in T
  <2>1. ASSUME NEW s \in SUBSET S, Cardinality(s) <= 0 PROVE f[s] \in R[s]
    <3>1. Cardinality(s) = 0
        BY <1>1, <2>1
    <3>2. s = {}
        BY <1>1, <3>1, FS_EmptySet
    <3> QED
        BY <3>2
  <2> QED
      BY <2>1
<1>3. ASSUME NEW n \in Nat, n \in T PROVE n + 1 \in T
  <2>1. ASSUME NEW s \in SUBSET S, Cardinality(s) <= n + 1 PROVE f[s] \in R[s]
    <3>1. CASE s = {}
        BY <3>1
    <3>2. CASE s # {}
      <4>1. Cardinality(s \ {CHOOSE x \in s : TRUE}) <= n
          BY <1>1, <2>1, <3>2, FirstTaken
      <4>2. f[s \ {CHOOSE x \in s : TRUE}] \in R[s \ {CHOOSE x \in s : TRUE}]
          BY <1>3, <4>1
      <4> QED
          BY <3>2, <4>2
    <3> QED
        BY <3>1, <3>2
  <2> QED
      BY <2>1
<1>4. Nat \subseteq T
  <2> HIDE DEF T
  <2> QED
      BY <1>2, <1>3, NatSetInduction
<1> QED
    BY <1>1, <1>4

\* The fold of S by the steps F.
IsFold(f, S, base, F) ==
    f = [s \in SUBSET S |->
           IF s = {} THEN base
           ELSE F[CHOOSE x \in s : TRUE][f[s \ {CHOOSE x \in s : TRUE}]]]

\* There is such a function for every step F.
LEMMA FoldExists ==
    ASSUME NEW S, IsFiniteSet(S), NEW base, NEW F
    PROVE  \E f : IsFold(f, S, base, F)
<1> DEFINE G(f) == [s \in SUBSET S |->
                      IF s = {} THEN base
                      ELSE F[CHOOSE x \in s : TRUE][f[s \ {CHOOSE x \in s : TRUE}]]]
           T == {n \in Nat : \E f : \A s \in SUBSET S : Cardinality(s) <= n => f[s] = G(f)[s]}
<1>1. \A s \in SUBSET S : IsFiniteSet(s) /\ Cardinality(s) \in Nat
    BY FS_Subset, FS_CardinalityType
<1>2. 0 \in T
  <2> DEFINE f == [s \in SUBSET S |-> base]
  <2>1. ASSUME NEW s \in SUBSET S, Cardinality(s) <= 0 PROVE f[s] = G(f)[s]
    <3>1. Cardinality(s) = 0
        BY <1>1, <2>1
    <3>2. s = {}
        BY <1>1, <3>1, FS_EmptySet
    <3> QED
        BY <3>2
  <2> QED
      BY <2>1
<1>3. ASSUME NEW n \in Nat, n \in T PROVE n + 1 \in T
  <2>1. PICK f : \A s \in SUBSET S : Cardinality(s) <= n => f[s] = G(f)[s]
      BY <1>3
  <2>2. PICK g : g = G(f)
      OBVIOUS
  <2>3. ASSUME NEW s \in SUBSET S, Cardinality(s) <= n + 1 PROVE g[s] = G(g)[s]
    <3>1. CASE s = {}
        BY <2>2, <3>1
    <3>2. CASE s # {}
      <4>1. PICK t \in SUBSET S : t = s \ {CHOOSE x \in s : TRUE}
          OBVIOUS
      <4>2. Cardinality(t) <= n
          BY <1>1, <2>3, <3>2, <4>1, FirstTaken
      <4>3. f[t] = g[t]
          BY <2>1, <2>2, <4>2
      <4> QED
          BY <2>2, <3>2, <4>1, <4>3
    <3> QED
        BY <3>1, <3>2
  <2> HIDE DEF G
  <2> QED
      BY <2>3
<1>4. Nat \subseteq T
  <2> HIDE DEF T
  <2> QED
      BY <1>2, <1>3, NatSetInduction
<1>5. PICK n \in Nat : n = Cardinality(S)
    BY FS_CardinalityType
<1>6. PICK f : \A s \in SUBSET S : Cardinality(s) <= n => f[s] = G(f)[s]
    BY <1>4
<1>7. \A s \in SUBSET S : Cardinality(s) <= n
    BY <1>5, FS_Subset
<1>8. PICK g : g = G(f)
    OBVIOUS
<1>9. ASSUME NEW s \in SUBSET S PROVE g[s] = G(g)[s]
  <2>1. CASE s = {}
      BY <1>8, <2>1
  <2>2. CASE s # {}
    <3>1. PICK t \in SUBSET S : t = s \ {CHOOSE x \in s : TRUE}
        OBVIOUS
    <3>2. f[t] = g[t]
        BY <1>6, <1>7, <1>8
    <3> QED
        BY <1>8, <2>2, <3>1, <3>2
  <2> QED
      BY <2>1, <2>2
<1>10. g = G(g)
    BY <1>8, <1>9
<1> QED
    BY <1>10 DEF IsFold

\* If every step goes from what holds before it to what holds after it, so does the fold.
LEMMA FoldReaches ==
    ASSUME NEW S, IsFiniteSet(S), NEW R, NEW base, base \in R[{}], NEW F,
           \A s \in SUBSET S : \A c \in S \ s : \A a \in R[s] : F[c][a] \in R[s \cup {c}]
    PROVE  \E f : IsFold(f, S, base, F) /\ \A s \in SUBSET S : f[s] \in R[s]
<1>1. PICK f : IsFold(f, S, base, F)
    BY FoldExists
<1>2. ASSUME NEW s \in SUBSET S, s # {},
             f[s \ {CHOOSE x \in s : TRUE}] \in R[s \ {CHOOSE x \in s : TRUE}]
      PROVE  f[s] \in R[s]
  <2>1. PICK c : c = CHOOSE x \in s : TRUE
      OBVIOUS
  <2>2. c \in s
      BY <1>2, <2>1
  <2>3. PICK t \in SUBSET S : t = s \ {c}
      OBVIOUS
  <2>4. c \in S \ t /\ t \cup {c} = s
      BY <2>2, <2>3
  <2>5. f[t] \in R[t]
      BY <1>2, <2>1, <2>3
  <2>6. F[c][f[t]] \in R[s]
      BY <2>4, <2>5
  <2>7. f[s] = F[c][f[t]]
      BY <1>1, <1>2, <2>1, <2>3 DEF IsFold
  <2> QED
      BY <2>6, <2>7
<1>3. f[{}] \in R[{}]
    BY <1>1 DEF IsFold
<1>4. \A s \in SUBSET S : f[s] \in R[s]
    BY <1>2, <1>3, FoldStays
<1> QED
    BY <1>1, <1>4

----------------------------------------------------------------------------

(***************************************************************************)
(* A sequence that takes those events of another that are in a set T:      *)
(* h[i] is what it is after the first i of them.                           *)

(***************************************************************************)
Kept(h, base, events, T) ==
    h = [i \in 0..Len(events) |->
           IF i = 0 THEN base
           ELSE IF events[i] \in T THEN Append(h[i - 1], events[i]) ELSE h[i - 1]]

\* There is such a sequence of sequences.
LEMMA KeptExists ==
    ASSUME NEW base, NEW events, NEW L \in Nat, L = Len(events), NEW T
    PROVE  \E h : Kept(h, base, events, T)
<1> DEFINE After(h, i) == IF i = 0 THEN base
                          ELSE IF events[i] \in T THEN Append(h[i - 1], events[i]) ELSE h[i - 1]
           N == {n \in Nat : \E h : \A i \in 0..n : h[i] = After(h, i)}
<1>1. 0 \in N
  <2> DEFINE h == [i \in 0..0 |-> base]
  <2>1. \A i \in 0..0 : i = 0 /\ h[i] = base
      OBVIOUS
  <2>2. \A i \in 0..0 : h[i] = After(h, i)
      BY <2>1
  <2> QED
      BY <2>2
<1>2. ASSUME NEW n \in Nat, n \in N PROVE n + 1 \in N
  <2>1. PICK h : \A i \in 0..n : h[i] = After(h, i)
      BY <1>2
  <2>2. PICK e : e = After(h, n + 1)
      OBVIOUS
  <2>3. PICK g : g = [i \in 0..(n + 1) |-> IF i = n + 1 THEN e ELSE h[i]]
      OBVIOUS
  <2>4. g[n + 1] = e /\ \A i \in 0..n : g[i] = h[i]
      BY <2>3
  <2>5. \A i \in 1..(n + 1) : g[i - 1] = h[i - 1]
      BY <2>4
  <2>6. ASSUME NEW i \in 0..(n + 1) PROVE g[i] = After(g, i)
    <3>1. After(g, i) = After(h, i)
        BY <2>5
    <3>2. CASE i = n + 1
        BY <2>2, <2>4, <3>1, <3>2
    <3>3. CASE i \in 0..n
      <4> HIDE DEF After
      <4> QED
          BY <2>1, <2>4, <3>1, <3>3
    <3> QED
        BY <3>2, <3>3
  <2> HIDE DEF After
  <2> QED
      BY <2>6
<1>3. L \in N
  <2> HIDE DEF N
  <2> QED
      BY <1>1, <1>2, NatSetInduction
<1>4. PICK h : \A i \in 0..L : h[i] = After(h, i)
    BY <1>3
<1>5. PICK g : g = [i \in 0..L |-> After(h, i)]
    OBVIOUS
<1>6. ASSUME NEW i \in 0..L PROVE g[i] = After(g, i)
  <2>1. \A j \in 0..L : g[j] = h[j]
      BY <1>4, <1>5
  <2>2. i # 0 => i - 1 \in 0..L
      OBVIOUS
  <2>3. After(g, i) = After(h, i)
      BY <2>1, <2>2
  <2> HIDE DEF After
  <2> QED
      BY <1>5, <2>3
<1>7. g = [i \in 0..L |-> After(g, i)]
  <2> HIDE DEF After
  <2> QED
      BY <1>5, <1>6
<1> QED
    BY <1>7 DEF Kept

\* What it has are elements it had and events.
LEMMA KeptAre ==
    ASSUME NEW S, NEW base \in Seq(S), NEW events \in Seq(S), NEW T, NEW h,
           Kept(h, base, events, T)
    PROVE  h[Len(events)] \in Seq(S)
<1> DEFINE N == {n \in Nat : n <= Len(events) => h[n] \in Seq(S)}
<1>1. PICK L \in Nat : L = Len(events)
    OBVIOUS
<1>2. 0 \in N
    BY <1>1 DEF Kept
<1>3. ASSUME NEW n \in Nat, n \in N PROVE n + 1 \in N
  <2>1. ASSUME n + 1 <= L PROVE h[n + 1] \in Seq(S)
    <3>1. h[n] \in Seq(S) /\ n + 1 \in 1..L
        BY <1>1, <1>3, <2>1
    <3>2. events[n + 1] \in S
        BY <1>1, <3>1
    <3>3. h[n + 1] = IF events[n + 1] \in T THEN Append(h[n], events[n + 1]) ELSE h[n]
      <4>1. PICK i \in 0..L : i = n + 1 /\ i # 0 /\ i - 1 = n
          BY <3>1
      <4>2. h[i] = IF events[i] \in T THEN Append(h[i - 1], events[i]) ELSE h[i - 1]
          BY <1>1, <4>1 DEF Kept
      <4> QED
          BY <4>1, <4>2
    <3>4. Append(h[n], events[n + 1]) \in Seq(S)
        BY <3>1, <3>2
    <3> QED
        BY <3>1, <3>3, <3>4
  <2> QED
      BY <1>1, <2>1
<1>4. L \in N
  <2> HIDE DEF N
  <2> QED
      BY <1>2, <1>3, NatSetInduction
<1> QED
    BY <1>1, <1>4

\* What holds of the beginning, and of each place if it held of the one before,
\* holds at the end.
LEMMA KeptReaches ==
    ASSUME NEW base, NEW events, NEW L \in Nat, L = Len(events), NEW T, NEW h,
           Kept(h, base, events, T), NEW R, base \in R[0],
           \A i \in 1..L : \A q \in R[i - 1] :
               IF events[i] \in T THEN Append(q, events[i]) \in R[i] ELSE q \in R[i]
    PROVE  h[L] \in R[L]
<1> DEFINE N == {n \in Nat : n <= L => h[n] \in R[n]}
<1>1. 0 \in N
  <2>1. h[0] = base
      BY DEF Kept
  <2> QED
      BY <2>1
<1>2. ASSUME NEW n \in Nat, n \in N PROVE n + 1 \in N
  <2>1. ASSUME n + 1 <= L PROVE h[n + 1] \in R[n + 1]
    <3>1. PICK m : m = n + 1
        OBVIOUS
    <3>2. m \in 1..L /\ m \in 0..L /\ m # 0 /\ m - 1 = n /\ h[m - 1] \in R[m - 1]
        BY <1>2, <2>1, <3>1
    <3>3. h[m] = IF events[m] \in T THEN Append(h[m - 1], events[m]) ELSE h[m - 1]
        BY <3>2 DEF Kept
    <3> QED
        BY <3>1, <3>2, <3>3
  <2> QED
      BY <2>1
<1> HIDE DEF N
<1>3. L \in N
    BY <1>1, <1>2, NatSetInduction
<1> QED
    BY <1>3 DEF N

----------------------------------------------------------------------------

(***************************************************************************)
(* How the helpers change an account.                                      *)
(***************************************************************************)

\* Find, the lookup of every method, returns an order of the heap.
LEMMA FindInClIDs ==
    ASSUME NEW a \in AccountType, NEW k, Known(a, k)
    PROVE  Find(a, k) \in ClIDs /\ Referenced(a, Find(a, k))
BY DEF AccountType, Known, Find, Referenced

\* Put, an assignment through an *Order, changes that order and nothing else.
LEMMA PutShape ==
    ASSUME NEW a \in AccountType, NEW c \in ClIDs, NEW o \in Order
    PROVE  /\ Put(a, c, o) \in AccountType
           /\ Put(a, c, o).ordersClID = a.ordersClID
           /\ Put(a, c, o).ordersID = a.ordersID
           /\ Put(a, c, o).book = a.book
           /\ Put(a, c, o).orders[c] = o
           /\ \A d \in ClIDs \ {c} : Put(a, c, o).orders[d] = a.orders[d]
BY DEF Put, AccountType

\* SetEntry changes one entry of one side of the book.
LEMMA SetEntryShape ==
    ASSUME NEW a \in AccountType, NEW c \in ClIDs, NEW t \in Sides, NEW e \in Entry
    PROVE  /\ SetEntry(a, t, c, e) \in AccountType
           /\ SetEntry(a, t, c, e).ordersClID = a.ordersClID
           /\ SetEntry(a, t, c, e).ordersID = a.ordersID
           /\ SetEntry(a, t, c, e).orders = a.orders
           /\ SetEntry(a, t, c, e).book[t][c] = e
           /\ \A s \in Sides, d \in ClIDs :
                 s # t \/ d # c => SetEntry(a, t, c, e).book[s][d] = a.book[s][d]
<1> DEFINE bk == [a.book EXCEPT ![t][c] = e]
<1>1. /\ bk \in [Sides -> [ClIDs -> Entry]] /\ bk[t][c] = e
      /\ \A s \in Sides, d \in ClIDs : s # t \/ d # c => bk[s][d] = a.book[s][d]
    BY DEF AccountType
<1>2. SetEntry(a, t, c, e) = [a EXCEPT !.book = bk]
    BY DEF SetEntry, AccountType
<1> HIDE DEF bk
<1> QED
    BY <1>1, <1>2, ZenonT(60) DEF AccountType

\* An entry that shows an order, and one whose quantity is the order's leaves, are entries.
LEMMA EntryTypes ==
    /\ Off \in Entry
    /\ \A o \in Order : Showing(o) \in Entry
    /\ \A e \in Entry, o \in Order : [e EXCEPT !.qty = o.leaves] \in Entry
<1>1. Off \in Entry
    BY DEF Off, Entry
<1>2. \A o \in Order : Showing(o) \in Entry
    BY DEF Showing, Entry, Order
<1>3. \A e \in Entry, o \in Order : [e EXCEPT !.qty = o.leaves] \in Entry
    BY DEF Entry, Order
<1> QED
    BY <1>1, <1>2, <1>3

\* An operation of the book that only concerns the entry of order c.
Touches(a, b, c) ==
    /\ b \in AccountType
    /\ b.ordersClID = a.ordersClID /\ b.ordersID = a.ordersID /\ b.orders = a.orders
    /\ \A s \in Sides, d \in ClIDs :
          s # a.orders[c].side \/ d # c => b.book[s][d] = a.book[s][d]

\* Adding an order to the security's book shows a Limit order and nothing else; removing takes it off.
LEMMA BookShapes ==
    ASSUME NEW a \in AccountType, NEW c \in ClIDs
    PROVE  LET o == a.orders[c]
               e == a.book[o.side][c]
           IN
           /\ Touches(a, BookAdd(a, c), c)
           /\ BookAdd(a, c).book[o.side][c] = IF o.type = "Limit" THEN Showing(o) ELSE e
           /\ Touches(a, BookRemove(a, c), c)
           /\ BookRemove(a, c).book[o.side][c] = IF o.type = "Limit" THEN Off ELSE e
           /\ Touches(a, BookUpdate(a, c), c)
           /\ BookUpdate(a, c).book[o.side][c] = IF Rests(a, c) THEN Showing(o) ELSE e
           /\ Touches(a, BookUpdateQuantity(a, c), c)
           /\ BookUpdateQuantity(a, c).book[o.side][c] =
                 IF Rests(a, c) THEN [e EXCEPT !.qty = o.leaves] ELSE e
<1> DEFINE o == a.orders[c]
           e == a.book[o.side][c]
           q == [e EXCEPT !.qty = o.leaves]
<1>1. o \in Order /\ o.side \in Sides /\ e \in Entry
    BY DEF AccountType, Order
<1>2. Off \in Entry /\ Showing(o) \in Entry /\ q \in Entry
    BY <1>1, EntryTypes
<1>3. Touches(a, a, c)
    BY DEF Touches
<1>4. ASSUME NEW n \in Entry
      PROVE  Touches(a, SetEntry(a, o.side, c, n), c)
             /\ SetEntry(a, o.side, c, n).book[o.side][c] = n
    BY <1>1, SetEntryShape, SMTT(30) DEF Touches
<1>shown. /\ Touches(a, SetEntry(a, o.side, c, Showing(o)), c)
          /\ SetEntry(a, o.side, c, Showing(o)).book[o.side][c] = Showing(o)
    BY <1>2, <1>4
<1>off. /\ Touches(a, SetEntry(a, o.side, c, Off), c)
        /\ SetEntry(a, o.side, c, Off).book[o.side][c] = Off
    BY <1>2, <1>4
<1>5. Touches(a, BookAdd(a, c), c)
      /\ BookAdd(a, c).book[o.side][c] = IF o.type = "Limit" THEN Showing(o) ELSE e
    BY <1>3, <1>shown DEF BookAdd
<1>6. Touches(a, BookRemove(a, c), c)
      /\ BookRemove(a, c).book[o.side][c] = IF o.type = "Limit" THEN Off ELSE e
    BY <1>3, <1>off DEF BookRemove
<1>7. Touches(a, BookUpdate(a, c), c)
      /\ BookUpdate(a, c).book[o.side][c] = IF Rests(a, c) THEN Showing(o) ELSE e
    BY <1>3, <1>shown DEF BookUpdate
<1>8. Touches(a, BookUpdateQuantity(a, c), c)
      /\ BookUpdateQuantity(a, c).book[o.side][c] = IF Rests(a, c) THEN q ELSE e
    BY <1>2, <1>3, <1>4 DEF BookUpdateQuantity
<1> QED
    BY <1>5, <1>6, <1>7, <1>8

\* What Stamp, Save and the operators built on them make of an order.
LEMMA StampShape ==
    ASSUME NEW o \in Order, NEW s \in OrderStatus
    PROVE  /\ Stamp(o, s) \in Order /\ Stamp(o, s).status = s
           /\ Stamp(o, s).prev = o.prev
           /\ Stamp(o, s).side = o.side /\ Stamp(o, s).type = o.type
           /\ Stamp(o, s).price = o.price /\ Stamp(o, s).leaves = o.leaves
           /\ Stamp(o, s).id = o.id
BY DEF Stamp, Order

\* Saving a status keeps all the rest of the order and remembers the status it had.
LEMMA SaveShape ==
    ASSUME NEW o \in Order, NEW s \in OrderStatus
    PROVE  /\ Save(o, s) \in Order /\ Save(o, s).status = s
           /\ Save(o, s).prev = o.status
           /\ Save(o, s).side = o.side /\ Save(o, s).type = o.type
           /\ Save(o, s).price = o.price /\ Save(o, s).leaves = o.leaves
           /\ Save(o, s).id = o.id
BY DEF Save, Order
----------------------------------------------------------------------------
(***************************************************************************)
(* What a method has to show.                                              *)
(***************************************************************************)

\* A method that touches one order, its index entries and its resting entry
\* keeps the invariant of the account when it keeps the invariant of that order.
LEMMA OneOrder ==
    ASSUME NEW a, AccountInv(a), NEW c \in ClIDs, NEW b \in AccountType,
           \A d \in ClIDs \ {c} : d \in b.ordersClID <=> d \in a.ordersClID,
           \A d \in ClIDs \ {c}, x \in ExIDs : b.ordersID[x] = d <=> a.ordersID[x] = d,
           \A d \in ClIDs \ {c} : a.orders[d].id \in ExIDs =>
               b.ordersID[a.orders[d].id] = a.ordersID[a.orders[d].id],
           \A d \in ClIDs \ {c} : b.orders[d] = a.orders[d],
           \A s \in Sides, d \in ClIDs \ {c} : b.book[s][d] = a.book[s][d],
           OrderInv(b, c)
    PROVE  AccountInv(b)
<1> SUFFICES ASSUME NEW d \in ClIDs, d # c PROVE OrderInv(b, d)
    BY DEF AccountInv
<1>1. OrderInv(a, d)
    BY DEF AccountInv
<1>2. Referenced(b, d) <=> Referenced(a, d)
    BY DEF Referenced
<1>3. /\ b.orders[d] = a.orders[d]
      /\ \A s \in Sides : b.book[s][d] = a.book[s][d]
      /\ d \in b.ordersClID <=> d \in a.ordersClID
      /\ \A x \in ExIDs : b.ordersID[x] = d <=> a.ordersID[x] = d
    OBVIOUS
<1>4. a.orders[d].side \in Sides /\ a.orders[d].id \in ExIDs \cup {NoID}
    BY DEF AccountInv, AccountType, Order
<1>5. EntryMirrorsOrder(b, d)
    BY <1>1, <1>2, <1>3 DEF OrderInv, EntryMirrorsOrder
<1>6. WorkingOrderRests(b, d)
    BY <1>1, <1>3, <1>4 DEF OrderInv, WorkingOrderRests
<1>7. WorkingOrderHasLeaves(b, d) /\ SavedStatusSound(b, d)
    BY <1>1, <1>3 DEF OrderInv, WorkingOrderHasLeaves, SavedStatusSound
<1>8. ConfirmedIsReachable(b, d)
    BY <1>1, <1>3 DEF OrderInv, ConfirmedIsReachable
<1>9. HeapSound(b, d)
    BY <1>1, <1>2, <1>3, <1>4 DEF OrderInv, HeapSound
<1> QED
    BY <1>5, <1>6, <1>7, <1>8, <1>9 DEF OrderInv

\* The same for a method that leaves both indexes alone.
LEMMA OneOrderSameIndex ==
    ASSUME NEW a, AccountInv(a), NEW c \in ClIDs, NEW b \in AccountType,
           b.ordersClID = a.ordersClID,
           b.ordersID = a.ordersID,
           \A d \in ClIDs \ {c} : b.orders[d] = a.orders[d],
           \A s \in Sides, d \in ClIDs \ {c} : b.book[s][d] = a.book[s][d],
           OrderInv(b, c)
    PROVE  AccountInv(b)
BY OneOrder

\* The part of the invariant that is about the order alone.
Sound(o) ==
    /\ o \in Order /\ o.status # "Blank"
    /\ o.type = "Limit" => o.price # NoPrice
    /\ o.status \in OpenStatus \cup {"PendingNew", "PendingCancel", "PendingReplace"}
          => o.leaves > 0
    /\ o.status = "Filled" => o.leaves = 0
    /\ o.status = "PendingReplace" => o.prev \in OpenStatus
    /\ o.status = "PendingCancel" => o.prev \in CancelableStatus
    /\ o.status = "PendingNew" \/ (o.status = "PendingCancel" /\ o.prev = "PendingNew")
          => o.id = NoID
    /\ Working(o) => o.id # NoID

\* Every order that an index refers to has the parts of the invariant.
LEMMA SoundOrder ==
    ASSUME NEW a, AccountInv(a), NEW c \in ClIDs, Referenced(a, c)
    PROVE  Sound(a.orders[c])
BY DEF AccountInv, OrderInv, HeapSound, SavedStatusSound, WorkingOrderHasLeaves,
       AccountType, Sound

\* The invariant of order c, from its parts.
LEMMA OrderInvFromParts ==
    ASSUME NEW a \in AccountType, NEW c \in ClIDs, Referenced(a, c), Sound(a.orders[c]),
           EntryMirrorsOrder(a, c), WorkingOrderRests(a, c), ConfirmedIsReachable(a, c),
           a.orders[c].id # NoID => a.ordersID[a.orders[c].id] \in {NoID, c}
    PROVE  OrderInv(a, c)
BY DEF OrderInv, Sound, HeapSound, SavedStatusSound, WorkingOrderHasLeaves

\* A method that changes the status of an order that is not closed by it, and
\* leaves the indexes and the book alone.
LEMMA PutInv ==
    ASSUME NEW a, AccountInv(a), NEW c \in ClIDs, Referenced(a, c), NEW o, Sound(o),
           o.status \notin ClosedStatus,
           Working(o) => Working(a.orders[c]),
           o.side = a.orders[c].side, o.type = a.orders[c].type,
           o.price = a.orders[c].price, o.leaves = a.orders[c].leaves,
           o.id = a.orders[c].id
    PROVE  AccountInv(Put(a, c, o))
<1> DEFINE b == Put(a, c, o)
<1>1. a \in AccountType /\ OrderInv(a, c) /\ o \in Order
    BY DEF AccountInv, Sound
<1>2. /\ b \in AccountType /\ b.ordersClID = a.ordersClID
      /\ b.ordersID = a.ordersID /\ b.book = a.book /\ b.orders[c] = o
      /\ \A d \in ClIDs \ {c} : b.orders[d] = a.orders[d]
    BY <1>1, PutShape
<1> HIDE DEF b
<1>3. Referenced(b, c)
    BY <1>2 DEF Referenced
<1>4. EntryMirrorsOrder(b, c)
    BY <1>1, <1>2, <1>3 DEF OrderInv, EntryMirrorsOrder
<1>5. WorkingOrderRests(b, c)
    BY <1>1, <1>2 DEF OrderInv, WorkingOrderRests
<1>6. ConfirmedIsReachable(b, c)
    BY <1>1, <1>2 DEF OrderInv, ConfirmedIsReachable
<1>7. b.orders[c].id # NoID => b.ordersID[b.orders[c].id] \in {NoID, c}
    BY <1>1, <1>2 DEF OrderInv, HeapSound
<1>8. OrderInv(b, c)
    BY <1>2, <1>3, <1>4, <1>5, <1>6, <1>7, OrderInvFromParts
<1>9. AccountInv(b)
    BY <1>2, <1>8, OneOrderSameIndex
<1> QED
    BY <1>9 DEF b

\* A method that closes an order and takes it off the book.
LEMMA CloseInv ==
    ASSUME NEW a, AccountInv(a), NEW c \in ClIDs, Referenced(a, c), NEW o, Sound(o),
           o.status \in ClosedStatus,
           o.side = a.orders[c].side, o.type = a.orders[c].type, o.id = a.orders[c].id
    PROVE  AccountInv(BookRemove(Put(a, c, o), c))
<1> DEFINE p == Put(a, c, o)
           b == BookRemove(p, c)
<1>1. a \in AccountType /\ OrderInv(a, c) /\ o \in Order /\ o.side \in Sides
    BY DEF AccountInv, Sound, Order
<1>2. /\ p \in AccountType /\ p.ordersClID = a.ordersClID
      /\ p.ordersID = a.ordersID /\ p.book = a.book /\ p.orders[c] = o
      /\ \A d \in ClIDs \ {c} : p.orders[d] = a.orders[d]
    BY <1>1, PutShape
<1> HIDE DEF p
<1>3. Touches(p, b, c) /\ b.book[o.side][c] = IF o.type = "Limit" THEN Off ELSE p.book[o.side][c]
    BY <1>2, BookShapes
<1>4. /\ b \in AccountType /\ b.ordersClID = a.ordersClID
      /\ b.ordersID = a.ordersID /\ b.orders[c] = o
      /\ \A d \in ClIDs \ {c} : b.orders[d] = a.orders[d]
      /\ \A s \in Sides, d \in ClIDs \ {c} : b.book[s][d] = a.book[s][d]
      /\ \A s \in Sides : s # o.side => b.book[s][c] = a.book[s][c]
    BY <1>2, <1>3 DEF Touches
<1>5. \A s \in Sides : ~b.book[s][c].on
    BY <1>1, <1>2, <1>3, <1>4 DEF OrderInv, EntryMirrorsOrder, Off
<1> HIDE DEF b
<1>6. Referenced(b, c)
    BY <1>4 DEF Referenced
<1>7. EntryMirrorsOrder(b, c) /\ WorkingOrderRests(b, c)
    BY <1>4, <1>5 DEF EntryMirrorsOrder, WorkingOrderRests, Working, ClosedStatus, OpenStatus
<1>8. ConfirmedIsReachable(b, c)
      /\ (b.orders[c].id # NoID => b.ordersID[b.orders[c].id] \in {NoID, c})
    BY <1>1, <1>4 DEF OrderInv, ConfirmedIsReachable, HeapSound
<1>9. OrderInv(b, c)
    BY <1>4, <1>6, <1>7, <1>8, OrderInvFromParts
<1>10. AccountInv(b)
    BY <1>4, <1>9, OneOrderSameIndex
<1> QED
    BY <1>10 DEF b, p

\* A method that changes an order and shows the change in its entry, if it has
\* one.
LEMMA ShowInv ==
    ASSUME NEW a, AccountInv(a), NEW c \in ClIDs, Referenced(a, c), NEW o, Sound(o), NEW b,
           Touches(Put(a, c, o), b, c),
           o.side = a.orders[c].side, o.type = a.orders[c].type,
           b.book[o.side][c].on = a.book[o.side][c].on,
           b.book[o.side][c].on => /\ o.status \notin ClosedStatus
                                   /\ b.book[o.side][c].price = o.price
                                   /\ b.book[o.side][c].qty = o.leaves,
           Working(o) => Working(a.orders[c]),
           o.id # NoID <=> a.orders[c].id # NoID,
           o.id # NoID => a.ordersID[o.id] \in {NoID, c}
    PROVE  AccountInv(b)
<1> DEFINE p == Put(a, c, o)
<1>1. a \in AccountType /\ OrderInv(a, c) /\ o \in Order /\ o.side \in Sides
    BY DEF AccountInv, Sound, Order
<1>2. /\ p.ordersClID = a.ordersClID
      /\ p.ordersID = a.ordersID /\ p.book = a.book /\ p.orders[c] = o
      /\ \A d \in ClIDs \ {c} : p.orders[d] = a.orders[d]
    BY <1>1, PutShape
<1> HIDE DEF p
<1>3. /\ b \in AccountType /\ b.ordersClID = a.ordersClID
      /\ b.ordersID = a.ordersID /\ b.orders[c] = o
      /\ \A d \in ClIDs \ {c} : b.orders[d] = a.orders[d]
      /\ \A s \in Sides, d \in ClIDs \ {c} : b.book[s][d] = a.book[s][d]
      /\ \A s \in Sides : s # o.side => b.book[s][c] = a.book[s][c]
    BY <1>2 DEF Touches, p
<1>4. Referenced(b, c)
    BY <1>3, SMTT(30) DEF Referenced
<1>5. EntryMirrorsOrder(b, c)
    BY <1>1, <1>3, <1>4 DEF OrderInv, EntryMirrorsOrder
<1>6. WorkingOrderRests(b, c)
    BY <1>1, <1>3 DEF OrderInv, WorkingOrderRests
<1>7. ConfirmedIsReachable(b, c)
    BY <1>1, <1>3 DEF OrderInv, ConfirmedIsReachable
<1>8. OrderInv(b, c)
    BY <1>3, <1>4, <1>5, <1>6, <1>7, OrderInvFromParts
<1> QED
    BY <1>3, <1>8, OneOrderSameIndex
----------------------------------------------------------------------------
(***************************************************************************)
(* One lemma per method.                                                   *)
(***************************************************************************)

\* NewOrder: no index refers to c yet, so it has no resting entry either.
LEMMA NewOrderInv ==
    ASSUME NEW a, AccountInv(a), NEW c \in ClIDs, NEW side \in Sides, NEW type \in Types,
           NEW price \in Prices \cup {NoPrice}, NEW qty \in Lots,
           ~NewOrderRejected(a, c, type, price), ~Referenced(a, c)
    PROVE  AccountInv(NewOrder(a, c, side, type, price, qty))
<1> DEFINE o == Submitted(side, type, price, qty)
           p == Put(a, c, o)
           b == [p EXCEPT !.ordersClID = @ \cup {c}]
<1>1. a \in AccountType /\ OrderInv(a, c)
    BY DEF AccountInv
<1>2. Sound(o) /\ o.status = "PendingNew" /\ o.id = NoID
    BY AccountConstants
       DEF Submitted, Sound, Order, OrderStatus, PendingStatus, OpenStatus, Working,
           Lots, NewOrderRejected
<1>3. o \in Order
    BY <1>2 DEF Sound
<1>4. /\ p \in AccountType /\ p.ordersClID = a.ordersClID
      /\ p.ordersID = a.ordersID /\ p.book = a.book /\ p.orders[c] = o
      /\ \A d \in ClIDs \ {c} : p.orders[d] = a.orders[d]
    BY <1>1, <1>3, PutShape
<1> HIDE DEF p, o
<1>5. /\ b \in AccountType /\ b.ordersClID = a.ordersClID \cup {c}
      /\ b.ordersID = a.ordersID /\ b.book = a.book /\ b.orders[c] = o
      /\ \A d \in ClIDs \ {c} : b.orders[d] = a.orders[d]
    BY <1>4 DEF AccountType
<1>6. b = NewOrder(a, c, side, type, price, qty)
    BY DEF NewOrder, p, o
<1> HIDE DEF b
<1>7. \A s \in Sides : ~b.book[s][c].on
    BY <1>1, <1>5 DEF OrderInv, EntryMirrorsOrder
<1>8. Referenced(b, c)
    BY <1>5 DEF Referenced
<1>9. EntryMirrorsOrder(b, c)
    BY <1>7 DEF EntryMirrorsOrder
<1>10. WorkingOrderRests(b, c)
    BY <1>2, <1>5 DEF WorkingOrderRests, Working, OpenStatus
<1>11. ConfirmedIsReachable(b, c)
    BY <1>2, <1>5 DEF ConfirmedIsReachable
<1>12. OrderInv(b, c)
    BY <1>2, <1>5, <1>8, <1>9, <1>10, <1>11, OrderInvFromParts
<1> QED
    BY <1>5, <1>6, <1>12, OneOrder

\* ConfirmNewOrder: the exchange id must not belong to another order.
LEMMA ConfirmNewOrderInv ==
    ASSUME NEW a, AccountInv(a), NEW c \in ClIDs, NEW x \in ExIDs, NEW qty \in 0..MaxLots,
           ~ConfirmNewOrderError(a, c),
           a.ordersID[x] \in {NoID, c}, \A d \in ClIDs \ {c} : a.orders[d].id # x
    PROVE  AccountInv(ConfirmNewOrder(a, c, x, qty))
<1>1. CASE a.orders[c].status # "PendingNew"
    BY <1>1 DEF ConfirmNewOrder
<1>2. CASE a.orders[c].status = "PendingNew"
  <2> DEFINE o == Confirmed(a.orders[c], x, qty)
             q == Put(a, c, o)
             p == [q EXCEPT !.ordersID[x] = c]
             b == BookAdd(p, c)
  <2>1. /\ a \in AccountType /\ OrderInv(a, c) /\ c \in a.ordersClID
        /\ a.orders[c] \in Order /\ qty \in Nat
      BY AccountConstants DEF AccountInv, ConfirmNewOrderError, AccountType
  <2>2. Sound(a.orders[c])
      BY <2>1, SoundOrder DEF Referenced
  <2>3. /\ o \in Order /\ o.status = "New" /\ o.id = x /\ o.price = a.orders[c].price
        /\ o.side = a.orders[c].side /\ o.type = a.orders[c].type /\ o.side \in Sides
        /\ o.leaves = IF qty = 0 THEN a.orders[c].leaves ELSE qty
      BY <2>1, ZenonT(60) DEF Confirmed, Stamp, Order, OrderStatus, OpenStatus
  <2>4. Sound(o)
      BY <1>2, <2>1, <2>2, <2>3, AccountConstants DEF Sound, Order, Working, OpenStatus
  <2>5. /\ q \in AccountType /\ q.ordersClID = a.ordersClID
        /\ q.ordersID = a.ordersID /\ q.book = a.book /\ q.orders[c] = o
        /\ \A d \in ClIDs \ {c} : q.orders[d] = a.orders[d]
      BY <2>1, <2>3, PutShape
  <2> HIDE DEF q, o
  <2>6. /\ p \in AccountType /\ p.ordersClID = a.ordersClID
        /\ p.ordersID = [a.ordersID EXCEPT ![x] = c] /\ p.book = a.book /\ p.orders[c] = o
        /\ \A d \in ClIDs \ {c} : p.orders[d] = a.orders[d]
      BY <2>5 DEF AccountType
  <2> HIDE DEF p
  <2>7. Touches(p, b, c)
        /\ b.book[o.side][c] = IF o.type = "Limit" THEN Showing(o) ELSE p.book[o.side][c]
      BY <2>6, BookShapes
  <2> HIDE DEF b
  <2>8. /\ b \in AccountType /\ b.ordersClID = a.ordersClID
        /\ b.ordersID = [a.ordersID EXCEPT ![x] = c] /\ b.orders[c] = o
        /\ \A d \in ClIDs \ {c} : b.orders[d] = a.orders[d]
        /\ \A s \in Sides, d \in ClIDs \ {c} : b.book[s][d] = a.book[s][d]
        /\ \A s \in Sides : s # o.side => b.book[s][c] = a.book[s][c]
      BY <2>6, <2>7 DEF Touches
  <2>9. Referenced(b, c) /\ b.ordersID[x] = c
      BY <2>1, <2>8 DEF Referenced, AccountType
  <2>10. EntryMirrorsOrder(b, c)
      BY <1>2, <2>1, <2>2, <2>3, <2>6, <2>7, <2>8, <2>9, AccountConstants
         DEF OrderInv, EntryMirrorsOrder, ClosedStatus, Sound, Showing
  <2>11. WorkingOrderRests(b, c)
      BY <2>7, <2>8 DEF WorkingOrderRests, Showing
  <2>12. ConfirmedIsReachable(b, c)
      BY <2>9 DEF ConfirmedIsReachable
  <2>13. OrderInv(b, c)
      BY <2>3, <2>4, <2>8, <2>9, <2>10, <2>11, <2>12, OrderInvFromParts
  <2>14. /\ \A d \in ClIDs \ {c}, y \in ExIDs : b.ordersID[y] = d <=> a.ordersID[y] = d
         /\ \A d \in ClIDs \ {c} : a.orders[d].id \in ExIDs =>
               b.ordersID[a.orders[d].id] = a.ordersID[a.orders[d].id]
      BY <2>1, <2>8, AccountConstants DEF AccountType
  <2>15. /\ b \in AccountType
         /\ \A d \in ClIDs \ {c} : d \in b.ordersClID <=> d \in a.ordersClID
         /\ \A d \in ClIDs \ {c} : b.orders[d] = a.orders[d]
         /\ \A s \in Sides, d \in ClIDs \ {c} : b.book[s][d] = a.book[s][d]
      BY <2>8
  <2>16. AccountInv(b)
      BY <2>13, <2>14, <2>15, OneOrder
  <2> QED
      BY <1>2, <2>16 DEF ConfirmNewOrder, b, p, q, o
<1> QED
    BY <1>1, <1>2

\* ReplaceOrder, CancelOrder, PendingFilled: the status is saved.
LEMMA ReplaceOrderInv ==
    ASSUME NEW a, AccountInv(a), NEW k, ~ReplaceOrderRejected(a, k),
           NEW price \in Prices \cup {NoPrice}, NEW qty \in 0..MaxLots
    PROVE  AccountInv(ReplaceOrder(a, k, price, qty))
<1> DEFINE c == Find(a, k)
           s == Save(a.orders[c], "PendingReplace")
           o == [s EXCEPT !.amendPrice = price, !.amendQty = qty]
<1>1. a \in AccountType /\ Known(a, k) /\ a.orders[c].status \in OpenStatus
    BY DEF AccountInv, ReplaceOrderRejected
<1>2. c \in ClIDs /\ Referenced(a, c)
    BY <1>1, FindInClIDs
<1>3. Sound(a.orders[c])
    BY <1>2, SoundOrder
<1> HIDE DEF c
<1>4. /\ s \in Order /\ s.status = "PendingReplace" /\ s.prev = a.orders[c].status
      /\ s.side = a.orders[c].side /\ s.type = a.orders[c].type
      /\ s.price = a.orders[c].price /\ s.leaves = a.orders[c].leaves /\ s.id = a.orders[c].id
    BY <1>3, SaveShape DEF Sound, OrderStatus, PendingStatus
<1> HIDE DEF s
<1>5. /\ o \in Order /\ o.status = s.status /\ o.prev = s.prev /\ o.side = s.side
      /\ o.type = s.type /\ o.price = s.price /\ o.leaves = s.leaves /\ o.id = s.id
    BY <1>4 DEF Order
<1> HIDE DEF o
<1>6. Sound(o) /\ (Working(o) => Working(a.orders[c])) /\ o.status \notin ClosedStatus
    BY <1>1, <1>3, <1>4, <1>5 DEF Sound, Working, OpenStatus, ClosedStatus
<1>7. AccountInv(Put(a, c, o))
    BY <1>2, <1>4, <1>5, <1>6, PutInv
<1> QED
    BY <1>7 DEF ReplaceOrder, c, s, o

\* CancelOrder keeps the invariant: the status it saves is one that a cancel is allowed from.
LEMMA CancelOrderInv ==
    ASSUME NEW a, AccountInv(a), NEW k, ~CancelOrderRejected(a, k)
    PROVE  AccountInv(CancelOrder(a, k))
<1> DEFINE c == Find(a, k)
           o == Save(a.orders[c], "PendingCancel")
<1>1. a \in AccountType /\ Known(a, k) /\ a.orders[c].status \in CancelableStatus
    BY DEF AccountInv, CancelOrderRejected
<1>2. c \in ClIDs /\ Referenced(a, c)
    BY <1>1, FindInClIDs
<1>3. Sound(a.orders[c])
    BY <1>2, SoundOrder
<1> HIDE DEF c
<1>4. /\ o \in Order /\ o.status = "PendingCancel" /\ o.prev = a.orders[c].status
      /\ o.side = a.orders[c].side /\ o.type = a.orders[c].type
      /\ o.price = a.orders[c].price /\ o.leaves = a.orders[c].leaves /\ o.id = a.orders[c].id
    BY <1>3, SaveShape DEF Sound, OrderStatus, PendingStatus
<1> HIDE DEF o
<1>5. Sound(o) /\ (Working(o) => Working(a.orders[c])) /\ o.status \notin ClosedStatus
    BY <1>1, <1>3, <1>4 DEF Sound, Working, OpenStatus, ClosedStatus, CancelableStatus
<1>6. AccountInv(Put(a, c, o))
    BY <1>2, <1>4, <1>5, PutInv
<1> QED
    BY <1>6 DEF CancelOrder, c, o

\* PendingFilled keeps the invariant.
LEMMA PendingFilledInv ==
    ASSUME NEW a, AccountInv(a), NEW k, Known(a, k)
    PROVE  AccountInv(PendingFilled(a, k))
<1> DEFINE c == Find(a, k)
           o == Save(a.orders[c], "PendingFilled")
<1>1. c \in ClIDs /\ Referenced(a, c)
    BY FindInClIDs DEF AccountInv
<1>2. Sound(a.orders[c])
    BY <1>1, SoundOrder
<1> HIDE DEF c
<1>3. /\ o \in Order /\ o.status = "PendingFilled" /\ o.prev = a.orders[c].status
      /\ o.side = a.orders[c].side /\ o.type = a.orders[c].type
      /\ o.price = a.orders[c].price /\ o.leaves = a.orders[c].leaves /\ o.id = a.orders[c].id
    BY <1>2, SaveShape DEF Sound, OrderStatus, PendingStatus
<1> HIDE DEF o
<1>4. Sound(o) /\ ~Working(o) /\ o.status \notin ClosedStatus
    BY <1>2, <1>3 DEF Sound, Working, OpenStatus, ClosedStatus
<1>5. AccountInv(Put(a, c, o))
    BY <1>1, <1>3, <1>4, PutInv
<1> QED
    BY <1>5 DEF PendingFilled, c, o

\* RejectReplaceOrder, RejectCancelOrder: the saved status comes back.
LEMMA RejectReplaceOrderInv ==
    ASSUME NEW a, AccountInv(a), NEW k, Known(a, k)
    PROVE  AccountInv(RejectReplaceOrder(a, k))
<1> DEFINE c == Find(a, k)
           o == Stamp(a.orders[c], a.orders[c].prev)
<1>1. c \in ClIDs /\ Referenced(a, c)
    BY FindInClIDs DEF AccountInv
<1>2. Sound(a.orders[c])
    BY <1>1, SoundOrder
<1> HIDE DEF c
<1>3. CASE a.orders[c].status = "PendingReplace"
  <2>1. a.orders[c].prev \in OpenStatus
      BY <1>2, <1>3 DEF Sound
  <2>2. /\ o \in Order /\ o.status = a.orders[c].prev /\ o.prev = a.orders[c].prev
        /\ o.side = a.orders[c].side /\ o.type = a.orders[c].type
        /\ o.price = a.orders[c].price /\ o.leaves = a.orders[c].leaves
        /\ o.id = a.orders[c].id
      BY <1>2, <2>1, StampShape DEF Sound, OrderStatus
  <2> HIDE DEF o
  <2>3. /\ Sound(o) /\ (Working(o) => Working(a.orders[c])) /\ o.status \notin ClosedStatus
      BY <1>2, <1>3, <2>1, <2>2 DEF Sound, Working, OpenStatus, ClosedStatus
  <2>4. AccountInv(Put(a, c, o))
      BY <1>1, <2>2, <2>3, PutInv
  <2> QED
      BY <1>3, <2>4 DEF RejectReplaceOrder, c, o
<1>4. CASE a.orders[c].status # "PendingReplace"
    BY <1>4 DEF RejectReplaceOrder, c
<1> QED
    BY <1>3, <1>4

\* RejectCancelOrder keeps the invariant: the status it restores suits the leaves.
LEMMA RejectCancelOrderInv ==
    ASSUME NEW a, AccountInv(a), NEW k, Known(a, k), NEW unknownOrder \in BOOLEAN
    PROVE  AccountInv(RejectCancelOrder(a, k, unknownOrder))
<1> DEFINE c == Find(a, k)
           o == CancelRejected(a.orders[c], unknownOrder)
<1>1. c \in ClIDs /\ Referenced(a, c)
    BY FindInClIDs DEF AccountInv
<1>2. Sound(a.orders[c])
    BY <1>1, SoundOrder
<1> HIDE DEF c
<1>3. CASE a.orders[c].status = "PendingCancel"
  <2>1. a.orders[c].prev \in CancelableStatus
      BY <1>2, <1>3 DEF Sound
  <2>2. /\ o \in Order /\ o.prev = a.orders[c].prev
        /\ o.status \in {a.orders[c].status, a.orders[c].prev}
        /\ o.side = a.orders[c].side /\ o.type = a.orders[c].type
        /\ o.price = a.orders[c].price /\ o.leaves = a.orders[c].leaves
        /\ o.id = a.orders[c].id
    <3> DEFINE m == MissedFill(a.orders[c], unknownOrder)
               n == IF unknownOrder THEN a.orders[c].unknown + 1 ELSE a.orders[c].unknown
               t == IF m THEN a.orders[c].status ELSE a.orders[c].prev
               u == a.orders[c].stale /\ m
    <3>1. u \in BOOLEAN
        OBVIOUS
    <3>2. o = [a.orders[c] EXCEPT !.unknown = n, !.status = t, !.stale = u]
        BY DEF CancelRejected
    <3>3. t \in {a.orders[c].status, a.orders[c].prev}
        OBVIOUS
    <3>4. a.orders[c] \in Order /\ n \in Nat
        BY <1>2 DEF Sound, Order
    <3> HIDE DEF u, t, n, m
    <3>5. t \in OrderStatus \cup {"Blank"}
        BY <3>3, <3>4 DEF Order
    <3>6. PICK r \in Order : r = a.orders[c]
        BY <3>4
    <3>7. o = [r EXCEPT !.unknown = n, !.status = t, !.stale = u]
        BY <3>2, <3>6
    <3>8. PICK w : w = o
        OBVIOUS
    <3>9. w = [r EXCEPT !.unknown = n, !.status = t, !.stale = u]
        BY <3>7, <3>8
    <3>10. /\ w \in Order /\ w.prev = r.prev /\ w.status = t
           /\ w.side = r.side /\ w.type = r.type
           /\ w.price = r.price /\ w.leaves = r.leaves /\ w.id = r.id
      <4> HIDE DEF o
      <4> QED
          BY <3>1, <3>4, <3>5, <3>9 DEF Order
    <3> QED
        BY <3>3, <3>6, <3>8, <3>10
  <2> HIDE DEF o
  <2>3. /\ Sound(o) /\ (Working(o) => Working(a.orders[c])) /\ o.status \notin ClosedStatus
      BY <1>2, <1>3, <2>1, <2>2
         DEF Sound, Working, OpenStatus, ClosedStatus, CancelableStatus
  <2>4. AccountInv(Put(a, c, o))
      BY <1>1, <2>2, <2>3, PutInv
  <2> QED
      BY <1>3, <2>4 DEF RejectCancelOrder, c, o
<1>4. CASE a.orders[c].status # "PendingCancel"
    BY <1>4 DEF RejectCancelOrder, c
<1> QED
    BY <1>3, <1>4

\* ConfirmCancelOrder, ConfirmExpiredOrder: the order is closed.
LEMMA ConfirmCancelOrderInv ==
    ASSUME NEW a, AccountInv(a), NEW k, Known(a, k)
    PROVE  AccountInv(ConfirmCancelOrder(a, k))
<1> DEFINE c == Find(a, k)
           o == Stamp(a.orders[c], "Canceled")
<1>1. c \in ClIDs /\ Referenced(a, c)
    BY FindInClIDs DEF AccountInv
<1>2. Sound(a.orders[c])
    BY <1>1, SoundOrder
<1> HIDE DEF c
<1>3. /\ o \in Order /\ o.status = "Canceled" /\ o.prev = a.orders[c].prev
      /\ o.side = a.orders[c].side /\ o.type = a.orders[c].type
      /\ o.price = a.orders[c].price /\ o.id = a.orders[c].id
    BY <1>2, StampShape DEF Sound, OrderStatus, ClosedStatus
<1> HIDE DEF o
<1>4. Sound(o) /\ o.status \in ClosedStatus
    BY <1>2, <1>3 DEF Sound, Working, OpenStatus, ClosedStatus
<1>5. AccountInv(BookRemove(Put(a, c, o), c))
    BY <1>1, <1>3, <1>4, CloseInv
<1> QED
    BY <1>5 DEF ConfirmCancelOrder, c, o

\* ConfirmExpiredOrder keeps the invariant: the order leaves the book as it closes.
LEMMA ConfirmExpiredOrderInv ==
    ASSUME NEW a, AccountInv(a), NEW k, Known(a, k)
    PROVE  AccountInv(ConfirmExpiredOrder(a, k))
<1> DEFINE c == Find(a, k)
           o == [Stamp(a.orders[c], "Expired") EXCEPT !.leaves = 0]
<1>1. c \in ClIDs /\ Referenced(a, c)
    BY FindInClIDs DEF AccountInv
<1>2. Sound(a.orders[c])
    BY <1>1, SoundOrder
<1> HIDE DEF c
<1>3. /\ o \in Order /\ o.status = "Expired" /\ o.prev = a.orders[c].prev
      /\ o.side = a.orders[c].side /\ o.type = a.orders[c].type
      /\ o.price = a.orders[c].price /\ o.id = a.orders[c].id
    BY <1>2, ZenonT(60) DEF Stamp, Order, Sound, OrderStatus, ClosedStatus
<1> HIDE DEF o
<1>4. Sound(o) /\ o.status \in ClosedStatus
    BY <1>2, <1>3 DEF Sound, Working, OpenStatus, ClosedStatus
<1>5. AccountInv(BookRemove(Put(a, c, o), c))
    BY <1>1, <1>3, <1>4, CloseInv
<1> QED
    BY <1>5 DEF ConfirmExpiredOrder, c, o

\* ConfirmReplaceOrder, with and without a new exchange id.  A new id must not
\* belong to another order.
LEMMA ConfirmReplaceOrderInv ==
    ASSUME NEW a, AccountInv(a), NEW k, ~NotPendingReplace(a, k),
           NEW newID \in ExIDs \cup {NoID},
           newID # NoID => a.ordersID[newID] \in {NoID, Find(a, k)}
    PROVE  AccountInv(ConfirmReplaceOrder(a, k, newID))
<1> DEFINE c == Find(a, k)
           r == a.orders[c]
<1>1. a \in AccountType /\ Known(a, k) /\ r.status = "PendingReplace"
    BY DEF AccountInv, NotPendingReplace
<1>2. c \in ClIDs /\ Referenced(a, c)
    BY <1>1, FindInClIDs
<1>3. Sound(r) /\ r.prev \in OpenStatus /\ r \in Order /\ Working(r) /\ r.id # NoID
    BY <1>1, <1>2, SoundOrder DEF Sound, Working
<1>4. OrderInv(a, c)
    BY <1>2 DEF AccountInv
<1> HIDE DEF c
<1> DEFINE o == AmendedQuantity(r)
<1>5. /\ o \in Order /\ o.status = r.prev /\ o.prev = r.prev /\ o.side = r.side
      /\ o.type = r.type /\ o.price = r.price /\ o.id = r.id /\ o.leaves > 0
      /\ o.amendPrice = r.amendPrice
  <2>1. /\ Stamp(r, r.prev) \in Order /\ Stamp(r, r.prev).status = r.prev
        /\ Stamp(r, r.prev).amendPrice = r.amendPrice
        /\ Stamp(r, r.prev).prev = r.prev /\ Stamp(r, r.prev).side = r.side
        /\ Stamp(r, r.prev).type = r.type /\ Stamp(r, r.prev).price = r.price
        /\ Stamp(r, r.prev).id = r.id
      BY <1>3 DEF Stamp, Order, OrderStatus
  <2>2. /\ r.amendQty \in 0..MaxLots /\ r.leaves \in Nat /\ r.leaves > 0 /\ MaxLots \in Nat
      BY <1>1, <1>3, AccountConstants DEF Order, Sound
  <2> QED
    <3> DEFINE w == Stamp(r, r.prev)
               l == IF r.amendQty = 0 THEN r.leaves ELSE r.amendQty
    <3>1. o = [w EXCEPT !.leaves = l, !.amendQty = 0]
        BY DEF AmendedQuantity
    <3>2. l \in Nat /\ l > 0 /\ 0 \in 0..MaxLots
        BY <2>2
    <3> HIDE DEF l
    <3> QED
        BY <2>1, <3>1, <3>2 DEF Order
<1> HIDE DEF o
<1>6. CASE ReplacePriceError(a, k)
  <2>1. r.price = NoPrice
      BY <1>6 DEF ReplacePriceError, c
  <2>2. Sound(o)
      BY <1>3, <1>5 DEF Sound, OpenStatus, Working
  <2>3. ~a.book[o.side][c].on
      BY <1>3, <1>4, <1>5, <2>1 DEF OrderInv, EntryMirrorsOrder, Sound, Order
  <2>4. Touches(Put(a, c, o), Put(a, c, o), c) /\ Put(a, c, o).book = a.book
      BY <1>1, <1>2, <1>5, PutShape DEF Touches
  <2>5. o.id # NoID => a.ordersID[o.id] \in {NoID, c}
      BY <1>4, <1>5 DEF OrderInv, HeapSound
  <2>6. AccountInv(Put(a, c, o))
      BY <1>2, <1>3, <1>5, <2>2, <2>3, <2>4, <2>5, ShowInv
  <2> QED
      BY <1>6, <2>6 DEF ConfirmReplaceOrder, o, c
<1>7. CASE ~ReplacePriceError(a, k)
  <2> DEFINE n == Amended(r, newID)
             b == BookUpdate(Put(a, c, n), c)
  <2>1. /\ n \in Order /\ n.status = r.prev /\ n.prev = r.prev /\ n.side = r.side
        /\ n.type = r.type /\ n.leaves > 0
        /\ n.price = (IF r.amendPrice = NoPrice THEN r.price ELSE r.amendPrice)
        /\ n.id = (IF newID = NoID THEN r.id ELSE newID)
    <3> DEFINE p == IF r.amendPrice = NoPrice THEN r.price ELSE r.amendPrice
               x == IF newID = NoID THEN r.id ELSE newID
    <3>1. n = [o EXCEPT !.price = p, !.amendPrice = NoPrice, !.id = x]
        BY DEF Amended, o
    <3>2. /\ p \in Prices \cup {NoPrice} /\ x \in ExIDs \cup {NoID}
          /\ NoPrice \in Prices \cup {NoPrice}
        BY <1>3 DEF Order
    <3> HIDE DEF p, x, n
    <3>3. n \in Order /\ n.price = p /\ n.id = x
        BY <1>5, <3>1, <3>2 DEF Order
    <3>4. /\ n.status = o.status /\ n.prev = o.prev /\ n.side = o.side /\ n.type = o.type
          /\ n.leaves = o.leaves
        BY <1>5, <3>1 DEF Order
    <3> QED
        BY <1>5, <3>3, <3>4 DEF p, x
  <2> HIDE DEF n
  <2>2. Sound(n)
      BY <1>3, <2>1 DEF Sound, OpenStatus, Working
  <2>3. /\ Put(a, c, n) \in AccountType /\ Put(a, c, n).book = a.book
        /\ Put(a, c, n).orders[c] = n
      BY <1>1, <1>2, <2>1, PutShape
  <2>4. /\ Touches(Put(a, c, n), b, c)
        /\ b.book[n.side][c] =
             IF Rests(Put(a, c, n), c) THEN Showing(n) ELSE a.book[n.side][c]
      BY <1>2, <2>3, BookShapes
  <2>5. a.book[n.side][c].on => n.type = "Limit"
      BY <1>3, <1>4, <2>1 DEF OrderInv, EntryMirrorsOrder, Order
  <2>6. Rests(Put(a, c, n), c) <=> n.type = "Limit" /\ a.book[n.side][c].on
      BY <2>3 DEF Rests
  <2>7. a.book[n.side][c] \in Entry
      BY <1>1, <1>2, <2>1 DEF AccountType, Order
  <2>8. /\ b.book[n.side][c].on = a.book[n.side][c].on
        /\ b.book[n.side][c].on => /\ n.status \notin ClosedStatus
                                   /\ b.book[n.side][c].price = n.price
                                   /\ b.book[n.side][c].qty = n.leaves
    <3> HIDE DEF b
    <3>1. n.status \notin ClosedStatus
        BY <1>3, <2>1 DEF OpenStatus, ClosedStatus
    <3>2. CASE Rests(Put(a, c, n), c)
      <4>1. a.book[n.side][c].on = TRUE
          BY <2>6, <2>7, <3>2 DEF Entry
      <4>2. /\ b.book[n.side][c].on = TRUE /\ b.book[n.side][c].price = n.price
            /\ b.book[n.side][c].qty = n.leaves
          BY <2>4, <3>2 DEF Showing
      <4> QED
          BY <3>1, <4>1, <4>2
    <3>3. CASE ~Rests(Put(a, c, n), c)
        BY <2>4, <2>5, <2>6, <3>3
    <3> QED
        BY <3>2, <3>3
  <2>9. n.id # NoID /\ a.ordersID[n.id] \in {NoID, c}
      BY <1>3, <1>4, <2>1, SMTT(30) DEF OrderInv, HeapSound, c
  <2> HIDE DEF b
  <2>10. AccountInv(b)
      BY <1>2, <1>3, <2>1, <2>2, <2>4, <2>8, <2>9, ShowInv
  <2> QED
      BY <1>7, <2>10 DEF ConfirmReplaceOrder, b, n, c
<1> QED
    BY <1>6, <1>7

\* ConfirmFill, on an order of any status.
LEMMA ConfirmFillInv ==
    ASSUME NEW a, AccountInv(a), NEW k, NEW qty \in Lots, ~ConfirmFillError(a, k, qty)
    PROVE  AccountInv(ConfirmFill(a, k, qty))
<1> DEFINE c == Find(a, k)
           r == a.orders[c]
           o == Filled(r, qty)
           p == Put(a, c, o)
<1>1. a \in AccountType /\ Known(a, k) /\ ~(qty > r.leaves)
    BY DEF AccountInv, ConfirmFillError
<1>2. c \in ClIDs /\ Referenced(a, c)
    BY <1>1, FindInClIDs
<1>3. Sound(r) /\ r \in Order /\ qty \in Nat /\ qty > 0 /\ qty <= r.leaves /\ r.leaves \in Nat
    BY <1>1, <1>2, SoundOrder, AccountConstants DEF Sound, Order, Lots
<1>4. OrderInv(a, c)
    BY <1>2 DEF AccountInv
<1> HIDE DEF c
<1>5. FillStatus(r, qty) \in OrderStatus
    BY <1>3 DEF FillStatus, Sound, Order, OrderStatus, OpenStatus, ClosedStatus
<1>6. /\ o \in Order /\ o.status = FillStatus(r, qty) /\ o.prev = r.prev /\ o.side = r.side
      /\ o.type = r.type /\ o.price = r.price /\ o.id = r.id /\ o.leaves = r.leaves - qty
  <2> DEFINE w == Stamp(r, FillStatus(r, qty))
             l == r.leaves - qty
             m == r.cum + qty
  <2>1. o = [w EXCEPT !.leaves = l, !.cum = m]
      BY DEF Filled
  <2>2. /\ w \in Order /\ w.status = FillStatus(r, qty) /\ w.prev = r.prev
        /\ w.side = r.side /\ w.type = r.type /\ w.price = r.price /\ w.id = r.id
      BY <1>3, <1>5, StampShape
  <2>3. l \in Nat /\ m \in Nat /\ l = r.leaves - qty
      BY <1>3 DEF Order
  <2> HIDE DEF w, l, m
  <2> QED
      BY <2>1, <2>2, <2>3 DEF Order
<1> HIDE DEF o
<1>7. Sound(o) /\ (Working(o) => Working(r))
    BY <1>3, <1>5, <1>6
       DEF Sound, FillStatus, Working, OpenStatus, PendingStatus, ClosedStatus
<1>8. p \in AccountType /\ p.book = a.book /\ p.orders[c] = o
    BY <1>1, <1>2, <1>6, PutShape
<1>9. CASE o.status = "Filled"
  <2>1. AccountInv(BookRemove(p, c))
      BY <1>2, <1>6, <1>7, <1>9, CloseInv DEF ClosedStatus
  <2> QED
      BY <1>8, <1>9, <2>1 DEF ConfirmFill, o, c
<1>10. CASE o.status # "Filled"
  <2> DEFINE b == BookUpdateQuantity(p, c)
             e == a.book[o.side][c]
  <2>1. /\ Touches(p, b, c)
        /\ b.book[o.side][c] = IF Rests(p, c) THEN [e EXCEPT !.qty = o.leaves] ELSE e
      BY <1>2, <1>8, BookShapes
  <2>2. e \in Entry /\ o.side \in Sides
      BY <1>1, <1>2, <1>6 DEF AccountType, Order
  <2>3. e.on => /\ o.type = "Limit" /\ r.status \notin ClosedStatus /\ e.price = o.price
      BY <1>4, <1>6, <2>2 DEF OrderInv, EntryMirrorsOrder
  <2>4. Rests(p, c) <=> o.type = "Limit" /\ e.on
      BY <1>8 DEF Rests
  <2>5. r.status \notin ClosedStatus => o.status \notin ClosedStatus
      BY <1>6, <1>10 DEF FillStatus, ClosedStatus
  <2>6. /\ b.book[o.side][c].on = e.on
        /\ b.book[o.side][c].on => /\ o.status \notin ClosedStatus
                                   /\ b.book[o.side][c].price = o.price
                                   /\ b.book[o.side][c].qty = o.leaves
      BY <2>1, <2>2, <2>3, <2>4, <2>5 DEF Entry
  <2>7. o.id # NoID => a.ordersID[o.id] \in {NoID, c}
      BY <1>4, <1>6, SMTT(30) DEF OrderInv, HeapSound
  <2> HIDE DEF b
  <2>8. AccountInv(b)
      BY <1>2, <1>6, <1>7, <2>1, <2>6, <2>7, ShowInv
  <2> QED
      BY <1>8, <1>10, <2>8 DEF ConfirmFill, b, o, c
<1> QED
    BY <1>9, <1>10

\* A minute passes for one order.
LEMMA AgeInv ==
    ASSUME NEW a, AccountInv(a), NEW c \in ClIDs, Referenced(a, c)
    PROVE  AccountInv(Age(a, c))
<1> DEFINE r == a.orders[c]
           o == [r EXCEPT !.stale = TRUE]
           b == Put(a, c, o)
<1>1. a \in AccountType /\ OrderInv(a, c) /\ Sound(r) /\ r \in Order
    BY SoundOrder DEF AccountInv, Sound
<1>2. /\ o \in Order /\ o.status = r.status /\ o.prev = r.prev /\ o.side = r.side
      /\ o.type = r.type /\ o.price = r.price /\ o.id = r.id /\ o.leaves = r.leaves
    BY <1>1 DEF Order
<1> HIDE DEF o
<1>3. Sound(o) /\ (Working(o) => Working(r))
    BY <1>1, <1>2 DEF Sound, Working
<1>4. Touches(b, b, c) /\ b.book = a.book
    BY <1>1, <1>2, PutShape DEF Touches
<1>5. /\ a.book[o.side][c].on => /\ o.status \notin ClosedStatus
                                 /\ a.book[o.side][c].price = o.price
                                 /\ a.book[o.side][c].qty = o.leaves
      /\ o.id # NoID => a.ordersID[o.id] \in {NoID, c}
    BY <1>1, <1>2 DEF OrderInv, EntryMirrorsOrder, HeapSound, Order
<1> HIDE DEF b
<1>6. AccountInv(b)
    BY <1>2, <1>3, <1>4, <1>5, ShowInv DEF b
<1>7. Age(a, c) = b
    BY <1>1 DEF Age, Put, AccountType, o, b
<1> QED
    BY <1>6, <1>7

\* Collect frees the orders no index refers to.
LEMMA CollectShape ==
    ASSUME NEW a \in AccountType
    PROVE  /\ Collect(a) \in AccountType
           /\ Collect(a).ordersClID = a.ordersClID
           /\ Collect(a).ordersID = a.ordersID
           /\ Collect(a).book = a.book
           /\ \A c \in ClIDs :
                Collect(a).orders[c] = IF Referenced(a, c) THEN a.orders[c] ELSE Blank
<1> DEFINE h == [c \in ClIDs |-> IF Referenced(a, c) THEN a.orders[c] ELSE Blank]
<1>1. Blank \in Order
    BY AccountConstants DEF Blank, Order
<1>2. h \in [ClIDs -> Order]
    BY <1>1 DEF AccountType
<1>3. Collect(a) = [a EXCEPT !.orders = h]
    BY DEF Collect
<1>4. \A c \in ClIDs : h[c] = IF Referenced(a, c) THEN a.orders[c] ELSE Blank
    OBVIOUS
<1> HIDE DEF h
<1> QED
    BY <1>2, <1>3, <1>4 DEF AccountType

\* A heap slot no index refers to, without an entry.
LEMMA BlankInv ==
    ASSUME NEW a \in AccountType, NEW c \in ClIDs, ~Referenced(a, c), a.orders[c] = Blank,
           \A s \in Sides : ~a.book[s][c].on
    PROVE  OrderInv(a, c)
<1>1. Blank.status = "Blank" /\ Blank.id = NoID
    BY DEF Blank
<1>2. c \notin a.ordersClID
    BY DEF Referenced
<1>3. EntryMirrorsOrder(a, c) /\ WorkingOrderRests(a, c) /\ ConfirmedIsReachable(a, c)
    BY <1>2 DEF EntryMirrorsOrder, WorkingOrderRests, ConfirmedIsReachable
<1>4. WorkingOrderHasLeaves(a, c) /\ SavedStatusSound(a, c)
    BY <1>1 DEF WorkingOrderHasLeaves, SavedStatusSound, Working, OpenStatus
<1>5. HeapSound(a, c)
    BY <1>1 DEF HeapSound
<1> QED
    BY <1>3, <1>4, <1>5 DEF OrderInv

\* RejectNewOrder: the order may survive under its exchange id, with its entry.
LEMMA RejectNewOrderInv ==
    ASSUME NEW a, AccountInv(a), NEW c \in ClIDs, ~RejectNewOrderError(a, c)
    PROVE  AccountInv(RejectNewOrder(a, c))
<1> DEFINE r == a.orders[c]
           o == [r EXCEPT !.status = "Rejected"]
           p == Put(a, c, o)
           q == [p EXCEPT !.ordersClID = @ \ {c}]
           b == Collect(q)
<1>1. a \in AccountType /\ OrderInv(a, c) /\ c \in a.ordersClID
    BY DEF AccountInv, RejectNewOrderError
<1>2. Sound(r) /\ r \in Order
    BY <1>1, SoundOrder DEF Referenced, Sound
<1>3. /\ o \in Order /\ o.status = "Rejected" /\ o.side = r.side /\ o.type = r.type
      /\ o.price = r.price /\ o.leaves = r.leaves /\ o.id = r.id
    BY <1>2 DEF Order, OrderStatus
<1> HIDE DEF o
<1>4. Sound(o) /\ ~Working(o)
    BY <1>2, <1>3 DEF Sound, Working, OpenStatus
<1>5. /\ p \in AccountType /\ p.ordersClID = a.ordersClID
      /\ p.ordersID = a.ordersID /\ p.book = a.book /\ p.orders[c] = o
      /\ \A d \in ClIDs \ {c} : p.orders[d] = a.orders[d]
    BY <1>1, <1>3, PutShape
<1> HIDE DEF p
<1>6. /\ q \in AccountType /\ q.ordersClID = a.ordersClID \ {c}
      /\ q.ordersID = a.ordersID /\ q.book = a.book /\ q.orders[c] = o
      /\ \A d \in ClIDs \ {c} : q.orders[d] = a.orders[d]
    BY <1>5 DEF AccountType
<1> HIDE DEF q
<1>7. /\ b \in AccountType /\ b.ordersClID = a.ordersClID \ {c}
      /\ b.ordersID = a.ordersID /\ b.book = a.book
      /\ \A d \in ClIDs : b.orders[d] = IF Referenced(q, d) THEN q.orders[d] ELSE Blank
    BY <1>6, CollectShape
<1>8. \A d \in ClIDs \ {c} : b.orders[d] = a.orders[d]
  <2> SUFFICES ASSUME NEW d \in ClIDs \ {c} PROVE b.orders[d] = a.orders[d]
      OBVIOUS
  <2>1. Referenced(q, d) <=> Referenced(a, d)
      BY <1>6 DEF Referenced
  <2>2. ~Referenced(a, d) => a.orders[d] = Blank
      BY DEF AccountInv, OrderInv, HeapSound
  <2> QED
      BY <1>6, <1>7, <2>1, <2>2
<1> HIDE DEF b
<1>9. OrderInv(b, c)
  <2>1. CASE \E x \in ExIDs : a.ordersID[x] = c
    <3>1. Referenced(q, c) /\ Referenced(b, c)
        BY <1>6, <1>7, <2>1 DEF Referenced
    <3>2. b.orders[c] = o
        BY <1>6, <1>7, <3>1
    <3>3. EntryMirrorsOrder(b, c)
        BY <1>1, <1>3, <1>7, <3>1, <3>2 DEF OrderInv, EntryMirrorsOrder, ClosedStatus
    <3>4. WorkingOrderRests(b, c) /\ ConfirmedIsReachable(b, c)
        BY <1>7 DEF WorkingOrderRests, ConfirmedIsReachable
    <3>5. b.orders[c].id # NoID => b.ordersID[b.orders[c].id] \in {NoID, c}
        BY <1>1, <1>3, <1>7, <3>2 DEF OrderInv, HeapSound
    <3> QED
        BY <1>4, <1>7, <3>1, <3>2, <3>3, <3>4, <3>5, OrderInvFromParts
  <2>2. CASE \A x \in ExIDs : a.ordersID[x] # c
    <3>1. ~Referenced(q, c) /\ ~Referenced(b, c)
        BY <1>6, <1>7, <2>2 DEF Referenced
    <3>2. b.orders[c] = Blank
        BY <1>7, <3>1
    <3>3. \A s \in Sides : ~b.book[s][c].on
        BY <1>1, <1>7, <2>2 DEF OrderInv, EntryMirrorsOrder, ConfirmedIsReachable
    <3> QED
        BY <1>7, <3>1, <3>2, <3>3, BlankInv
  <2> QED
      BY <2>1, <2>2
<1>10. AccountInv(b)
    BY <1>7, <1>8, <1>9, OneOrder
<1> QED
    BY <1>10 DEF RejectNewOrder, b, q, p, o

\* CleanOrders: several orders go at once, some of them from one index only.
LEMMA CleanOrdersInv ==
    ASSUME NEW a, AccountInv(a)
    PROVE  AccountInv(CleanOrders(a))
<1> DEFINE gone == {c \in a.ordersClID :
                      a.orders[c].status \in ClosedStatus /\ a.orders[c].stale}
           ids == [x \in ExIDs |-> IF \E c \in gone : a.orders[c].id = x
                                   THEN NoID ELSE a.ordersID[x]]
           q == [a EXCEPT !.ordersClID = @ \ gone, !.ordersID = ids]
           b == Collect(q)
<1>1. a \in AccountType /\ \A c \in ClIDs : OrderInv(a, c)
    BY DEF AccountInv
<1>2. gone \subseteq a.ordersClID /\ \A c \in gone : a.orders[c].status \in ClosedStatus
    OBVIOUS
<1> HIDE DEF gone
<1>3. ids \in [ExIDs -> ClIDs \cup {NoID}]
    BY <1>1 DEF AccountType
<1>4. \A x \in ExIDs : /\ ids[x] \in {NoID, a.ordersID[x]}
                       /\ (\E c \in gone : a.orders[c].id = x) \/ ids[x] = a.ordersID[x]
    OBVIOUS
<1> HIDE DEF ids
<1>5. /\ q \in AccountType /\ q.ordersClID = a.ordersClID \ gone /\ q.ordersID = ids
      /\ q.book = a.book /\ q.orders = a.orders
    BY <1>1, <1>3 DEF AccountType
<1> HIDE DEF q
<1>6. /\ b \in AccountType /\ b.ordersClID = a.ordersClID \ gone /\ b.ordersID = ids
      /\ b.book = a.book
      /\ \A d \in ClIDs : b.orders[d] = IF Referenced(q, d) THEN a.orders[d] ELSE Blank
    BY <1>5, CollectShape
<1>7. \A d \in ClIDs : Referenced(b, d) <=> Referenced(q, d)
    BY <1>5, <1>6 DEF Referenced
<1> HIDE DEF b
<1>8. ASSUME NEW c \in ClIDs PROVE OrderInv(b, c)
  <2>1. OrderInv(a, c) /\ a.orders[c] \in Order
      BY <1>1 DEF AccountType
  <2>2. ASSUME c \notin gone, NEW x \in ExIDs, a.ordersID[x] = c PROVE ids[x] = c
    <3>1. ASSUME NEW d \in gone, a.orders[d].id = x PROVE FALSE
      <4>1. d \in ClIDs /\ OrderInv(a, d)
          BY <1>1, <1>2, <3>1 DEF AccountType
      <4>2. a.ordersID[x] \in {NoID, d}
          BY <3>1, <4>1, AccountConstants DEF OrderInv, HeapSound
      <4> QED
          BY <2>2, <3>1, <4>2, AccountConstants
    <3> QED
        BY <1>4, <2>2, <3>1
  <2>3. Referenced(b, c) => Referenced(a, c)
      BY <1>2, <1>4, <1>6, AccountConstants DEF Referenced
  <2>4. CASE Referenced(b, c)
    <3>1. b.orders[c] = a.orders[c] /\ Sound(a.orders[c])
        BY <1>6, <1>7, <2>3, <2>4, SoundOrder
    <3>2. EntryMirrorsOrder(b, c)
        BY <1>6, <2>1, <2>4, <3>1 DEF OrderInv, EntryMirrorsOrder
    <3>3. WorkingOrderRests(b, c)
        BY <1>6, <2>1, <3>1 DEF OrderInv, WorkingOrderRests
    <3>4. ConfirmedIsReachable(b, c)
        BY <1>6, <2>1, <2>2, <3>1 DEF OrderInv, ConfirmedIsReachable
    <3>5. b.orders[c].id # NoID => b.ordersID[b.orders[c].id] \in {NoID, c}
        BY <1>4, <1>6, <2>1, <3>1 DEF OrderInv, HeapSound, Order
    <3> QED
        BY <1>6, <2>4, <3>1, <3>2, <3>3, <3>4, <3>5, OrderInvFromParts
  <2>5. CASE ~Referenced(b, c)
    <3>1. b.orders[c] = Blank
        BY <1>6, <1>7, <2>5
    <3>2. c \in gone \/ ~Referenced(a, c)
        BY <1>6, <2>2, <2>5 DEF Referenced
    <3>3. \A s \in Sides : ~b.book[s][c].on
        BY <1>2, <1>6, <2>1, <3>2 DEF OrderInv, EntryMirrorsOrder
    <3> QED
        BY <1>6, <2>5, <3>1, <3>3, BlankInv
  <2> QED
      BY <2>4, <2>5
<1>9. AccountInv(b)
    BY <1>6, <1>8 DEF AccountInv
<1> QED
    BY <1>9 DEF CleanOrders, b, q, ids, gone

\* What Sync relies on in the exchange's list of open orders.
Snapshot(f) ==
    /\ f \in [ClIDs -> Order]
    /\ \A c \in ClIDs : f[c].status # "Blank" =>
          /\ f[c].status \in OpenStatus /\ f[c].leaves > 0 /\ f[c].id # NoID
          /\ f[c].type = "Limit" => f[c].price # NoPrice
    /\ \A c, d \in ClIDs : c # d /\ f[c].id = f[d].id => f[c].id = NoID

\* Sync: nothing of the previous account survives.
LEMMA SyncInv ==
    ASSUME NEW f, Snapshot(f)
    PROVE  AccountInv(Sync(f))
<1> DEFINE listed == {c \in ClIDs : f[c].status # "Blank"}
           o(c) == [f[c] EXCEPT !.prev = f[c].status, !.unknown = 0,
                                !.amendPrice = NoPrice, !.amendQty = 0, !.stale = TRUE]
           rests(c) == /\ c \in listed
                       /\ f[c].status \in OpenStatus
                       /\ f[c].type = "Limit"
           entry(c) == [on |-> TRUE, price |-> f[c].price, qty |-> f[c].leaves]
           h == [c \in ClIDs |-> IF c \in listed THEN o(c) ELSE Blank]
           i == [x \in ExIDs |-> IF \E c \in listed : f[c].id = x
                                 THEN CHOOSE c \in listed : f[c].id = x ELSE NoID]
           k == [s \in Sides |-> [c \in ClIDs |->
                    IF rests(c) /\ f[c].side = s THEN entry(c) ELSE Off]]
           b == Sync(f)
<1>1. b = [orders |-> h, ordersClID |-> listed, ordersID |-> i, book |-> k]
    BY DEF Sync
<1> HIDE DEF b
<1>2. ASSUME NEW c \in ClIDs
      PROVE  /\ o(c) \in Order /\ o(c).status = f[c].status /\ o(c).id = f[c].id
             /\ o(c).type = f[c].type /\ o(c).price = f[c].price
             /\ o(c).leaves = f[c].leaves /\ o(c).side = f[c].side
             /\ entry(c) \in Entry
  <2>1. f[c] \in Order /\ NoPrice \in Prices \cup {NoPrice} /\ 0 \in 0..MaxLots
      BY AccountConstants DEF Snapshot
  <2>2. entry(c) \in Entry
      BY <2>1 DEF Entry, Order
  <2> QED
      BY <2>1, <2>2 DEF Order
<1> HIDE DEF o, entry
<1>3. h \in [ClIDs -> Order]
    BY <1>2, AccountConstants DEF Blank, Order
<1>4. \A c \in ClIDs : h[c] = IF c \in listed THEN o(c) ELSE Blank
    OBVIOUS
<1>5. ASSUME NEW x \in ExIDs
      PROVE  /\ i[x] \in ClIDs \cup {NoID}
             /\ i[x] # NoID => i[x] \in listed
             /\ \A c \in listed : f[c].id = x => i[x] = c
  <2>1. CASE \E c \in listed : f[c].id = x
    <3>1. i[x] \in listed /\ f[i[x]].id = x
        BY <2>1
    <3>2. \A c \in listed : f[c].id = x => i[x] = c
        BY <3>1, AccountConstants DEF Snapshot
    <3> QED
        BY <3>1, <3>2
  <2>2. CASE ~\E c \in listed : f[c].id = x
      BY <2>2
  <2> QED
      BY <2>1, <2>2
<1>6. \A s \in Sides, c \in ClIDs :
         /\ k[s][c] = IF rests(c) /\ f[c].side = s THEN entry(c) ELSE Off
         /\ k[s][c] \in Entry
    BY <1>2, EntryTypes
<1>7. k \in [Sides -> [ClIDs -> Entry]]
  <2>1. \A s \in Sides : k[s] \in [ClIDs -> Entry]
      BY <1>6
  <2> QED
      BY <2>1
<1>8. i \in [ExIDs -> ClIDs \cup {NoID}]
    BY <1>5
<1>9. listed \subseteq ClIDs
    OBVIOUS
<1>10. \A c \in listed : /\ f[c].status \in OpenStatus /\ f[c].leaves > 0 /\ f[c].id # NoID
                         /\ f[c].id \in ExIDs
                         /\ f[c].type = "Limit" => f[c].price # NoPrice
    BY DEF Snapshot, Order
<1>11. \A c \in listed : rests(c) <=> f[c].type = "Limit"
    BY <1>10
<1>12. \A c \in ClIDs : rests(c) => c \in listed
    OBVIOUS
<1> HIDE DEF h, i, k, listed, rests
<1>13. b \in AccountType
    BY <1>1, <1>3, <1>7, <1>8, <1>9 DEF AccountType
<1>14. ASSUME NEW c \in ClIDs PROVE OrderInv(b, c)
  <2>1. CASE c \in listed
    <3>1. b.orders[c] = o(c) /\ Referenced(b, c)
        BY <1>1, <1>4, <2>1 DEF Referenced
    <3>2. Sound(o(c))
        BY <1>2, <1>10, <2>1 DEF Sound, OpenStatus, Working, OrderStatus
    <3>3. ASSUME NEW s \in Sides
          PROVE  b.book[s][c] = IF f[c].type = "Limit" /\ f[c].side = s THEN entry(c) ELSE Off
        BY <1>1, <1>6, <1>11, <2>1
    <3>4. EntryMirrorsOrder(b, c) /\ WorkingOrderRests(b, c)
      <4> DEFINE r == b.orders[c]
      <4>1. /\ r.status = f[c].status /\ r.id = f[c].id /\ r.type = f[c].type
            /\ r.price = f[c].price /\ r.leaves = f[c].leaves /\ r.side = f[c].side
            /\ r.side \in Sides
          BY <1>2, <3>1 DEF Order
      <4>2. r.id # NoID /\ r.status \notin ClosedStatus
          BY <1>10, <2>1, <4>1 DEF OpenStatus, ClosedStatus
      <4> HIDE DEF r
      <4>3. EntryMirrorsOrder(b, c)
        <5> SUFFICES ASSUME NEW s \in Sides, b.book[s][c].on
                     PROVE  /\ Referenced(b, c)
                            /\ r.id # NoID /\ r.status \notin ClosedStatus
                            /\ r.side = s /\ r.type = "Limit"
                            /\ b.book[s][c].price = r.price
                            /\ b.book[s][c].qty = r.leaves
            BY DEF EntryMirrorsOrder, r
        <5>1. f[c].type = "Limit" /\ f[c].side = s /\ b.book[s][c] = entry(c)
            BY <3>3 DEF Off
        <5> QED
            BY <3>1, <4>1, <4>2, <5>1 DEF entry
      <4>4. r.type = "Limit" => b.book[r.side][c].on
          BY <3>3, <4>1 DEF entry
      <4> QED
          BY <4>3, <4>4 DEF WorkingOrderRests, r
    <3>5. b.ordersID[f[c].id] = c
        BY <1>1, <1>5, <1>10, <2>1
    <3>6. ConfirmedIsReachable(b, c)
        BY <1>10, <2>1, <3>5 DEF ConfirmedIsReachable
    <3> QED
        BY <1>2, <1>13, <3>1, <3>2, <3>3, <3>4, <3>5, <3>6, OrderInvFromParts
  <2>2. CASE c \notin listed
    <3>1. b.orders[c] = Blank
        BY <1>1, <1>4, <2>2
    <3>2. ~Referenced(b, c)
        BY <1>1, <1>5, <2>2, AccountConstants DEF Referenced
    <3>3. \A s \in Sides : ~b.book[s][c].on
        BY <1>1, <1>6, <1>12, <2>2 DEF Off
    <3> QED
        BY <1>13, <3>1, <3>2, <3>3, BlankInv
  <2> QED
      BY <2>1, <2>2
<1> QED
    BY <1>13, <1>14 DEF AccountInv, b

\* NewAccount.
LEMMA NewAccountInv == AccountInv(NewAccount)
<1>1. Blank \in Order /\ Off \in Entry /\ ~Off.on
    BY AccountConstants, EntryTypes DEF Blank, Order, Off
<1>2. NewAccount \in AccountType
    BY <1>1 DEF NewAccount, AccountType
<1>3. ASSUME NEW c \in ClIDs PROVE OrderInv(NewAccount, c)
  <2>1. ~Referenced(NewAccount, c)
      BY AccountConstants DEF NewAccount, Referenced
  <2>2. NewAccount.orders[c] = Blank /\ \A s \in Sides : ~NewAccount.book[s][c].on
      BY <1>1 DEF NewAccount
  <2> QED
      BY <1>2, <2>1, <2>2, BlankInv
<1> QED
    BY <1>2, <1>3 DEF AccountInv
----------------------------------------------------------------------------
(***************************************************************************)
(* What the methods leave alone, for the action properties and for the     *)
(* callers that keep books of their own about the orders.                  *)
(***************************************************************************)

\* A Filled order stays closed, and only a PendingNew order gets an entry.
Keeps(a, b) ==
    /\ \A c \in ClIDs : a.orders[c].status = "Filled" =>
          b.orders[c].status \in ClosedStatus \cup {"Rejected", "Blank"}
    /\ \A s \in Sides, c \in ClIDs : b.book[s][c].on =>
          a.book[s][c].on \/ a.orders[c].status = "PendingNew"

\* Besides, the indexes only shrink, an order keeps its side, type and exchange
\* id until it is freed, and no order outside closing is canceled or expired.
Moves(a, b, closing) ==
    /\ b \in AccountType
    /\ Keeps(a, b)
    /\ b.ordersClID \subseteq a.ordersClID
    /\ \A x \in ExIDs : b.ordersID[x] \in {NoID, a.ordersID[x]}
    /\ \A c \in ClIDs :
          \/ b.orders[c] = Blank
          \/ /\ b.orders[c].side = a.orders[c].side /\ b.orders[c].type = a.orders[c].type
             /\ b.orders[c].id = a.orders[c].id
    /\ \A c \in ClIDs \ closing : b.orders[c].status \in {"Canceled", "Expired"} =>
          a.orders[c].status \in {"Canceled", "Expired"}

\* An account that stays as it is moves nowhere.
LEMMA MovesNowhere ==
    ASSUME NEW a \in AccountType, NEW closing PROVE Moves(a, a, closing)
BY DEF Moves, Keeps, ClosedStatus

\* A method that changes order c and at most its own resting entry.
LEMMA OneOrderMoves ==
    ASSUME NEW a \in AccountType, NEW c \in ClIDs, NEW o \in Order, NEW b, NEW closing,
           Touches(Put(a, c, o), b, c),
           o.side = a.orders[c].side, o.type = a.orders[c].type, o.id = a.orders[c].id,
           a.orders[c].status = "Filled" => o.status \in ClosedStatus \cup {"Rejected", "Blank"},
           b.book[o.side][c].on => a.book[o.side][c].on,
           c \in closing \/ (o.status \in {"Canceled", "Expired"} =>
                                a.orders[c].status \in {"Canceled", "Expired"})
    PROVE  Moves(a, b, closing)
<1> DEFINE p == Put(a, c, o)
<1>1. /\ p \in AccountType /\ p.ordersClID = a.ordersClID
      /\ p.ordersID = a.ordersID /\ p.book = a.book /\ p.orders[c] = o
      /\ \A d \in ClIDs \ {c} : p.orders[d] = a.orders[d]
    BY PutShape
<1> HIDE DEF p
<1>2. /\ b \in AccountType /\ b.ordersClID = a.ordersClID
      /\ b.ordersID = a.ordersID /\ b.orders[c] = o
      /\ \A d \in ClIDs \ {c} : b.orders[d] = a.orders[d]
      /\ \A s \in Sides, d \in ClIDs : s # o.side \/ d # c => b.book[s][d] = a.book[s][d]
    BY <1>1 DEF Touches, p
<1>3. \A d \in ClIDs : a.orders[d].status = "Filled" =>
          b.orders[d].status \in ClosedStatus \cup {"Rejected", "Blank"}
    BY <1>2 DEF ClosedStatus
<1>4. \A s \in Sides, d \in ClIDs : b.book[s][d].on => a.book[s][d].on
    BY <1>2
<1> QED
    BY <1>2, <1>3, <1>4 DEF Moves, Keeps

\* The same without an entry.
LEMMA PutMoves ==
    ASSUME NEW a \in AccountType, NEW c \in ClIDs, NEW o \in Order, NEW closing,
           o.side = a.orders[c].side, o.type = a.orders[c].type, o.id = a.orders[c].id,
           a.orders[c].status = "Filled" => o.status \in ClosedStatus \cup {"Rejected", "Blank"},
           c \in closing \/ (o.status \in {"Canceled", "Expired"} =>
                                a.orders[c].status \in {"Canceled", "Expired"})
    PROVE  Moves(a, Put(a, c, o), closing)
<1> DEFINE p == Put(a, c, o)
<1>1. p \in AccountType /\ p.book = a.book
    BY PutShape
<1>2. Touches(p, p, c)
    BY <1>1 DEF Touches
<1> HIDE DEF p
<1> QED
    BY <1>1, <1>2, OneOrderMoves DEF p

\* CancelOrder ends no order's life and changes no identity.
LEMMA CancelOrderMoves ==
    ASSUME NEW a, AccountInv(a), NEW k, ~CancelOrderRejected(a, k)
    PROVE  Moves(a, CancelOrder(a, k), {})
<1> DEFINE c == Find(a, k)
           o == Save(a.orders[c], "PendingCancel")
<1>1. a \in AccountType /\ Known(a, k) /\ a.orders[c].status \in CancelableStatus
    BY DEF AccountInv, CancelOrderRejected
<1>2. c \in ClIDs /\ a.orders[c] \in Order
    BY <1>1, FindInClIDs DEF AccountType
<1> HIDE DEF c
<1>3. /\ o \in Order /\ o.status = "PendingCancel" /\ o.side = a.orders[c].side
      /\ o.type = a.orders[c].type /\ o.id = a.orders[c].id
    BY <1>2, SaveShape DEF OrderStatus, PendingStatus
<1> HIDE DEF o
<1>4. Moves(a, Put(a, c, o), {})
    BY <1>1, <1>2, <1>3, PutMoves DEF CancelableStatus
<1> QED
    BY <1>4 DEF CancelOrder, c, o

\* ReplaceOrder ends no order's life and changes no identity.
LEMMA ReplaceOrderMoves ==
    ASSUME NEW a, AccountInv(a), NEW k, ~ReplaceOrderRejected(a, k),
           NEW price \in Prices \cup {NoPrice}, NEW qty \in 0..MaxLots
    PROVE  Moves(a, ReplaceOrder(a, k, price, qty), {})
<1> DEFINE c == Find(a, k)
           s == Save(a.orders[c], "PendingReplace")
           o == [s EXCEPT !.amendPrice = price, !.amendQty = qty]
<1>1. a \in AccountType /\ Known(a, k) /\ a.orders[c].status \in OpenStatus
    BY DEF AccountInv, ReplaceOrderRejected
<1>2. c \in ClIDs /\ a.orders[c] \in Order
    BY <1>1, FindInClIDs DEF AccountType
<1> HIDE DEF c
<1>3. /\ s \in Order /\ s.status = "PendingReplace" /\ s.side = a.orders[c].side
      /\ s.type = a.orders[c].type /\ s.id = a.orders[c].id
    BY <1>2, SaveShape DEF OrderStatus, PendingStatus
<1> HIDE DEF s
<1>4. /\ o \in Order /\ o.status = s.status /\ o.side = s.side /\ o.type = s.type /\ o.id = s.id
    BY <1>3 DEF Order
<1> HIDE DEF o
<1>5. Moves(a, Put(a, c, o), {})
    BY <1>1, <1>2, <1>3, <1>4, PutMoves DEF OpenStatus
<1> QED
    BY <1>5 DEF ReplaceOrder, c, s, o

\* PendingFilled moves a live order only.
LEMMA PendingFilledMoves ==
    ASSUME NEW a, AccountInv(a), NEW k, Known(a, k)
    PROVE  Moves(a, PendingFilled(a, k), {})
<1> DEFINE c == Find(a, k)
           o == Save(a.orders[c], "PendingFilled")
<1>1. a \in AccountType
    BY DEF AccountInv
<1>2. c \in ClIDs /\ a.orders[c] \in Order
    BY <1>1, FindInClIDs DEF AccountType
<1> HIDE DEF c
<1>3. /\ o \in Order /\ o.status = "PendingFilled" /\ o.side = a.orders[c].side
      /\ o.type = a.orders[c].type /\ o.id = a.orders[c].id
    BY <1>2, SaveShape DEF OrderStatus, PendingStatus
<1> HIDE DEF o
<1>4. a.orders[c].status # "Filled" => Moves(a, Put(a, c, o), {})
    BY <1>1, <1>2, <1>3, PutMoves
<1> QED
    BY <1>1, <1>4, MovesNowhere DEF PendingFilled, c, o

\* A refused request brings back a status that is neither closed nor pending.
LEMMA RejectReplaceOrderMoves ==
    ASSUME NEW a, AccountInv(a), NEW k, Known(a, k)
    PROVE  Moves(a, RejectReplaceOrder(a, k), {})
<1> DEFINE c == Find(a, k)
           o == Stamp(a.orders[c], a.orders[c].prev)
<1>1. a \in AccountType
    BY DEF AccountInv
<1>2. c \in ClIDs /\ Referenced(a, c) /\ a.orders[c] \in Order
    BY <1>1, FindInClIDs DEF AccountType
<1>3. a.orders[c].status = "PendingReplace" => a.orders[c].prev \in OpenStatus
    BY <1>2, SoundOrder DEF Sound
<1> HIDE DEF c
<1>4. a.orders[c].prev \in OpenStatus =>
         /\ o \in Order /\ o.status = a.orders[c].prev /\ o.side = a.orders[c].side
         /\ o.type = a.orders[c].type /\ o.id = a.orders[c].id
    BY <1>2, StampShape DEF OrderStatus
<1> HIDE DEF o
<1>5. a.orders[c].status = "PendingReplace" => Moves(a, Put(a, c, o), {})
    BY <1>1, <1>2, <1>3, <1>4, PutMoves DEF OpenStatus
<1> QED
    BY <1>1, <1>5, MovesNowhere DEF RejectReplaceOrder, c, o

\* RejectCancelOrder restores a status, never that of an order that is closed.
LEMMA RejectCancelOrderMoves ==
    ASSUME NEW a, AccountInv(a), NEW k, Known(a, k), NEW unknownOrder \in BOOLEAN
    PROVE  Moves(a, RejectCancelOrder(a, k, unknownOrder), {})
<1> DEFINE c == Find(a, k)
           r == a.orders[c]
           o == CancelRejected(r, unknownOrder)
           b == RejectCancelOrder(a, k, unknownOrder)
<1>1. a \in AccountType /\ AccountInv(b)
    BY RejectCancelOrderInv DEF AccountInv
<1>2. c \in ClIDs /\ Referenced(a, c) /\ r \in Order
    BY <1>1, FindInClIDs DEF AccountType
<1>3. r.status = "PendingCancel" => r.prev \in CancelableStatus
    BY <1>2, SoundOrder DEF Sound
<1>4. b = IF r.status = "PendingCancel" THEN Put(a, c, o) ELSE a
    BY DEF RejectCancelOrder
<1> HIDE DEF c, b
<1>5. /\ o.side = r.side /\ o.type = r.type /\ o.id = r.id /\ o.status \in {r.status, r.prev}
    BY <1>2 DEF CancelRejected, Order
<1> HIDE DEF o
<1>6. CASE r.status = "PendingCancel"
  <2>1. b.orders[c] = o
      BY <1>1, <1>2, <1>4, <1>6 DEF Put, AccountType
  <2>2. o \in Order
      BY <1>1, <1>2, <2>1 DEF AccountInv, AccountType
  <2> QED
      BY <1>1, <1>2, <1>3, <1>4, <1>5, <1>6, <2>2, PutMoves DEF CancelableStatus, b
<1>7. CASE r.status # "PendingCancel"
    BY <1>1, <1>4, <1>7, MovesNowhere DEF b
<1> QED
    BY <1>6, <1>7

\* Closing an order removes its entry.
LEMMA CloseMoves ==
    ASSUME NEW a \in AccountType, NEW c \in ClIDs, NEW o \in Order, NEW closing, c \in closing,
           o.side = a.orders[c].side, o.type = a.orders[c].type, o.id = a.orders[c].id,
           o.status \in ClosedStatus
    PROVE  Moves(a, BookRemove(Put(a, c, o), c), closing)
<1> DEFINE p == Put(a, c, o)
           b == BookRemove(p, c)
<1>1. p \in AccountType /\ p.book = a.book /\ p.orders[c] = o
    BY PutShape
<1>2. Touches(p, b, c) /\ b.book[o.side][c] = IF o.type = "Limit" THEN Off ELSE p.book[o.side][c]
    BY <1>1, BookShapes, ZenonT(60)
<1> HIDE DEF b
<1>3. b.book[o.side][c].on => a.book[o.side][c].on
    BY <1>1, <1>2 DEF Off
<1> HIDE DEF p
<1>4. Moves(a, b, closing)
    BY <1>2, <1>3, OneOrderMoves DEF p
<1> QED
    BY <1>4 DEF b, p

\* ConfirmCancelOrder closes the order it names and no other.
LEMMA ConfirmCancelOrderMoves ==
    ASSUME NEW a, AccountInv(a), NEW k, Known(a, k)
    PROVE  Moves(a, ConfirmCancelOrder(a, k), {Find(a, k)})
<1> DEFINE c == Find(a, k)
           o == Stamp(a.orders[c], "Canceled")
<1>1. a \in AccountType
    BY DEF AccountInv
<1>2. c \in ClIDs /\ a.orders[c] \in Order
    BY <1>1, FindInClIDs DEF AccountType
<1> HIDE DEF c
<1>3. /\ o \in Order /\ o.status = "Canceled" /\ o.side = a.orders[c].side
      /\ o.type = a.orders[c].type /\ o.id = a.orders[c].id
    BY <1>2, StampShape DEF OrderStatus, ClosedStatus
<1> HIDE DEF o
<1>4. Moves(a, BookRemove(Put(a, c, o), c), {c})
    BY <1>1, <1>2, <1>3, CloseMoves DEF ClosedStatus
<1>5. Moves(a, a, {c})
    BY <1>1, MovesNowhere
<1> QED
    BY <1>4, <1>5 DEF ConfirmCancelOrder, c, o

\* ConfirmExpiredOrder closes the order it names and no other.
LEMMA ConfirmExpiredOrderMoves ==
    ASSUME NEW a, AccountInv(a), NEW k, Known(a, k)
    PROVE  Moves(a, ConfirmExpiredOrder(a, k), {Find(a, k)})
<1> DEFINE c == Find(a, k)
           o == [Stamp(a.orders[c], "Expired") EXCEPT !.leaves = 0]
<1>1. a \in AccountType
    BY DEF AccountInv
<1>2. c \in ClIDs /\ a.orders[c] \in Order
    BY <1>1, FindInClIDs DEF AccountType
<1> HIDE DEF c
<1>3. /\ o \in Order /\ o.status = "Expired" /\ o.side = a.orders[c].side
      /\ o.type = a.orders[c].type /\ o.id = a.orders[c].id
    BY <1>2 DEF Stamp, Order, OrderStatus, ClosedStatus
<1> HIDE DEF o
<1>4. Moves(a, BookRemove(Put(a, c, o), c), {c})
    BY <1>1, <1>2, <1>3, CloseMoves DEF ClosedStatus
<1>5. Moves(a, a, {c})
    BY <1>1, MovesNowhere
<1> QED
    BY <1>4, <1>5 DEF ConfirmExpiredOrder, c, o

\* ConfirmFill fills the order it names; it takes none out of a final status.
LEMMA ConfirmFillMoves ==
    ASSUME NEW a, AccountInv(a), NEW k, NEW qty \in Lots, ~ConfirmFillError(a, k, qty)
    PROVE  Moves(a, ConfirmFill(a, k, qty), {})
<1> DEFINE c == Find(a, k)
           r == a.orders[c]
           o == Filled(r, qty)
           p == Put(a, c, o)
<1>1. a \in AccountType /\ Known(a, k) /\ ~(qty > r.leaves)
    BY DEF AccountInv, ConfirmFillError
<1>2. c \in ClIDs /\ r \in Order
    BY <1>1, FindInClIDs DEF AccountType
<1> HIDE DEF c
<1>3. qty \in Nat /\ qty <= r.leaves /\ r.leaves \in Nat /\ r.cum \in Nat
    BY <1>1, <1>2, AccountConstants DEF Order, Lots
<1>4. FillStatus(r, qty) \in OrderStatus \cup {"Blank"}
    BY <1>2 DEF FillStatus, Order, OrderStatus, OpenStatus, ClosedStatus
<1>5. /\ r.status = "Filled" => FillStatus(r, qty) = "Filled"
      /\ FillStatus(r, qty) \in {"Canceled", "Expired"} => r.status \in {"Canceled", "Expired"}
    BY DEF FillStatus, OpenStatus, PendingStatus
<1>6. /\ o \in Order /\ o.status = FillStatus(r, qty) /\ o.side = r.side
      /\ o.type = r.type /\ o.id = r.id
  <2> DEFINE f == FillStatus(r, qty)
             l == r.leaves - qty
             m == r.cum + qty
  <2>1. o = [r EXCEPT !.status = f, !.stale = FALSE, !.leaves = l, !.cum = m]
      BY <1>2 DEF Filled, Stamp, Order
  <2>2. l \in Nat /\ m \in Nat /\ f \in OrderStatus \cup {"Blank"}
      BY <1>3, <1>4
  <2> HIDE DEF l, m, f
  <2>3. /\ o \in Order /\ o.status = f /\ o.side = r.side /\ o.type = r.type /\ o.id = r.id
      BY <1>2, <2>1, <2>2, ZenonT(60) DEF Order
  <2> QED
      BY <2>3 DEF f
<1> HIDE DEF o
<1>7. p \in AccountType /\ p.book = a.book /\ p.orders[c] = o
    BY <1>1, <1>2, <1>6, PutShape
<1>8. CASE o.status = "Filled"
  <2> DEFINE b == BookRemove(p, c)
  <2>1. Touches(p, b, c) /\ b.book[o.side][c] = IF o.type = "Limit" THEN Off ELSE p.book[o.side][c]
      BY <1>2, <1>7, BookShapes
  <2> HIDE DEF b
  <2>2. b.book[o.side][c].on => a.book[o.side][c].on
      BY <1>7, <2>1 DEF Off
  <2> HIDE DEF p
  <2>3. Moves(a, b, {})
      BY <1>1, <1>2, <1>5, <1>6, <1>8, <2>1, <2>2, OneOrderMoves DEF ClosedStatus, p
  <2> QED
      BY <1>7, <1>8, <2>3 DEF ConfirmFill, b, p, o, c
<1>9. CASE o.status # "Filled"
  <2> DEFINE b == BookUpdateQuantity(p, c)
             e == a.book[o.side][c]
  <2>1. /\ Touches(p, b, c)
        /\ b.book[o.side][c] = IF Rests(p, c) THEN [e EXCEPT !.qty = o.leaves] ELSE e
      BY <1>2, <1>7, BookShapes, SMTT(30)
  <2>2. e \in Entry
      BY <1>1, <1>2, <1>6 DEF AccountType, Order
  <2> HIDE DEF b
  <2>3. b.book[o.side][c].on => e.on
      BY <2>1, <2>2 DEF Entry
  <2>4. Moves(a, b, {})
      BY <1>1, <1>2, <1>5, <1>6, <1>9, <2>1, <2>3, OneOrderMoves DEF ClosedStatus
  <2> QED
      BY <1>7, <1>9, <2>4 DEF ConfirmFill, b, p, o, c
<1> QED
    BY <1>8, <1>9

\* Time only makes an order stale.
LEMMA AgeMoves ==
    ASSUME NEW a, AccountInv(a), NEW c \in ClIDs
    PROVE  Moves(a, Age(a, c), {})
<1> DEFINE o == [a.orders[c] EXCEPT !.stale = TRUE]
<1>1. a \in AccountType /\ a.orders[c] \in Order
    BY DEF AccountInv, AccountType
<1>2. /\ o \in Order /\ o.status = a.orders[c].status /\ o.side = a.orders[c].side
      /\ o.type = a.orders[c].type /\ o.id = a.orders[c].id
    BY <1>1 DEF Order
<1>3. Age(a, c) = Put(a, c, o)
    BY <1>1 DEF Age, Put, AccountType
<1> HIDE DEF o
<1>4. Moves(a, Put(a, c, o), {})
    BY <1>1, <1>2, PutMoves DEF ClosedStatus
<1> QED
    BY <1>3, <1>4

\* RejectNewOrder and CleanOrders free orders.
LEMMA RejectNewOrderMoves ==
    ASSUME NEW a, AccountInv(a), NEW c \in ClIDs, ~RejectNewOrderError(a, c)
    PROVE  Moves(a, RejectNewOrder(a, c), {})
<1> DEFINE r == a.orders[c]
           o == [r EXCEPT !.status = "Rejected"]
           p == Put(a, c, o)
           q == [p EXCEPT !.ordersClID = @ \ {c}]
           b == Collect(q)
<1>1. a \in AccountType /\ r \in Order
    BY DEF AccountInv, AccountType
<1>2. /\ o \in Order /\ o.status = "Rejected" /\ o.side = r.side /\ o.type = r.type
      /\ o.id = r.id
    BY <1>1 DEF Order, OrderStatus
<1> HIDE DEF o
<1>3. /\ p \in AccountType /\ p.ordersClID = a.ordersClID
      /\ p.ordersID = a.ordersID /\ p.book = a.book /\ p.orders[c] = o
      /\ \A d \in ClIDs \ {c} : p.orders[d] = a.orders[d]
    BY <1>1, <1>2, PutShape
<1> HIDE DEF p
<1>4. /\ q \in AccountType /\ q.ordersClID = a.ordersClID \ {c}
      /\ q.ordersID = a.ordersID /\ q.book = a.book /\ q.orders[c] = o
      /\ \A d \in ClIDs \ {c} : q.orders[d] = a.orders[d]
    BY <1>3 DEF AccountType
<1> HIDE DEF q
<1>5. /\ b \in AccountType /\ b.ordersClID = a.ordersClID \ {c}
      /\ b.ordersID = a.ordersID /\ b.book = a.book
      /\ \A d \in ClIDs : b.orders[d] = IF Referenced(q, d) THEN q.orders[d] ELSE Blank
    BY <1>4, CollectShape
<1> HIDE DEF b
<1>6. \A d \in ClIDs : b.orders[d] \in {q.orders[d], Blank} /\ Blank.status = "Blank"
    BY <1>5 DEF Blank
<1>7. Keeps(a, b)
    BY <1>2, <1>4, <1>5, <1>6 DEF Keeps, ClosedStatus
<1>8. Moves(a, b, {})
    BY <1>2, <1>4, <1>5, <1>6, <1>7 DEF Moves
<1> QED
    BY <1>8 DEF RejectNewOrder, b, q, p, o

\* CleanOrders drops closed orders from the indexes and moves no status.
LEMMA CleanOrdersMoves ==
    ASSUME NEW a, AccountInv(a)
    PROVE  Moves(a, CleanOrders(a), {})
<1> DEFINE gone == {c \in a.ordersClID :
                      a.orders[c].status \in ClosedStatus /\ a.orders[c].stale}
           ids == [x \in ExIDs |-> IF \E c \in gone : a.orders[c].id = x
                                   THEN NoID ELSE a.ordersID[x]]
           q == [a EXCEPT !.ordersClID = @ \ gone, !.ordersID = ids]
           b == Collect(q)
<1>1. a \in AccountType
    BY DEF AccountInv
<1>2. gone \subseteq a.ordersClID
    OBVIOUS
<1> HIDE DEF gone
<1>3. ids \in [ExIDs -> ClIDs \cup {NoID}] /\ \A x \in ExIDs : ids[x] \in {NoID, a.ordersID[x]}
    BY <1>1 DEF AccountType
<1> HIDE DEF ids
<1>4. /\ q \in AccountType /\ q.ordersClID = a.ordersClID \ gone /\ q.ordersID = ids
      /\ q.book = a.book /\ q.orders = a.orders
    BY <1>1, <1>3 DEF AccountType
<1> HIDE DEF q
<1>5. /\ b \in AccountType /\ b.ordersClID = a.ordersClID \ gone /\ b.ordersID = ids
      /\ b.book = a.book
      /\ \A d \in ClIDs : b.orders[d] = IF Referenced(q, d) THEN a.orders[d] ELSE Blank
    BY <1>4, CollectShape
<1> HIDE DEF b
<1>6. \A d \in ClIDs : b.orders[d] \in {a.orders[d], Blank} /\ Blank.status = "Blank"
    BY <1>5 DEF Blank
<1>7. Keeps(a, b)
    BY <1>5, <1>6 DEF Keeps, ClosedStatus
<1>8. Moves(a, b, {})
    BY <1>3, <1>5, <1>6, <1>7 DEF Moves
<1> QED
    BY <1>8 DEF CleanOrders, b, q, ids, gone

\* The methods that give an order an id, or make one, are no Moves.
LEMMA NewOrderKeeps ==
    ASSUME NEW a, AccountInv(a), NEW c \in ClIDs, NEW side \in Sides, NEW type \in Types,
           NEW price \in Prices \cup {NoPrice}, NEW qty \in Lots, ~Referenced(a, c)
    PROVE  Keeps(a, NewOrder(a, c, side, type, price, qty))
<1> DEFINE b == NewOrder(a, c, side, type, price, qty)
<1>1. a.orders[c] = Blank /\ Blank.status = "Blank"
    BY DEF AccountInv, OrderInv, HeapSound, Blank
<1>2. b.book = a.book /\ \A d \in ClIDs \ {c} : b.orders[d] = a.orders[d]
    BY DEF NewOrder, Put, AccountInv, AccountType
<1> HIDE DEF b
<1>3. Keeps(a, b)
    BY <1>1, <1>2 DEF Keeps, ClosedStatus
<1> QED
    BY <1>3 DEF b

\* ConfirmNewOrder leaves no order the account finds unreachable.
LEMMA ConfirmNewOrderKeeps ==
    ASSUME NEW a, AccountInv(a), NEW c \in ClIDs, NEW x \in ExIDs, NEW qty \in 0..MaxLots
    PROVE  Keeps(a, ConfirmNewOrder(a, c, x, qty))
<1> DEFINE o == Confirmed(a.orders[c], x, qty)
           q == Put(a, c, o)
           p == [q EXCEPT !.ordersID[x] = c]
           b == BookAdd(p, c)
<1>1. a \in AccountType /\ a.orders[c] \in Order /\ qty \in Nat
    BY AccountConstants DEF AccountInv, AccountType
<1>2. o \in Order
    BY <1>1, ZenonT(60) DEF Confirmed, Stamp, Order, OrderStatus, OpenStatus
<1> HIDE DEF o
<1>3. /\ q \in AccountType /\ q.ordersID = a.ordersID /\ q.book = a.book
      /\ \A d \in ClIDs \ {c} : q.orders[d] = a.orders[d]
    BY <1>1, <1>2, PutShape
<1> HIDE DEF q
<1>4. /\ p \in AccountType /\ p.book = a.book
      /\ \A d \in ClIDs \ {c} : p.orders[d] = a.orders[d]
    BY <1>3 DEF AccountType
<1> HIDE DEF p
<1>5. Touches(p, b, c)
    BY <1>4, BookShapes
<1> HIDE DEF b
<1>6. a.orders[c].status = "PendingNew" => Keeps(a, b)
    BY <1>4, <1>5 DEF Keeps, ClosedStatus, Touches
<1>7. Keeps(a, a)
    BY DEF Keeps, ClosedStatus
<1> QED
    BY <1>6, <1>7 DEF ConfirmNewOrder, b, p, q, o

\* ConfirmReplaceOrder leaves no order the account finds unreachable.
LEMMA ConfirmReplaceOrderKeeps ==
    ASSUME NEW a, AccountInv(a), NEW k, ~NotPendingReplace(a, k),
           NEW newID \in ExIDs \cup {NoID},
           newID # NoID => a.ordersID[newID] \in {NoID, Find(a, k)}
    PROVE  Keeps(a, ConfirmReplaceOrder(a, k, newID))
<1> DEFINE c == Find(a, k)
           r == a.orders[c]
           o == AmendedQuantity(r)
           n == Amended(r, newID)
           b == ConfirmReplaceOrder(a, k, newID)
<1>1. a \in AccountType /\ Known(a, k) /\ r.status = "PendingReplace" /\ b \in AccountType
    BY ConfirmReplaceOrderInv DEF AccountInv, NotPendingReplace
<1>2. c \in ClIDs /\ r \in Order
    BY <1>1, FindInClIDs DEF AccountType
<1>3. b = IF ReplacePriceError(a, k) THEN Put(a, c, o) ELSE BookUpdate(Put(a, c, n), c)
    BY DEF ConfirmReplaceOrder
<1> HIDE DEF c, b
<1>4. n.side = r.side /\ n.type = r.type
    BY <1>2 DEF Amended, AmendedQuantity, Stamp, Order
<1> HIDE DEF o, n
<1>5. CASE ReplacePriceError(a, k)
  <2>1. b.book = a.book /\ \A d \in ClIDs \ {c} : b.orders[d] = a.orders[d]
      BY <1>1, <1>2, <1>3, <1>5 DEF Put, AccountType
  <2> QED
      BY <1>1, <2>1 DEF Keeps, ClosedStatus, b
<1>6. CASE ~ReplacePriceError(a, k)
  <2> DEFINE p == Put(a, c, n)
  <2>1. /\ p.book = a.book /\ p.orders[c] = n
        /\ \A d \in ClIDs \ {c} : p.orders[d] = a.orders[d]
      BY <1>1, <1>2 DEF Put, AccountType
  <2> HIDE DEF p
  <2>2. b = IF Rests(p, c) THEN SetEntry(p, n.side, c, Showing(n)) ELSE p
      BY <1>3, <1>6, <2>1 DEF BookUpdate, p
  <2>3. b.orders = p.orders
        /\ \A s \in Sides, d \in ClIDs : b.book[s][d].on => a.book[s][d].on
    <3>1. CASE ~Rests(p, c)
        BY <2>1, <2>2, <3>1
    <3>2. CASE Rests(p, c)
      <4>1. a.book[r.side][c].on /\ r.side \in Sides
          BY <1>2, <1>4, <2>1, <3>2 DEF Rests, Order
      <4>2. b.book = [a.book EXCEPT ![r.side][c] = Showing(n)] /\ b.orders = p.orders
          BY <1>1, <1>4, <2>1, <2>2, <3>2 DEF SetEntry, AccountType, p, Put
      <4> QED
          BY <1>1, <1>2, <4>1, <4>2 DEF AccountType
    <3> QED
        BY <3>1, <3>2
  <2>4. \A d \in ClIDs \ {c} : b.orders[d] = a.orders[d]
      BY <2>1, <2>3
  <2> QED
      BY <1>1, <2>3, <2>4 DEF Keeps, ClosedStatus, b
<1> QED
    BY <1>5, <1>6

\* An amendment brings the saved status back, and changes no identity.
LEMMA ConfirmReplaceOrderMoves ==
    ASSUME NEW a, AccountInv(a), NEW k, ~NotPendingReplace(a, k)
    PROVE  Moves(a, ConfirmReplaceOrder(a, k, NoID), {})
<1> DEFINE c == Find(a, k)
           r == a.orders[c]
           w == Stamp(r, r.prev)
           o == AmendedQuantity(r)
           n == Amended(r, NoID)
<1>1. a \in AccountType /\ Known(a, k) /\ r.status = "PendingReplace"
    BY DEF AccountInv, NotPendingReplace
<1>2. c \in ClIDs /\ Referenced(a, c) /\ r \in Order
    BY <1>1, FindInClIDs DEF AccountType
<1>3. Sound(r) /\ r.prev \in OpenStatus /\ r.prev \in OrderStatus
    BY <1>1, <1>2, SoundOrder DEF Sound, Working, OrderStatus
<1> HIDE DEF c
<1>4. /\ w \in Order /\ w.status = r.prev /\ w.side = r.side /\ w.type = r.type /\ w.id = r.id
      /\ w.amendPrice = r.amendPrice
    BY <1>2, <1>3 DEF Stamp, Order
<1>5. /\ o \in Order /\ o.status = r.prev /\ o.side = r.side /\ o.type = r.type /\ o.id = r.id
  <2> DEFINE l == IF r.amendQty = 0 THEN r.leaves ELSE r.amendQty
  <2>1. o = [w EXCEPT !.leaves = l, !.amendQty = 0]
      BY DEF AmendedQuantity
  <2>2. l \in Nat /\ 0 \in 0..MaxLots
      BY <1>2, AccountConstants DEF Order
  <2> HIDE DEF l, w
  <2> QED
      BY <1>4, <2>1, <2>2 DEF Order
<1>6. /\ n \in Order /\ n.status = r.prev /\ n.side = r.side /\ n.type = r.type /\ n.id = r.id
  <2> DEFINE p == IF r.amendPrice = NoPrice THEN r.price ELSE r.amendPrice
  <2>1. n = [o EXCEPT !.price = p, !.amendPrice = NoPrice, !.id = r.id]
      BY DEF Amended
  <2>2. p \in Prices \cup {NoPrice}
      BY <1>2, <1>5 DEF Order
  <2> HIDE DEF p, o, w, n
  <2> QED
      BY <1>5, <2>1, <2>2 DEF Order
<1> HIDE DEF o, n, w
<1>7. r.prev \notin {"Canceled", "Expired"} /\ r.status # "Filled"
    BY <1>1, <1>3 DEF OpenStatus
<1>8. CASE ReplacePriceError(a, k)
  <2>1. Moves(a, Put(a, c, o), {})
      BY <1>1, <1>2, <1>5, <1>7, PutMoves
  <2> QED
      BY <1>8, <2>1 DEF ConfirmReplaceOrder, c, o
<1>9. CASE ~ReplacePriceError(a, k)
  <2> DEFINE p == Put(a, c, n)
             b == BookUpdate(p, c)
  <2>1. p \in AccountType /\ p.book = a.book /\ p.orders[c] = n
      BY <1>1, <1>2, <1>6, PutShape
  <2>2. /\ Touches(p, b, c)
        /\ b.book[n.side][c] = IF Rests(p, c) THEN Showing(n) ELSE a.book[n.side][c]
      BY <1>2, <2>1, BookShapes
  <2> HIDE DEF b
  <2>3. b.book[n.side][c].on => a.book[n.side][c].on
      BY <2>1, <2>2 DEF Rests
  <2>4. Moves(a, b, {})
      BY <1>1, <1>2, <1>6, <1>7, <2>2, <2>3, OneOrderMoves
  <2> QED
      BY <1>9, <2>4 DEF ConfirmReplaceOrder, b, c, n
<1> QED
    BY <1>8, <1>9

\* Sync forgets what it does not list, and shows what it lists as open and stale.
LEMMA SyncShape ==
    ASSUME NEW f, Snapshot(f), NEW c \in ClIDs
    PROVE  LET b == Sync(f) IN
           /\ c \in b.ordersClID <=> f[c].status # "Blank"
           /\ \A x \in ExIDs : b.ordersID[x] = c => f[c].status # "Blank" /\ f[c].id = x
           /\ f[c].status = "Blank" => b.orders[c] = Blank
           /\ f[c].status # "Blank" =>
                 /\ b.orders[c].status = f[c].status /\ b.orders[c].stale
                 /\ b.orders[c].status \in OpenStatus
                 /\ b.orders[c].side = f[c].side /\ b.orders[c].type = f[c].type
                 /\ b.orders[c].id = f[c].id
           /\ \A s \in Sides : b.book[s][c].on => f[c].status # "Blank"
<1> DEFINE listed == {d \in ClIDs : f[d].status # "Blank"}
           b == Sync(f)
           o == [f[c] EXCEPT !.prev = f[c].status, !.unknown = 0, !.amendPrice = NoPrice,
                             !.amendQty = 0, !.stale = TRUE]
<1>1. f[c] \in Order /\ f \in [ClIDs -> Order]
    BY DEF Snapshot
<1>2. b.orders[c] = (IF c \in listed THEN o ELSE Blank) /\ b.ordersClID = listed
    BY DEF Sync
<1>3. /\ o.status = f[c].status /\ o.stale /\ o.side = f[c].side /\ o.type = f[c].type
      /\ o.id = f[c].id
    BY <1>1 DEF Order
<1>4. c \in listed => f[c].status \in OpenStatus
    BY DEF Snapshot
<1>5. ASSUME NEW x \in ExIDs, b.ordersID[x] = c PROVE c \in listed /\ f[c].id = x
  <2>1. b.ordersID[x] = IF \E d \in listed : f[d].id = x
                        THEN CHOOSE d \in listed : f[d].id = x ELSE NoID
      BY DEF Sync
  <2>2. \E d \in listed : f[d].id = x
      BY <1>5, <2>1, AccountConstants
  <2> QED
      BY <1>5, <2>1, <2>2
<1>6. ASSUME NEW s \in Sides, b.book[s][c].on PROVE c \in listed
  <2>1. b.book[s][c] =
          IF /\ c \in listed /\ f[c].status \in OpenStatus /\ f[c].type = "Limit"
             /\ f[c].side = s
          THEN [on |-> TRUE, price |-> f[c].price, qty |-> f[c].leaves] ELSE Off
      BY DEF Sync
  <2> QED
      BY <1>6, <2>1 DEF Off
<1> QED
    BY <1>2, <1>3, <1>4, <1>5, <1>6

----------------------------------------------------------------------------
(***************************************************************************)
(* What a new order looks like, and what its confirmation adds.            *)
(***************************************************************************)

\* What NewOrder makes of the account: the order is known by client id only, the rest is as before.
LEMMA NewOrderShape ==
    ASSUME NEW a \in AccountType, NEW c \in ClIDs, NEW side \in Sides, NEW type \in Types,
           NEW price \in Prices \cup {NoPrice}, NEW qty \in Lots
    PROVE  LET b == NewOrder(a, c, side, type, price, qty)
               o == Submitted(side, type, price, qty)
           IN  /\ b \in AccountType /\ b.ordersClID = a.ordersClID \cup {c}
               /\ b.ordersID = a.ordersID /\ b.book = a.book
               /\ b.orders[c] = o /\ \A d \in ClIDs \ {c} : b.orders[d] = a.orders[d]
               /\ o \in Order /\ o.side = side /\ o.type = type /\ o.price = price
               /\ o.status = "PendingNew" /\ o.id = NoID /\ o.leaves = qty
<1> DEFINE o == Submitted(side, type, price, qty)
           p == Put(a, c, o)
           b == [p EXCEPT !.ordersClID = @ \cup {c}]
<1>1. /\ o \in Order /\ o.side = side /\ o.type = type /\ o.price = price
      /\ o.status = "PendingNew" /\ o.id = NoID /\ o.leaves = qty
    BY AccountConstants DEF Submitted, Order, OrderStatus, PendingStatus, Lots
<1> HIDE DEF o
<1>2. /\ p \in AccountType /\ p.ordersClID = a.ordersClID
      /\ p.ordersID = a.ordersID /\ p.book = a.book /\ p.orders[c] = o
      /\ \A d \in ClIDs \ {c} : p.orders[d] = a.orders[d]
    BY <1>1, PutShape
<1>3. b = NewOrder(a, c, side, type, price, qty)
    BY DEF NewOrder, o
<1> HIDE DEF p
<1>4. /\ b \in AccountType /\ b.ordersClID = a.ordersClID \cup {c}
      /\ b.ordersID = a.ordersID /\ b.book = a.book /\ b.orders[c] = o
      /\ \A d \in ClIDs \ {c} : b.orders[d] = a.orders[d]
    BY <1>2 DEF AccountType
<1> QED
    BY <1>1, <1>3, <1>4 DEF o

\* A PendingNew order of a gets its exchange id and rests in b.
Confirms(a, b, c, x, qty) ==
    LET r == a.orders[c]
        o == Confirmed(r, x, qty)
    IN  /\ b \in AccountType /\ b.ordersClID = a.ordersClID
        /\ b.ordersID = [a.ordersID EXCEPT ![x] = c]
        /\ b.orders[c] = o /\ \A d \in ClIDs \ {c} : b.orders[d] = a.orders[d]
        /\ \A s \in Sides, d \in ClIDs \ {c} : b.book[s][d] = a.book[s][d]
        /\ \A s \in Sides : s # o.side => b.book[s][c] = a.book[s][c]
        /\ b.book[o.side][c] = IF o.type = "Limit" THEN Showing(o) ELSE a.book[o.side][c]
        /\ o \in Order /\ o.status = "New" /\ o.id = x /\ o.price = r.price
        /\ o.side = r.side /\ o.type = r.type /\ o.side \in Sides
        /\ o.leaves = IF qty = 0 THEN r.leaves ELSE qty

\* What ConfirmNewOrder makes of an account whose order is still PendingNew.
LEMMA ConfirmNewOrderShape ==
    ASSUME NEW a \in AccountType, NEW c \in ClIDs, NEW x \in ExIDs, NEW qty \in 0..MaxLots,
           a.orders[c].status = "PendingNew"
    PROVE  Confirms(a, ConfirmNewOrder(a, c, x, qty), c, x, qty)
<1> DEFINE r == a.orders[c]
           o == Confirmed(r, x, qty)
           q == Put(a, c, o)
           p == [q EXCEPT !.ordersID[x] = c]
           b == BookAdd(p, c)
<1>1. r \in Order /\ qty \in Nat
    BY AccountConstants DEF AccountType
<1>2. /\ o \in Order /\ o.status = "New" /\ o.id = x /\ o.price = r.price
      /\ o.side = r.side /\ o.type = r.type /\ o.side \in Sides
      /\ o.leaves = IF qty = 0 THEN r.leaves ELSE qty
    BY <1>1, ZenonT(60) DEF Confirmed, Stamp, Order, OrderStatus, OpenStatus
<1>3. /\ q \in AccountType /\ q.ordersClID = a.ordersClID
      /\ q.ordersID = a.ordersID /\ q.book = a.book /\ q.orders[c] = o
      /\ \A d \in ClIDs \ {c} : q.orders[d] = a.orders[d]
    BY <1>2, PutShape
<1>4. b = ConfirmNewOrder(a, c, x, qty)
    BY DEF ConfirmNewOrder
<1> HIDE DEF q, o
<1>5. /\ p \in AccountType /\ p.ordersClID = a.ordersClID
      /\ p.ordersID = [a.ordersID EXCEPT ![x] = c] /\ p.book = a.book /\ p.orders[c] = o
      /\ \A d \in ClIDs \ {c} : p.orders[d] = a.orders[d]
    BY <1>3 DEF AccountType
<1> HIDE DEF p
<1>6. Touches(p, b, c)
      /\ b.book[o.side][c] = IF o.type = "Limit" THEN Showing(o) ELSE p.book[o.side][c]
    BY <1>5, BookShapes
<1> HIDE DEF b
<1>7. /\ b \in AccountType /\ b.ordersClID = a.ordersClID
      /\ b.ordersID = [a.ordersID EXCEPT ![x] = c] /\ b.orders[c] = o
      /\ \A d \in ClIDs \ {c} : b.orders[d] = a.orders[d]
      /\ \A s \in Sides, d \in ClIDs \ {c} : b.book[s][d] = a.book[s][d]
      /\ \A s \in Sides : s # o.side => b.book[s][c] = a.book[s][c]
    BY <1>5, <1>6 DEF Touches
<1>8. b.book[o.side][c] = IF o.type = "Limit" THEN Showing(o) ELSE a.book[o.side][c]
    BY <1>5, <1>6
<1> QED
    BY <1>2, <1>4, <1>7, <1>8 DEF o, Confirms

\* An order the client-id index does not know is entered and confirmed at once.
\* An exchange id may still lead to the object of an earlier entry.
LEMMA EnterConfirmedInv ==
    ASSUME NEW a, AccountInv(a), NEW c \in ClIDs, NEW side \in Sides, NEW type \in Types,
           NEW price \in Prices, NEW qty \in Lots, NEW x \in ExIDs,
           Referenced(a, c) => a.orders[c].side = side /\ a.orders[c].type = type,
           a.ordersID[x] \in {NoID, c}, \A d \in ClIDs \ {c} : a.orders[d].id # x
    PROVE  AccountInv(ConfirmNewOrder(NewOrder(a, c, side, type, price, qty), c, x, 0))
<1> DEFINE n == NewOrder(a, c, side, type, price, qty)
           r == Submitted(side, type, price, qty)
           b == ConfirmNewOrder(n, c, x, 0)
           o == Confirmed(r, x, 0)
<1>1. /\ a \in AccountType /\ OrderInv(a, c) /\ 0 \in 0..MaxLots
      /\ price \in Prices \cup {NoPrice} /\ price # NoPrice /\ qty > 0 /\ qty \in Nat
    BY AccountConstants DEF AccountInv, Prices, NoPrice, Lots
<1>2. /\ n \in AccountType /\ n.ordersClID = a.ordersClID \cup {c}
      /\ n.ordersID = a.ordersID /\ n.book = a.book
      /\ n.orders[c] = r /\ \A d \in ClIDs \ {c} : n.orders[d] = a.orders[d]
      /\ r \in Order /\ r.side = side /\ r.type = type /\ r.price = price
      /\ r.status = "PendingNew" /\ r.id = NoID /\ r.leaves = qty
    BY <1>1, NewOrderShape
<1> HIDE DEF n, r
<1>3. /\ b \in AccountType /\ b.ordersClID = n.ordersClID
      /\ b.ordersID = [n.ordersID EXCEPT ![x] = c]
      /\ b.orders[c] = o /\ \A d \in ClIDs \ {c} : b.orders[d] = n.orders[d]
      /\ \A s \in Sides, d \in ClIDs \ {c} : b.book[s][d] = n.book[s][d]
      /\ \A s \in Sides : s # o.side => b.book[s][c] = n.book[s][c]
      /\ b.book[o.side][c] = IF o.type = "Limit" THEN Showing(o) ELSE n.book[o.side][c]
      /\ o \in Order /\ o.status = "New" /\ o.id = x /\ o.price = r.price
      /\ o.side = r.side /\ o.type = r.type /\ o.side \in Sides
      /\ o.leaves = r.leaves
  <2>1. n.orders[c].status = "PendingNew"
      BY <1>2
  <2>2. Confirms(n, b, c, x, 0)
      BY <1>1, <1>2, <2>1, ConfirmNewOrderShape
  <2> HIDE DEF b
  <2> QED
      BY <1>2, <2>2 DEF Confirms
<1> HIDE DEF b, o
<1>4. Sound(o)
    BY <1>1, <1>2, <1>3, AccountConstants DEF Sound, Working, OpenStatus
<1>5. Referenced(b, c) /\ b.ordersID[x] = c
    BY <1>2, <1>3 DEF Referenced, AccountType
<1>6. ASSUME NEW s \in Sides, a.book[s][c].on
      PROVE  s = side /\ type = "Limit"
    BY <1>1, <1>6 DEF OrderInv, EntryMirrorsOrder
<1>7. EntryMirrorsOrder(b, c)
  <2>1. ASSUME NEW s \in Sides, b.book[s][c].on
        PROVE  s = side /\ type = "Limit" /\ b.book[s][c] = Showing(o)
      BY <1>2, <1>3, <1>6, <2>1
  <2>2. o.status \notin ClosedStatus /\ o.id # NoID
      BY <1>3, AccountConstants DEF ClosedStatus
  <2> QED
      BY <1>2, <1>3, <1>5, <2>1, <2>2 DEF EntryMirrorsOrder, Showing
<1>8. WorkingOrderRests(b, c)
    BY <1>3 DEF WorkingOrderRests, Showing
<1>9. ConfirmedIsReachable(b, c)
    BY <1>5 DEF ConfirmedIsReachable
<1>10. OrderInv(b, c)
    BY <1>3, <1>4, <1>5, <1>7, <1>8, <1>9, OrderInvFromParts
<1>11. /\ \A d \in ClIDs \ {c}, y \in ExIDs : b.ordersID[y] = d <=> a.ordersID[y] = d
       /\ \A d \in ClIDs \ {c} : a.orders[d].id \in ExIDs =>
             b.ordersID[a.orders[d].id] = a.ordersID[a.orders[d].id]
    BY <1>1, <1>2, <1>3, AccountConstants DEF AccountType
<1>12. /\ b \in AccountType
       /\ \A d \in ClIDs \ {c} : d \in b.ordersClID <=> d \in a.ordersClID
       /\ \A d \in ClIDs \ {c} : b.orders[d] = a.orders[d]
       /\ \A s \in Sides, d \in ClIDs \ {c} : b.book[s][d] = a.book[s][d]
    BY <1>2, <1>3
<1> QED
    BY <1>10, <1>11, <1>12, OneOrder DEF b, n
=============================================================================
