-------------------------- MODULE VenueTradesProofs --------------------------
(***************************************************************************)
(* The theorems about VenueTrades!Spec, for every way of aggregating in    *)
(* its table, and any number of trades, messages and milliseconds.         *)
(***************************************************************************)
EXTENDS VenueTrades, Sequences, SequencesExt, FiniteSetTheorems, SequenceTheorems, TLAPS

(***************************************************************************)
(* Facts about numbers, sequences and sets that say nothing of the program. *)
(***************************************************************************)

\* Induction over the natural numbers, for a set instead of a predicate: if n were
\* missing, the successor would map the members up to n one to one into those
\* that are not 0, and there is one less of them.
LEMMA NatSetInduction ==
    ASSUME NEW T, 0 \in T, \A n \in Nat : n \in T => n + 1 \in T
    PROVE  Nat \subseteq T
<1>1. SUFFICES ASSUME NEW n \in Nat, n \notin T PROVE FALSE
    OBVIOUS
<1> DEFINE A == {k \in 0..n : k \in T}
           B == A \ {0}
           f == [k \in A |-> k + 1]
<1>2. IsFiniteSet(A) /\ 0 \in A
  <2>1. IsFiniteSet(0..n)
      BY FS_Interval
  <2> QED
      BY <2>1, FS_Subset
<1>3. Cardinality(A) \in Nat /\ IsFiniteSet(B) /\ Cardinality(B) = Cardinality(A) - 1
  <2> HIDE DEF A
  <2> QED
      BY <1>2, FS_RemoveElement, FS_CardinalityType
<1>4. f \in Injection(A, B)
  <2>1. \A k \in A : k + 1 \in B /\ k \in Nat
      BY <1>1
  <2> HIDE DEF A, B
  <2>2. f \in [A -> B]
      BY <2>1
  <2>3. \A j, k \in A : f[j] = f[k] => j = k
      BY <2>1
  <2> QED
      BY <2>2, <2>3 DEF Injection, IsInjective
<1>5. Cardinality(A) <= Cardinality(B)
  <2> HIDE DEF A, B, f
  <2> QED
      BY <1>2, <1>3, <1>4, FS_Injection
<1> QED
    BY <1>3, <1>5

\* Where the elements of a concatenation come from.
LEMMA Concatenation ==
    ASSUME NEW S, NEW q \in Seq(S), NEW r \in Seq(S)
    PROVE  /\ q \o r \in Seq(S) /\ Len(q \o r) = Len(q) + Len(r)
           /\ \A i \in 1..Len(q) : (q \o r)[i] = q[i]
           /\ \A i \in 1..Len(r) : (q \o r)[Len(q) + i] = r[i]
           /\ \A i \in 1..Len(q \o r) :
                 i \in 1..Len(q) \/ \E j \in 1..Len(r) : i = Len(q) + j
<1>1. /\ q \o r \in Seq(S) /\ Len(q \o r) = Len(q) + Len(r)
      /\ \A i \in 1..Len(q) : (q \o r)[i] = q[i]
      /\ \A i \in 1..Len(r) : (q \o r)[Len(q) + i] = r[i]
    OBVIOUS
<1>2. ASSUME NEW i \in 1..Len(q \o r), i \notin 1..Len(q)
      PROVE  \E j \in 1..Len(r) : i = Len(q) + j
  <2>1. Len(q) \in Nat /\ Len(r) \in Nat
      OBVIOUS
  <2>2. i - Len(q) \in 1..Len(r) /\ i = Len(q) + (i - Len(q))
      BY <1>1, <1>2, <2>1
  <2> QED
      BY <2>2
<1> QED
    BY <1>1, <1>2

\* Two sequences are equal when their elements are.
LEMMA SameElements ==
    ASSUME NEW S, NEW p \in Seq(S), NEW q \in Seq(S), Len(p) = Len(q),
           \A i \in 1..Len(p) : p[i] = q[i]
    PROVE  p = q
OBVIOUS

\* Two sequences read, and written, as one.
LEMMA AppendJoins ==
    ASSUME NEW S, NEW r \in Seq(S), NEW p \in Seq(S), NEW m \in S
    PROVE  r \o Append(p, m) = Append(r \o p, m)
OBVIOUS

(***************************************************************************)
(* Folds over sequences, from the left: f[s] is what has been made of the  *)
(* elements whose indices are in s.                                        *)

(***************************************************************************)

\* Numbers up to some number have a greatest.
LEMMA GreatestExists ==
    ASSUME NEW n \in Nat, NEW s \in SUBSET (0..n), s # {}
    PROVE  \E x \in s : \A y \in s : x >= y
<1> DEFINE T == {k \in Nat : \A r \in SUBSET (0..k) : r # {} => \E x \in r : \A y \in r : x >= y}
<1>1. 0 \in T
  <2>1. 0..0 = {0}
      OBVIOUS
  <2>2. ASSUME NEW r \in SUBSET {0}, r # {} PROVE 0 \in r /\ \A y \in r : 0 >= y
    <3>1. \A y \in r : y = 0
        OBVIOUS
    <3>2. PICK y : y \in r
        BY <2>2
    <3>3. y = 0
        BY <3>1, <3>2
    <3> QED
        BY <3>1, <3>2, <3>3
  <2> QED
      BY <2>1, <2>2
<1>2. ASSUME NEW k \in Nat, k \in T PROVE k + 1 \in T
  <2>1. ASSUME NEW r \in SUBSET (0..(k + 1)), r # {} PROVE \E x \in r : \A y \in r : x >= y
    <3>1. CASE k + 1 \in r
      <4>1. \A y \in r : k + 1 >= y
          OBVIOUS
      <4> QED
          BY <3>1, <4>1
    <3>2. CASE k + 1 \notin r
      <4>1. r \in SUBSET (0..k)
        <5>1. \A y \in r : y \in 0..(k + 1) /\ y # k + 1
            BY <3>2
        <5>2. \A y \in 0..(k + 1) : y # k + 1 => y \in 0..k
            OBVIOUS
        <5> QED
            BY <5>1, <5>2
      <4> QED
          BY <1>2, <2>1, <4>1
    <3> QED
        BY <3>1, <3>2
  <2> QED
      BY <2>1
<1> HIDE DEF T
<1>3. Nat \subseteq T
    BY <1>1, <1>2, NatSetInduction
<1> QED
    BY <1>3 DEF T

\* A set of numbers without its greatest.
LEMMA MaxTaken ==
    ASSUME NEW n \in Nat, NEW s \in SUBSET (1..(n + 1)), s # {}
    PROVE  Max(s) \in s /\ s \ {Max(s)} \in SUBSET (1..n)
<1>1. \E x \in s : \A y \in s : x >= y
  <2>1. n + 1 \in Nat /\ s \in SUBSET (0..(n + 1))
      OBVIOUS
  <2> QED
      BY <2>1, GreatestExists
<1>2. PICK m : m = Max(s)
    OBVIOUS
<1>3. m \in s /\ \A y \in s : m >= y
    BY <1>1, <1>2 DEF Max
<1>4. ASSUME NEW y \in s, y # m PROVE y \in 1..n
  <2>1. y \in 1..(n + 1) /\ m \in 1..(n + 1) /\ m >= y
      BY <1>3
  <2> QED
      BY <2>1, <1>4
<1> QED
    BY <1>2, <1>3, <1>4

\* The greatest of an interval.
LEMMA MaxOfInterval ==
    ASSUME NEW i \in Nat, i # 0
    PROVE  1..i # {} /\ Max(1..i) = i /\ (1..i) \ {i} = 1..(i - 1)
<1>1. PICK m : m = Max(1..i)
    OBVIOUS
<1>2. i \in 1..i /\ \A y \in 1..i : i >= y
    OBVIOUS
<1>3. m \in 1..i /\ \A y \in 1..i : m >= y
    BY <1>1, <1>2 DEF Max
<1>4. m = i
    BY <1>2, <1>3
<1> QED
    BY <1>1, <1>2, <1>4

\* The fold of L elements by the steps F.
IsLeftFold(f, L, base, F) ==
    f = [s \in SUBSET (1..L) |-> IF s = {} THEN base ELSE F[Max(s)][f[s \ {Max(s)}]]]

\* There is such a function, and it stays where the steps stay.
LEMMA LeftFoldExists ==
    ASSUME NEW L \in Nat, NEW T, NEW base \in T, NEW F,
           \A i \in 1..L : \A a \in T : F[i][a] \in T
    PROVE  \E f : IsLeftFold(f, L, base, F) /\ \A s \in SUBSET (1..L) : f[s] \in T
<1> DEFINE After(f, s) == IF s = {} THEN base ELSE F[Max(s)][f[s \ {Max(s)}]]
           Fold(f, n) == \A s \in SUBSET (1..n) : f[s] = After(f, s) /\ (n <= L => f[s] \in T)
           N == {n \in Nat : \E f : Fold(f, n)}
<1>1. 0 \in N
  <2> DEFINE f == [s \in SUBSET (1..0) |-> base]
  <2>1. \A s \in SUBSET (1..0) : s = {}
      OBVIOUS
  <2>2. Fold(f, 0)
      BY <2>1
  <2> QED
      BY <2>2
<1>2. ASSUME NEW n \in Nat, n \in N PROVE n + 1 \in N
  <2>1. PICK f : Fold(f, n)
      BY <1>2
  <2>2. PICK g : g = [s \in SUBSET (1..(n + 1)) |-> After(f, s)]
      OBVIOUS
  <2>3. ASSUME NEW s \in SUBSET (1..(n + 1))
        PROVE  g[s] = After(g, s) /\ (n + 1 <= L => g[s] \in T)
    <3>1. CASE s = {}
        BY <2>2, <3>1
    <3>2. CASE s # {}
      <4>1. PICK m \in s : m = Max(s)
          BY <3>2, MaxTaken
      <4>2. PICK t \in SUBSET (1..n) : t = s \ {m}
          BY <3>2, <4>1, MaxTaken
      <4>3. t \in SUBSET (1..(n + 1))
          BY <2>3, <4>2
      <4>4. f[t] = After(f, t) /\ (n <= L => f[t] \in T)
          BY <2>1
      <4>5. g[t] = f[t]
          BY <2>2, <4>3, <4>4
      <4>6. g[s] = F[m][f[t]]
          BY <2>2, <3>2, <4>1, <4>2
      <4>7. After(g, s) = F[m][g[t]]
          BY <3>2, <4>1, <4>2
      <4>8. n + 1 <= L => g[s] \in T
        <5>1. n + 1 <= L => m \in 1..L /\ f[t] \in T
          <6>1. m \in 1..(n + 1)
              BY <2>3, <4>1
          <6> QED
              BY <4>4, <6>1
        <5> QED
            BY <5>1, <4>6
      <4> QED
          BY <4>5, <4>6, <4>7, <4>8
    <3> QED
        BY <3>1, <3>2
  <2>4. Fold(g, n + 1)
      BY <2>3
  <2> HIDE DEF Fold
  <2> QED
      BY <2>4
<1>3. PICK f : Fold(f, L)
  <2>1. L \in N
    <3> HIDE DEF N
    <3>1. Nat \subseteq N
        BY <1>1, <1>2, NatSetInduction
    <3> QED
        BY <3>1
  <2> QED
      BY <2>1
<1>4. PICK g : g = [s \in SUBSET (1..L) |-> f[s]]
    OBVIOUS
<1>5. ASSUME NEW s \in SUBSET (1..L) PROVE g[s] = After(g, s) /\ g[s] \in T
  <2>1. g[s] = f[s] /\ f[s] = After(f, s) /\ f[s] \in T
    <3>1. g[s] = f[s]
        BY <1>4
    <3>2. L <= L
        OBVIOUS
    <3> HIDE DEF After
    <3> QED
        BY <1>3, <3>1, <3>2
  <2>2. After(f, s) = After(g, s)
    <3>1. s \ {Max(s)} \in SUBSET (1..L)
        OBVIOUS
    <3>2. g[s \ {Max(s)}] = f[s \ {Max(s)}]
        BY <1>4, <3>1
    <3> QED
        BY <3>2
  <2> QED
      BY <2>1, <2>2
<1>6. g = [s \in SUBSET (1..L) |-> After(g, s)]
    BY <1>4, <1>5
<1> QED
    BY <1>5, <1>6 DEF IsLeftFold

----------------------------------------------------------------------------

(***************************************************************************)
(* Sequences of steps: h[i] is what L elements are after the first i.      *)

(***************************************************************************)
IsIteration(h, L, base, F) ==
    h = [i \in 0..L |-> IF i = 0 THEN base ELSE F[i][h[i - 1]]]

\* There is such a sequence, and it stays where the steps stay.
LEMMA IterationExists ==
    ASSUME NEW L \in Nat, NEW T, NEW base \in T, NEW F,
           \A i \in 1..L : \A a \in T : F[i][a] \in T
    PROVE  \E h : IsIteration(h, L, base, F) /\ \A i \in 0..L : h[i] \in T
<1>1. PICK f : IsLeftFold(f, L, base, F) /\ \A s \in SUBSET (1..L) : f[s] \in T
    BY LeftFoldExists
<1>2. PICK h : h = [i \in 0..L |-> f[1..i]]
    OBVIOUS
<1>3. ASSUME NEW i \in 0..L
      PROVE  h[i] \in T /\ h[i] = IF i = 0 THEN base ELSE F[i][h[i - 1]]
  <2>1. 1..i \in SUBSET (1..L) /\ h[i] = f[1..i]
      BY <1>2
  <2>2. h[i] \in T
      BY <1>1, <2>1
  <2>3. CASE i = 0
    <3>1. 1..0 = {}
        OBVIOUS
    <3> QED
        BY <1>1, <2>1, <2>2, <2>3, <3>1 DEF IsLeftFold
  <2>4. CASE i # 0
    <3>1. 1..i # {} /\ Max(1..i) = i /\ (1..i) \ {i} = 1..(i - 1)
        BY <2>4, MaxOfInterval
    <3>2. f[1..i] = F[i][f[1..(i - 1)]]
      <4>1. PICK s \in SUBSET (1..L) : s = 1..i
          BY <2>1
      <4>2. f[s] = F[Max(s)][f[s \ {Max(s)}]]
          BY <1>1, <3>1, <4>1 DEF IsLeftFold
      <4> QED
          BY <3>1, <4>1, <4>2
    <3>3. i - 1 \in 0..L
        BY <2>4
    <3>4. h[i - 1] = f[1..(i - 1)]
        BY <1>2, <3>3
    <3> QED
        BY <2>1, <2>2, <2>4, <3>2, <3>4
  <2> QED
      BY <2>3, <2>4
<1>4. h = [i \in 0..L |-> IF i = 0 THEN base ELSE F[i][h[i - 1]]]
    BY <1>2, <1>3
<1> QED
    BY <1>3, <1>4 DEF IsIteration

\* The last element of the second changes.
LEMMA ChangeJoins ==
    ASSUME NEW S, NEW r \in Seq(S), NEW p \in Seq(S), p # <<>>, NEW m \in S
    PROVE  /\ [p EXCEPT ![Len(p)] = m] \in Seq(S)
           /\ r \o p # <<>> /\ (r \o p)[Len(r \o p)] = p[Len(p)]
           /\ r \o [p EXCEPT ![Len(p)] = m] = [r \o p EXCEPT ![Len(r \o p)] = m]
<1>1. PICK k \in Nat, l \in Nat : k = Len(r) /\ l = Len(p)
    OBVIOUS
<1>2. l >= 1
    BY <1>1
<1>3. PICK c : c = [p EXCEPT ![l] = m]
    OBVIOUS
<1>4. c \in Seq(S) /\ Len(c) = l /\ c[l] = m /\ \A i \in 1..l : i # l => c[i] = p[i]
    BY <1>1, <1>2, <1>3
<1>5. PICK a \in Seq(S) : a = r \o p
    BY Concatenation
<1>6. /\ Len(a) = k + l /\ \A i \in 1..k : a[i] = r[i]
      /\ \A i \in 1..l : a[k + i] = p[i]
  <2>1. Len(a) = k + l
      BY <1>1, <1>5
  <2>2. \A i \in 1..k : a[i] = r[i]
      BY <1>1, <1>5, Concatenation
  <2>3. \A i \in 1..l : a[k + i] = p[i]
      BY <1>1, <1>5, Concatenation
  <2> QED
      BY <2>1, <2>2, <2>3
<1>7. PICK b \in Seq(S) : b = r \o c
    BY <1>4, Concatenation
<1>8. /\ Len(b) = k + l /\ \A i \in 1..k : b[i] = r[i]
      /\ \A i \in 1..l : b[k + i] = c[i]
      /\ \A i \in 1..(k + l) : i \in 1..k \/ \E j \in 1..l : i = k + j
  <2>1. Len(b) = k + l
    <3>1. Len(r \o c) = Len(r) + Len(c)
        BY <1>4, Concatenation
    <3> QED
        BY <1>1, <1>4, <1>7, <3>1
  <2>2. \A i \in 1..k : b[i] = r[i]
      BY <1>1, <1>4, <1>7, Concatenation
  <2>3. \A i \in 1..l : b[k + i] = c[i]
      BY <1>1, <1>4, <1>7, Concatenation
  <2>4. ASSUME NEW i \in 1..(k + l), i \notin 1..k PROVE i - k \in 1..l /\ i = k + (i - k)
      BY <2>4
  <2> QED
      BY <2>1, <2>2, <2>3, <2>4
<1>9. PICK d : d = [a EXCEPT ![k + l] = m]
    OBVIOUS
<1>10. /\ d \in Seq(S) /\ Len(d) = k + l /\ d[k + l] = m
       /\ \A i \in 1..(k + l) : i # k + l => d[i] = a[i]
    BY <1>2, <1>6, <1>9
<1>11. ASSUME NEW i \in 1..(k + l) PROVE b[i] = d[i]
  <2>1. CASE i \in 1..k
    <3>1. i # k + l
        BY <1>2, <2>1
    <3> QED
        BY <1>6, <1>8, <1>10, <2>1, <3>1
  <2>2. ASSUME NEW j \in 1..l, i = k + j PROVE b[i] = d[i]
    <3>1. CASE j = l
        BY <1>4, <1>8, <1>10, <2>2, <3>1
    <3>2. CASE j # l
      <4>1. i # k + l
          BY <2>2, <3>2
      <4> QED
          BY <1>4, <1>6, <1>8, <1>10, <2>2, <3>2, <4>1
    <3> QED
        BY <3>1, <3>2
  <2> QED
      BY <1>8, <2>1, <2>2
<1>12. b = d
    BY <1>8, <1>10, <1>11, SameElements
<1>13. a # <<>> /\ a[k + l] = p[l]
  <2>1. l \in 1..l
      BY <1>2
  <2> QED
      BY <1>2, <1>6, <2>1
<1>14. Len(a) = k + l
    BY <1>6
<1> QED
    BY <1>1, <1>3, <1>4, <1>5, <1>7, <1>9, <1>12, <1>13, <1>14

(***************************************************************************)
(* The states of VenueTrades.                                                *)
(***************************************************************************)

Flushes == {"batch", "sides", "single", "stash", "event"}

TradeRules == [flush : Flushes, key : {"time", "shifted", "order", "trade"}, id : {"key", "first"},
               late : Nat, timer : {"aggregate", "message"}, bump : BOOLEAN]

\* Which flush goes with which timer: this is where a new row may not fit.
Consistent(r) ==
    /\ r \in TradeRules
    /\ r.flush = "stash" => r.bump
    /\ r.flush = "stash" /\ r.late > 0 => r.timer = "aggregate"

Trade == [n : Nat, time : Nat, order : Nat, side : Sides]

Keys == {<<t>> : t \in Nat} \cup (Nat \X (Sides \cup {"trade"}))

Agg == [id : Keys, key : Keys, ts : Nat, at : Nat, side : Sides, trades : Seq(Nat)]

----------------------------------------------------------------------------
(***************************************************************************)
(* The invariant.                                                          *)
(***************************************************************************)
StateTypes ==
    /\ Consistent(rules)
    /\ now \in 1..MaxTime /\ lastTs \in Nat /\ open \in BOOLEAN
    /\ trades \in Seq(Trade) /\ timers \in Seq(Nat)
    /\ stash \in Seq(Agg) /\ published \in Seq(Agg)

\* The trades of the exchange are numbered; those of one taker have one side.
Chain(q) ==
    /\ \A i \in 1..Len(q) : q[i].n = i
    /\ \A i, j \in 1..Len(q) : i <= j => q[i].order <= q[j].order
    /\ \A i, j \in 1..Len(q) : q[i].order = q[j].order => q[i].side = q[j].side

\* The aggregates q have the first n trades of tr, each once and in order.
Complete(q, n) ==
    \A m \in 1..n : \E i \in 1..Len(q) : \E k \in 1..Len(q[i].trades) : q[i].trades[k] = m

Within(q, n) ==
    \A i \in 1..Len(q) :
        /\ Len(q[i].trades) >= 1
        /\ \A k \in 1..Len(q[i].trades) : q[i].trades[k] \in 1..n

Follows(r, m, n, tr) ==
    m # n /\ (r.flush # "sides" \/ tr[m].side = tr[n].side => m < n)

InOrder(r, q, tr) ==
    /\ \A i, j \in 1..Len(q) : i < j =>
          \A k \in 1..Len(q[i].trades), l \in 1..Len(q[j].trades) :
              Follows(r, q[i].trades[k], q[j].trades[l], tr)
    /\ \A i \in 1..Len(q) : \A k, l \in 1..Len(q[i].trades) :
          k < l => Follows(r, q[i].trades[k], q[i].trades[l], tr)

\* What Key compares, where the rules are r.
KeyOf(r, x) ==
    CASE r.key = "time"    -> <<x.time, x.side>>
      [] r.key = "shifted" -> <<x.time + (IF x.side = "buy" THEN 1 ELSE 0)>>
      [] r.key = "order"   -> <<x.order>>
      [] r.key = "trade"   -> <<x.n, "trade">>

\* An aggregate is made of trades of its side, has the id of the first of them, and
\* the key of all of them where trades are compared by their keys.
Alike(r, q, tr) ==
    \A i \in 1..Len(q) :
        /\ r.id = "first" => q[i].id = <<q[i].trades[1]>>
        /\ \A k \in 1..Len(q[i].trades) :
              /\ r.key # "shifted" => tr[q[i].trades[k]].side = q[i].side
              /\ r.flush # "sides" => KeyOf(r, tr[q[i].trades[k]]) = q[i].key

\* Timestamps increase up to the last one.
Increasing(r, q, last) ==
    /\ r.bump => \A i, j \in 1..Len(q) : i < j => q[i].ts < q[j].ts
    /\ r.bump => \A i \in 1..Len(q) : q[i].ts <= last

Sound(r, q, n, tr, last) ==
    /\ Complete(q, n) /\ Within(q, n) /\ InOrder(r, q, tr)
    /\ Alike(r, q, tr) /\ Increasing(r, q, last)

\* The stash begins with an aggregate that is not ahead of the clock, and no
\* aggregate is ahead of it but by coming a millisecond after another.
Aging(r, p, last, t) ==
    r.flush = "stash" =>
        /\ p = <<>> => last < t
        /\ p # <<>> => p[1].ts <= t /\ p[Len(p)].ts = last
        /\ \A j \in 1..Len(p) : j + 1 <= Len(p) =>
              p[j + 1].ts <= t \/ p[j + 1].ts = p[j].ts + 1

\* An aggregate has a timer, or its timestamp came after another's.
Timed(r, p, due) ==
    r.flush = "stash" /\ r.late > 0 =>
        \A j \in 1..Len(p) :
            \/ p[j].ts > p[j].at
            \/ \E i \in 1..Len(due) : due[i] = p[j].at + Age + r.late

Stashed ==
    /\ open = (stash # <<>>)
    /\ rules.flush \notin {"stash", "event"} => stash = <<>>
    /\ Aging(rules, stash, lastTs, now) /\ Timed(rules, stash, timers)

IInv ==
    /\ StateTypes
    /\ Chain(trades)
    /\ Sound(rules, Aggregated, Len(trades), trades, lastTs)
    /\ Stashed

----------------------------------------------------------------------------
(***************************************************************************)
(* Aggregates.                                                             *)
(***************************************************************************)

\* The fields of an aggregate.
LEMMA AggFields ==
    ASSUME NEW e \in Agg
    PROVE  /\ e.id \in Keys /\ e.key \in Keys /\ e.ts \in Nat /\ e.at \in Nat /\ e.side \in Sides
           /\ e.trades \in Seq(Nat) /\ Len(e.trades) \in Nat
BY DEF Agg

Parts(r, q, n, tr, last) ==
    /\ Within(q, n) /\ InOrder(r, q, tr) /\ Alike(r, q, tr) /\ Increasing(r, q, last)

\* e can come after q.
Fits(r, q, e, n, tr, last) ==
    /\ Len(e.trades) >= 1 /\ \A k \in 1..Len(e.trades) : e.trades[k] \in 1..n
    /\ \A k, l \in 1..Len(e.trades) : k < l => Follows(r, e.trades[k], e.trades[l], tr)
    /\ \A i \in 1..Len(q) : \A k \in 1..Len(q[i].trades), l \in 1..Len(e.trades) :
           Follows(r, q[i].trades[k], e.trades[l], tr)
    /\ r.id = "first" => e.id = <<e.trades[1]>>
    /\ \A k \in 1..Len(e.trades) :
           /\ r.key # "shifted" => tr[e.trades[k]].side = e.side
           /\ r.flush # "sides" => KeyOf(r, tr[e.trades[k]]) = e.key
    /\ r.bump => last < e.ts

\* A new aggregate comes last.
LEMMA AddedParts ==
    ASSUME NEW q \in Seq(Agg), NEW e \in Agg, NEW n \in Nat, NEW tr, NEW last \in Nat,
           Parts(rules, q, n, tr, last), Fits(rules, q, e, n, tr, last)
    PROVE  Append(q, e) \in Seq(Agg) /\ Parts(rules, Append(q, e), n, tr, e.ts)
<1>1. PICK r \in Seq(Agg) : r = Append(q, e)
    BY AppendProperties
<1>2. PICK L \in Nat : L = Len(q)
    OBVIOUS
<1>3. Len(r) = L + 1 /\ r[L + 1] = e /\ \A i \in 1..L : r[i] = q[i]
    BY <1>1, <1>2
<1>4. \A i \in 1..Len(r) : i \in 1..L \/ i = L + 1
    BY <1>3
<1>5. Within(r, n)
    BY <1>2, <1>3, <1>4 DEF Within, Parts, Fits
<1>6. InOrder(rules, r, tr)
  <2>1. ASSUME NEW i \in 1..Len(r), NEW j \in 1..Len(r), i < j,
               NEW k \in 1..Len(r[i].trades), NEW l \in 1..Len(r[j].trades)
        PROVE  Follows(rules, r[i].trades[k], r[j].trades[l], tr)
    <3>1. i \in 1..L /\ r[i] = q[i]
        BY <1>3, <1>4, <2>1
    <3>2. CASE j \in 1..L
        BY <1>2, <1>3, <2>1, <3>1, <3>2 DEF InOrder, Parts
    <3>3. CASE j = L + 1
        BY <1>2, <1>3, <2>1, <3>1, <3>3 DEF Fits
    <3> QED
        BY <1>4, <3>2, <3>3
  <2>2. ASSUME NEW i \in 1..Len(r), NEW k \in 1..Len(r[i].trades), NEW l \in 1..Len(r[i].trades),
               k < l
        PROVE  Follows(rules, r[i].trades[k], r[i].trades[l], tr)
    <3>1. CASE i \in 1..L
        BY <1>2, <1>3, <2>2, <3>1 DEF InOrder, Parts
    <3>2. CASE i = L + 1
        BY <1>3, <2>2, <3>2 DEF Fits
    <3> QED
        BY <1>4, <3>1, <3>2
  <2> QED
      BY <2>1, <2>2 DEF InOrder
<1>7. Alike(rules, r, tr)
  <2>1. ASSUME NEW i \in 1..Len(r)
        PROVE  /\ rules.id = "first" => r[i].id = <<r[i].trades[1]>>
               /\ \A k \in 1..Len(r[i].trades) :
                     /\ rules.key # "shifted" => tr[r[i].trades[k]].side = r[i].side
                     /\ rules.flush # "sides" => KeyOf(rules, tr[r[i].trades[k]]) = r[i].key
    <3>1. CASE i \in 1..L
        BY <1>2, <1>3, <3>1 DEF Parts, Alike
    <3>2. CASE i = L + 1
        BY <1>3, <3>2 DEF Fits
    <3> QED
        BY <1>4, <3>1, <3>2
  <2> QED
      BY <2>1 DEF Alike
<1>8. Increasing(rules, r, e.ts)
  <2>1. \A i \in 1..L : q[i].ts \in Nat
    <3>1. \A i \in 1..L : q[i] \in Agg
        BY <1>2
    <3> QED
        BY <3>1, AggFields
  <2>2. last \in Nat /\ e.ts \in Nat
      BY AggFields
  <2>3. ASSUME rules.bump, NEW i \in 1..L PROVE q[i].ts < e.ts
      BY <1>2, <2>1, <2>2, <2>3 DEF Increasing, Parts, Fits
  <2>4. ASSUME rules.bump, NEW i \in 1..Len(r) PROVE r[i].ts <= e.ts
      BY <1>3, <1>4, <2>1, <2>2, <2>3, <2>4
  <2>5. ASSUME rules.bump, NEW i \in 1..Len(r), NEW j \in 1..Len(r), i < j PROVE r[i].ts < r[j].ts
    <3>1. i \in 1..L /\ r[i] = q[i]
        BY <1>3, <1>4, <2>5
    <3>2. CASE j \in 1..L
        BY <1>2, <1>3, <2>5, <3>1, <3>2 DEF Increasing, Parts
    <3>3. CASE j = L + 1
        BY <1>3, <2>3, <2>5, <3>1, <3>3
    <3> QED
        BY <1>4, <3>2, <3>3
  <2> QED
      BY <2>4, <2>5 DEF Increasing
<1> QED
    BY <1>1, <1>5, <1>6, <1>7, <1>8 DEF Parts

\* What is known of the first n trades is known of them among more.
LEMMA MoreTrades ==
    ASSUME NEW q, NEW n \in Nat, NEW m \in Nat, n <= m, Within(q, n)
    PROVE  Within(q, m)
<1>1. 1..n \subseteq 1..m
    OBVIOUS
<1> QED
    BY <1>1 DEF Within

\* The aggregates have the same trades when more are known.
LEMMA LongerChain ==
    ASSUME NEW q, NEW n \in Nat, NEW last, NEW tr, NEW ur, Sound(rules, q, n, tr, last),
           \A m \in 1..n : ur[m] = tr[m]
    PROVE  Sound(rules, q, n, ur, last)
<1>1. \A i \in 1..Len(q) : \A k \in 1..Len(q[i].trades) :
          q[i].trades[k] \in 1..n /\ ur[q[i].trades[k]] = tr[q[i].trades[k]]
    BY DEF Sound, Within
<1>2. \A i, j \in 1..Len(q) : \A k \in 1..Len(q[i].trades), l \in 1..Len(q[j].trades) :
          Follows(rules, q[i].trades[k], q[j].trades[l], tr)
              => Follows(rules, q[i].trades[k], q[j].trades[l], ur)
    BY <1>1, ZenonT(40) DEF Follows
<1>3. InOrder(rules, q, ur)
    BY <1>2 DEF Sound, InOrder
<1>4. Alike(rules, q, ur)
    BY <1>1, SMTT(30) DEF Sound, Alike
<1> QED
    BY <1>3, <1>4 DEF Sound

\* The stamp of a new aggregate.
LEMMA StampLater ==
    ASSUME Consistent(rules), NEW last \in Nat, now \in Nat, NEW ts, ts = Stamp(now, last)
    PROVE  /\ ts \in Nat /\ now <= ts
           /\ rules.bump => last < ts
           /\ ts = now \/ ts = last + 1
           /\ last < now => ts = now
<1>1. rules.bump \in BOOLEAN
    BY DEF Consistent, TradeRules
<1> QED
    BY <1>1 DEF Stamp

LEMMA KeyIs ==
    ASSUME NEW x
    PROVE  Key(x) = KeyOf(rules, x)
BY DEF Key, KeyOf

\* A trade has a key, and trades of one key have one side.
LEMMA KeyTypes ==
    ASSUME Consistent(rules), NEW x \in Trade
    PROVE  KeyOf(rules, x) \in Keys
<1>1. rules.key \in {"time", "shifted", "order", "trade"}
    BY DEF Consistent, TradeRules
<1>2. x.n \in Nat /\ x.time \in Nat /\ x.order \in Nat /\ x.side \in Sides
    BY DEF Trade
<1>3. CASE rules.key = "time"
    BY <1>2, <1>3 DEF KeyOf, Keys
<1>4. CASE rules.key = "shifted"
  <2>1. PICK t \in Nat : t = x.time + (IF x.side = "buy" THEN 1 ELSE 0)
      BY <1>2
  <2> QED
      BY <1>4, <2>1 DEF KeyOf, Keys
<1>5. CASE rules.key = "order"
    BY <1>2, <1>5 DEF KeyOf, Keys
<1>6. CASE rules.key = "trade"
    BY <1>2, <1>6 DEF KeyOf, Keys
<1> QED
    BY <1>1, <1>3, <1>4, <1>5, <1>6

LEMMA KeySides ==
    ASSUME Consistent(rules), NEW tr, tr \in Seq(Trade), Chain(tr),
           NEW i \in 1..Len(tr), NEW j \in 1..Len(tr), rules.key # "shifted",
           KeyOf(rules, tr[i]) = KeyOf(rules, tr[j])
    PROVE  tr[i].side = tr[j].side
<1>1. rules.key \in {"time", "order", "trade"}
    BY DEF Consistent, TradeRules
<1>2. PICK x \in Trade, y \in Trade : x = tr[i] /\ y = tr[j]
    OBVIOUS
<1>3. /\ KeyOf(rules, x) = KeyOf(rules, y) /\ x.n = i /\ y.n = j
      /\ x.order = y.order => x.side = y.side
    BY <1>2 DEF Chain
<1>4. CASE rules.key = "time"
  <2>1. <<x.time, x.side>> = <<y.time, y.side>>
      BY <1>3, <1>4 DEF KeyOf
  <2> QED
      BY <1>2, <2>1
<1>5. CASE rules.key = "order"
  <2>1. <<x.order>> = <<y.order>>
      BY <1>3, <1>5 DEF KeyOf
  <2> QED
      BY <1>2, <1>3, <2>1
<1>6. CASE rules.key = "trade"
  <2>1. <<x.n, "trade">> = <<y.n, "trade">>
      BY <1>3, <1>6 DEF KeyOf
  <2>2. x.n = y.n
      BY <2>1
  <2> QED
      BY <1>2, <1>3, <2>2
<1> QED
    BY <1>1, <1>4, <1>5, <1>6

\* The next trade begins an aggregate.
LEMMA NewSound ==
    ASSUME Consistent(rules), now \in Nat, rules.flush # "sides",
           NEW tr \in Seq(Trade), Chain(tr), NEW n \in Nat, n + 1 \in 1..Len(tr),
           NEW q \in Seq(Agg), NEW last \in Nat, Sound(rules, q, n, tr, last),
           NEW ts, ts = Stamp(now, last), NEW e, e = New(tr[n + 1], ts)
    PROVE  e \in Agg /\ Append(q, e) \in Seq(Agg) /\ Sound(rules, Append(q, e), n + 1, tr, ts)
<1>1. PICK x \in Trade : x = tr[n + 1]
    OBVIOUS
<1>2. x.n = n + 1 /\ x.side \in Sides
    BY <1>1 DEF Chain, Trade
<1>3. KeyOf(rules, x) \in Keys
    BY KeyTypes
<1>4. /\ e.id = (IF rules.id = "key" THEN KeyOf(rules, x) ELSE <<n + 1>>) /\ e.key = KeyOf(rules, x)
      /\ e.ts = ts /\ e.at = now /\ e.side = x.side /\ e.trades = <<n + 1>>
    BY <1>1, <1>2, KeyIs DEF New
<1>5. ts \in Nat /\ (rules.bump => last < ts)
    BY StampLater
<1>6. <<n + 1>> \in Keys /\ <<n + 1>> \in Seq(Nat)
    BY DEF Keys
<1>7. e \in Agg
  <2>1. e = [id |-> e.id, key |-> e.key, ts |-> e.ts, at |-> e.at, side |-> e.side,
             trades |-> e.trades]
      BY <1>1 DEF New
  <2>2. e.id \in Keys
      BY <1>3, <1>4, <1>6
  <2> QED
      BY <1>2, <1>3, <1>4, <1>5, <1>6, <2>1, <2>2 DEF Agg
<1>8. Len(e.trades) = 1 /\ e.trades[1] = n + 1
    BY <1>4
<1>9. Within(q, n + 1) /\ InOrder(rules, q, tr) /\ Alike(rules, q, tr) /\ Increasing(rules, q, last)
  <2>1. n + 1 \in Nat /\ n <= n + 1 /\ Within(q, n)
      BY DEF Sound
  <2>2. Within(q, n + 1)
      BY <2>1, MoreTrades
  <2> QED
      BY <2>2 DEF Sound
<1>10. \A i \in 1..Len(q) : \A k \in 1..Len(q[i].trades), l \in 1..Len(e.trades) :
           Follows(rules, q[i].trades[k], e.trades[l], tr)
  <2>1. ASSUME NEW i \in 1..Len(q), NEW k \in 1..Len(q[i].trades), NEW l \in 1..Len(e.trades)
        PROVE  Follows(rules, q[i].trades[k], e.trades[l], tr)
    <3>1. q[i].trades[k] \in 1..n
        BY DEF Sound, Within
    <3>2. e.trades[l] = n + 1
        BY <1>8
    <3>3. q[i].trades[k] # n + 1 /\ q[i].trades[k] < n + 1
        BY <3>1
    <3> QED
        BY <3>2, <3>3 DEF Follows
  <2> QED
      BY <2>1
<1>11. \A k \in 1..Len(e.trades) : e.trades[k] = n + 1 /\ e.trades[k] \in 1..(n + 1)
    BY <1>8
<1>12. \A k, l \in 1..Len(e.trades) : k < l => Follows(rules, e.trades[k], e.trades[l], tr)
    BY <1>8
<1>13. /\ rules.id = "first" => e.id = <<e.trades[1]>>
       /\ \A k \in 1..Len(e.trades) :
             /\ rules.key # "shifted" => tr[e.trades[k]].side = e.side
             /\ rules.flush # "sides" => KeyOf(rules, tr[e.trades[k]]) = e.key
    BY <1>1, <1>4, <1>8, <1>11
<1>14. n + 1 \in Nat /\ Len(e.trades) >= 1 /\ (rules.bump => last < e.ts)
    BY <1>4, <1>5, <1>8
<1>15. Append(q, e) \in Seq(Agg) /\ Parts(rules, Append(q, e), n + 1, tr, ts)
  <2>1. e.ts = ts
      BY <1>4
  <2>2. Parts(rules, q, n + 1, tr, last)
      BY <1>9 DEF Parts
  <2>3. Fits(rules, q, e, n + 1, tr, last)
      BY <1>10, <1>11, <1>12, <1>13, <1>14 DEF Fits
  <2> QED
      BY <1>7, <1>14, <2>1, <2>2, <2>3, AddedParts
<1>16. Complete(Append(q, e), n + 1)
  <2>1. PICK L \in Nat : L = Len(q)
      OBVIOUS
  <2>2. PICK r : r = Append(q, e)
      OBVIOUS
  <2>3. Len(r) = L + 1 /\ r[L + 1] = e /\ \A i \in 1..L : r[i] = q[i]
      BY <1>7, <2>1, <2>2
  <2>4. ASSUME NEW m \in 1..n
        PROVE  \E i \in 1..Len(r) : \E k \in 1..Len(r[i].trades) : r[i].trades[k] = m
    <3>1. PICK i \in 1..L : \E k \in 1..Len(q[i].trades) : q[i].trades[k] = m
        BY <2>1 DEF Sound, Complete
    <3>2. i \in 1..Len(r) /\ r[i] = q[i]
        BY <2>3
    <3> QED
        BY <3>1, <3>2
  <2>5. L + 1 \in 1..Len(r) /\ 1 \in 1..Len(r[L + 1].trades) /\ r[L + 1].trades[1] = n + 1
      BY <1>8, <2>3
  <2>6. \A m \in 1..(n + 1) : m \in 1..n \/ m = n + 1
      OBVIOUS
  <2>7. Complete(r, n + 1)
    <3>1. ASSUME NEW m \in 1..(n + 1)
          PROVE  \E i \in 1..Len(r) : \E k \in 1..Len(r[i].trades) : r[i].trades[k] = m
      <4>1. CASE m \in 1..n
          BY <2>4, <4>1
      <4>2. CASE m = n + 1
          BY <2>5, <4>2
      <4> QED
          BY <2>6, <4>1, <4>2
    <3> QED
        BY <3>1 DEF Complete
  <2> QED
      BY <2>2, <2>7
<1> QED
    BY <1>7, <1>15, <1>16 DEF Sound, Parts

\* The last aggregate becomes d.
Changed(q, d) == [q EXCEPT ![Len(q)] = d]

\* The next trade joins the last aggregate.
LEMMA WithSound ==
    ASSUME Consistent(rules), rules.flush # "sides",
           NEW tr \in Seq(Trade), Chain(tr), NEW n \in Nat, n + 1 \in 1..Len(tr),
           NEW q \in Seq(Agg), q # <<>>, NEW last \in Nat, Sound(rules, q, n, tr, last),
           KeyOf(rules, tr[n + 1]) = q[Len(q)].key,
           NEW d, d = With(q[Len(q)], tr[n + 1]), NEW r, r = Changed(q, d)
    PROVE  /\ d \in Agg /\ d.ts = q[Len(q)].ts /\ d.at = q[Len(q)].at /\ d.key = q[Len(q)].key
           /\ r \in Seq(Agg) /\ Sound(rules, r, n + 1, tr, last)
<1>1. PICK x \in Trade : x = tr[n + 1]
    OBVIOUS
<1>2. x.n = n + 1
    BY <1>1 DEF Chain
<1>3. PICK L \in Nat : L = Len(q) /\ L >= 1
    OBVIOUS
<1>4. PICK c \in Agg : c = q[L]
    BY <1>3
<1>5. PICK M \in Nat : M = Len(c.trades)
    BY DEF Agg
<1>6. /\ d \in Agg /\ d.id = c.id /\ d.key = c.key /\ d.ts = c.ts /\ d.at = c.at /\ d.side = c.side
      /\ d.trades = Append(c.trades, n + 1)
  <2>1. d = [c EXCEPT !.trades = Append(@, n + 1)]
      BY <1>1, <1>2, <1>3, <1>4 DEF With
  <2>2. Append(c.trades, n + 1) \in Seq(Nat)
      BY DEF Agg
  <2>3. PICK t \in Seq(Nat) : t = Append(c.trades, n + 1)
      BY <2>2
  <2>4. d = [c EXCEPT !.trades = t]
      BY <2>1, <2>3
  <2> QED
      BY <2>3, <2>4 DEF Agg
<1>7. Len(d.trades) = M + 1 /\ d.trades[M + 1] = n + 1 /\ \A k \in 1..M : d.trades[k] = c.trades[k]
  <2>1. c.trades \in Seq(Nat)
      BY DEF Agg
  <2> QED
      BY <1>5, <1>6, <2>1
<1>8. r \in Seq(Agg) /\ Len(r) = L /\ r[L] = d /\ \A i \in 1..L : i # L => r[i] = q[i]
    BY <1>3, <1>6 DEF Changed
<1>9. ASSUME NEW i \in 1..L
      PROVE  /\ r[i].id = q[i].id /\ r[i].key = q[i].key
             /\ r[i].ts = q[i].ts /\ r[i].side = q[i].side
             /\ \A k \in 1..Len(q[i].trades) :
                   k \in 1..Len(r[i].trades) /\ r[i].trades[k] = q[i].trades[k]
             /\ Len(r[i].trades) >= Len(q[i].trades)
             /\ \A k \in 1..Len(r[i].trades) :
                   \/ k \in 1..Len(q[i].trades) /\ r[i].trades[k] = q[i].trades[k]
                   \/ i = L /\ k = Len(q[i].trades) + 1 /\ r[i].trades[k] = n + 1
  <2>1. CASE i = L
    <3>1. r[i] = d /\ q[i] = c
        BY <1>4, <1>8, <2>1
    <3>2. \A k \in 1..(M + 1) : k \in 1..M \/ k = M + 1
        OBVIOUS
    <3>3. M + 1 >= M /\ \A k \in 1..M : k \in 1..(M + 1)
        OBVIOUS
    <3>4. /\ d.id = c.id /\ d.key = c.key /\ d.ts = c.ts /\ d.side = c.side
          /\ \A k \in 1..Len(c.trades) : k \in 1..Len(d.trades) /\ d.trades[k] = c.trades[k]
          /\ Len(d.trades) >= Len(c.trades)
        BY <1>5, <1>6, <1>7, <3>3
    <3>5. \A k \in 1..Len(d.trades) :
            \/ k \in 1..Len(c.trades) /\ d.trades[k] = c.trades[k]
            \/ k = Len(c.trades) + 1 /\ d.trades[k] = n + 1
        BY <1>5, <1>7, <3>2
    <3> QED
        BY <2>1, <3>1, <3>4, <3>5
  <2>2. CASE i # L
    <3>1. r[i] = q[i] /\ q[i] \in Agg
        BY <1>3, <1>8, <2>2
    <3>2. Len(q[i].trades) \in Nat
        BY <3>1, AggFields
    <3> QED
        BY <3>1, <3>2
  <2> QED
      BY <2>1, <2>2
<1>10. /\ \A i \in 1..L : q[i] \in Agg /\ Len(q[i].trades) \in Nat /\ Len(q[i].trades) >= 1
       /\ \A i \in 1..L : r[i] \in Agg /\ Len(r[i].trades) \in Nat
       /\ \A i \in 1..L : \A k \in 1..Len(q[i].trades) :
             q[i].trades[k] \in 1..n /\ q[i].trades[k] < n + 1
  <2>1. \A i \in 1..L : q[i] \in Agg /\ r[i] \in Agg
      BY <1>3, <1>8
  <2>2. \A i \in 1..L : Len(q[i].trades) \in Nat /\ Len(r[i].trades) \in Nat
      BY <2>1, AggFields
  <2>3. \A i \in 1..L :
            Len(q[i].trades) >= 1 /\ \A k \in 1..Len(q[i].trades) : q[i].trades[k] \in 1..n
      BY <1>3 DEF Sound, Within
  <2>4. \A m \in 1..n : m < n + 1
      OBVIOUS
  <2> QED
      BY <2>1, <2>2, <2>3, <2>4
<1>11. Within(r, n + 1)
  <2>2. ASSUME NEW i \in 1..L PROVE Len(r[i].trades) >= 1
    <3>1. PICK a \in Nat, b \in Nat : a = Len(q[i].trades) /\ b = Len(r[i].trades) /\ a >= 1
        BY <1>10
    <3>2. b >= a
        BY <1>9, <3>1
    <3> QED
        BY <3>1, <3>2
  <2>3. ASSUME NEW i \in 1..L, NEW k \in 1..Len(r[i].trades) PROVE r[i].trades[k] \in 1..(n + 1)
    <3>1. 1..n \subseteq 1..(n + 1) /\ n + 1 \in 1..(n + 1)
        OBVIOUS
    <3>2. CASE k \in 1..Len(q[i].trades) /\ r[i].trades[k] = q[i].trades[k]
        BY <1>10, <3>1, <3>2
    <3>3. CASE r[i].trades[k] = n + 1
        BY <3>1, <3>3
    <3> QED
        BY <1>9, <3>2, <3>3
  <2> QED
      BY <1>8, <2>2, <2>3 DEF Within
<1>12. InOrder(rules, r, tr)
  <2>1. ASSUME NEW i \in 1..L, NEW j \in 1..L, i < j,
               NEW k \in 1..Len(r[i].trades), NEW l \in 1..Len(r[j].trades)
        PROVE  Follows(rules, r[i].trades[k], r[j].trades[l], tr)
    <3>1. i # L
        BY <2>1
    <3>2. k \in 1..Len(q[i].trades) /\ r[i].trades[k] = q[i].trades[k]
        BY <1>9, <3>1
    <3>3. CASE l \in 1..Len(q[j].trades) /\ r[j].trades[l] = q[j].trades[l]
        BY <1>3, <2>1, <3>2, <3>3 DEF Sound, InOrder
    <3>4. CASE r[j].trades[l] = n + 1
      <4>1. r[i].trades[k] # n + 1 /\ r[i].trades[k] < n + 1
          BY <1>10, <3>2
      <4> QED
          BY <3>4, <4>1 DEF Follows
    <3> QED
        BY <1>9, <3>3, <3>4
  <2>2. ASSUME NEW i \in 1..L, NEW k \in 1..Len(r[i].trades), NEW l \in 1..Len(r[i].trades), k < l
        PROVE  Follows(rules, r[i].trades[k], r[i].trades[l], tr)
    <3>1. Len(q[i].trades) \in Nat
        BY <1>10
    <3>2. CASE l \in 1..Len(q[i].trades) /\ r[i].trades[l] = q[i].trades[l]
      <4>1. k \in 1..Len(q[i].trades)
          BY <2>2, <3>1, <3>2
      <4>2. r[i].trades[k] = q[i].trades[k]
          BY <1>9, <4>1
      <4> QED
          BY <1>3, <2>2, <3>2, <4>1, <4>2 DEF Sound, InOrder
    <3>3. CASE l = Len(q[i].trades) + 1 /\ r[i].trades[l] = n + 1
      <4>1. k \in 1..Len(q[i].trades)
          BY <2>2, <3>1, <3>3
      <4>2. r[i].trades[k] = q[i].trades[k]
          BY <1>9, <4>1
      <4>3. r[i].trades[k] # n + 1 /\ r[i].trades[k] < n + 1
          BY <1>10, <4>1, <4>2, SMTT(30)
      <4> QED
          BY <3>3, <4>3 DEF Follows
    <3> QED
        BY <1>9, <3>2, <3>3
  <2>3. Len(r) = L
      BY <1>8
  <2>4. \A i, j \in 1..L : i < j =>
           \A k \in 1..Len(r[i].trades), l \in 1..Len(r[j].trades) :
               Follows(rules, r[i].trades[k], r[j].trades[l], tr)
      BY <2>1
  <2>5. \A i \in 1..L : \A k, l \in 1..Len(r[i].trades) :
           k < l => Follows(rules, r[i].trades[k], r[i].trades[l], tr)
      BY <2>2
  <2> QED
      BY <2>3, <2>4, <2>5 DEF InOrder
<1>13. Alike(rules, r, tr)
  <2>1. ASSUME NEW i \in 1..L, rules.id = "first" PROVE r[i].id = <<r[i].trades[1]>>
    <3>1. 1 \in 1..Len(q[i].trades)
        BY <1>10
    <3>2. r[i].trades[1] = q[i].trades[1] /\ r[i].id = q[i].id
        BY <1>9, <3>1
    <3> QED
        BY <1>3, <2>1, <3>2 DEF Sound, Alike
  <2>2. /\ rules.key # "shifted" => x.side = c.side
        /\ KeyOf(rules, x) = c.key
    <3>1. KeyOf(rules, x) = c.key
        BY <1>1, <1>3, <1>4
    <3>2. ASSUME rules.key # "shifted" PROVE x.side = c.side
      <4>1. PICK m \in 1..n : m = c.trades[1] /\ KeyOf(rules, tr[m]) = c.key /\ tr[m].side = c.side
        <5>1. L \in 1..L /\ L \in 1..Len(q) /\ 1 \in 1..Len(q[L].trades)
          <6>1. L \in 1..L
              BY <1>3
          <6> QED
              BY <1>3, <1>10, <6>1
        <5>2. q[L].trades[1] \in 1..n
            BY <1>3, <1>10, <5>1
        <5>3. KeyOf(rules, tr[q[L].trades[1]]) = q[L].key /\ tr[q[L].trades[1]].side = q[L].side
            BY <3>2, <5>1 DEF Sound, Alike
        <5> QED
            BY <1>4, <5>2, <5>3
      <4>2. m \in 1..Len(tr)
          OBVIOUS
      <4>3. KeyOf(rules, tr[m]) = KeyOf(rules, tr[n + 1])
          BY <1>1, <3>1, <4>1
      <4>4. tr[m].side = tr[n + 1].side
          BY <3>2, <4>2, <4>3, KeySides
      <4> QED
          BY <1>1, <4>1, <4>4
    <3> QED
        BY <3>1, <3>2
  <2>3. ASSUME NEW i \in 1..L, NEW k \in 1..Len(r[i].trades)
        PROVE  /\ rules.key # "shifted" => tr[r[i].trades[k]].side = r[i].side
               /\ rules.flush # "sides" => KeyOf(rules, tr[r[i].trades[k]]) = r[i].key
    <3>1. CASE k \in 1..Len(q[i].trades) /\ r[i].trades[k] = q[i].trades[k]
      <4>1. /\ rules.key # "shifted" => tr[q[i].trades[k]].side = q[i].side
            /\ rules.flush # "sides" => KeyOf(rules, tr[q[i].trades[k]]) = q[i].key
          BY <1>3, <3>1 DEF Sound, Alike
      <4> QED
          BY <1>9, <3>1, <4>1
    <3>2. CASE i = L /\ r[i].trades[k] = n + 1
        BY <1>1, <1>4, <1>9, <2>2, <3>2
    <3> QED
        BY <1>9, <3>1, <3>2
  <2> QED
      BY <1>8, <2>1, <2>3 DEF Alike
<1>14. Increasing(rules, r, last)
  <2>1. \A i \in 1..L : r[i].ts = q[i].ts
      BY <1>9
  <2> QED
      BY <1>3, <1>8, <2>1 DEF Sound, Increasing
<1>15. Complete(r, n + 1)
  <2>1. ASSUME NEW m \in 1..n
        PROVE  \E i \in 1..Len(r) : \E k \in 1..Len(r[i].trades) : r[i].trades[k] = m
    <3>1. PICK i \in 1..L : \E k \in 1..Len(q[i].trades) : q[i].trades[k] = m
        BY <1>3 DEF Sound, Complete
    <3>2. PICK k \in 1..Len(q[i].trades) : q[i].trades[k] = m
        BY <3>1
    <3>3. k \in 1..Len(r[i].trades) /\ r[i].trades[k] = m
        BY <1>9, <3>2
    <3>4. i \in 1..Len(r)
        BY <1>8
    <3> QED
        BY <3>3, <3>4
  <2>2. L \in 1..Len(r) /\ M + 1 \in 1..Len(r[L].trades) /\ r[L].trades[M + 1] = n + 1
      BY <1>3, <1>7, <1>8
  <2>3. \A m \in 1..(n + 1) : m \in 1..n \/ m = n + 1
      OBVIOUS
  <2>4. ASSUME NEW m \in 1..(n + 1)
        PROVE  \E i \in 1..Len(r) : \E k \in 1..Len(r[i].trades) : r[i].trades[k] = m
    <3>1. CASE m \in 1..n
        BY <2>1, <3>1
    <3>2. CASE m = n + 1
        BY <2>2, <3>2
    <3> QED
        BY <2>3, <3>1, <3>2
  <2> QED
      BY <2>4 DEF Complete
<1> QED
    BY <1>3, <1>4, <1>6, <1>8, <1>11, <1>12, <1>13, <1>14, <1>15 DEF Sound

----------------------------------------------------------------------------
(***************************************************************************)
(* A trade is gathered.                                                    *)
(***************************************************************************)
Acc == [out : Seq(Agg), stash : Seq(Agg), open : BOOLEAN, last : Nat, timers : Seq(Nat)]

AccTypes(acc) == acc \in Acc /\ acc.open = (acc.stash # <<>>)

AccSound(acc, n, tr) ==
    /\ AccTypes(acc)
    /\ Sound(rules, acc.out \o acc.stash, n, tr, acc.last)
    /\ Aging(rules, acc.stash, acc.last, now)
    /\ Timed(rules, acc.stash, acc.timers)

\* The trade joins the last aggregate of the stash.
LEMMA GatherJoins ==
    ASSUME NEW acc, AccTypes(acc), NEW x \in Trade,
           acc.open, Last(acc.stash).key = KeyOf(rules, x), NEW b, b = Gather(acc, x)
    PROVE  /\ acc.stash # <<>> /\ With(acc.stash[Len(acc.stash)], x) \in Agg
           /\ b.stash = [acc.stash EXCEPT ![Len(acc.stash)] = With(acc.stash[Len(acc.stash)], x)]
           /\ b.out = acc.out /\ b.open /\ b.last = acc.last /\ b.timers = acc.timers
           /\ AccTypes(b)
<1>1. PICK p \in Seq(Agg) : p = acc.stash /\ p # <<>>
    BY DEF AccTypes, Acc
<1>2. PICK L \in Nat : L = Len(p) /\ L \in 1..Len(p)
    BY <1>1
<1>3. PICK d : d = With(p[L], x)
    OBVIOUS
<1>4. d \in Agg
  <2>1. PICK c \in Agg : c = p[L]
      BY <1>2
  <2>2. Append(c.trades, x.n) \in Seq(Nat)
      BY AggFields DEF Trade
  <2>3. PICK t \in Seq(Nat) : t = Append(c.trades, x.n)
      BY <2>2
  <2>4. d = [c EXCEPT !.trades = t]
      BY <1>3, <2>1, <2>3 DEF With
  <2> QED
      BY <2>4 DEF Agg
<1>5. PICK s \in Seq(Agg) : s = [p EXCEPT ![L] = d] /\ s # <<>>
  <2>1. PICK s : s = [p EXCEPT ![L] = d]
      OBVIOUS
  <2>2. s \in Seq(Agg)
      BY <1>1, <1>2, <1>4, <2>1, ChangeJoins
  <2>3. DOMAIN s = DOMAIN p /\ DOMAIN p # {}
      BY <1>2, <2>1
  <2>4. s # <<>>
      BY <2>2, <2>3
  <2> QED
      BY <2>1, <2>2, <2>4
<1>6. b = [acc EXCEPT !.stash = s]
  <2>1. b = [acc EXCEPT !.stash[Len(acc.stash)] = With(@, x)]
      BY KeyIs DEF Gather
  <2> QED
      BY <1>1, <1>2, <1>3, <1>5, <2>1
<1>7. acc \in Acc /\ acc.open
    BY DEF AccTypes
<1>8. /\ b \in Acc /\ b.stash = s /\ b.out = acc.out /\ b.open = acc.open
      /\ b.last = acc.last /\ b.timers = acc.timers
    BY <1>6, <1>7 DEF Acc
<1> QED
    BY <1>1, <1>2, <1>3, <1>4, <1>5, <1>7, <1>8 DEF AccTypes

\* A new aggregate has the right type.
LEMMA NewTypes ==
    ASSUME Consistent(rules), now \in Nat, NEW x \in Trade, NEW ts \in Nat, NEW e, e = New(x, ts)
    PROVE  e \in Agg /\ e.ts = ts /\ e.at = now
<1>1. PICK k \in Keys : k = KeyOf(rules, x)
    BY KeyTypes
<1>2. x.n \in Nat /\ x.side \in Sides
    BY DEF Trade
<1>3. <<x.n>> \in Keys /\ <<x.n>> \in Seq(Nat)
    BY <1>2 DEF Keys
<1>4. PICK t \in Seq(Nat) : t = <<x.n>>
    BY <1>3
<1>5. PICK i \in Keys : i = IF rules.id = "key" THEN k ELSE t
    BY <1>3, <1>4
<1>6. e = [id |-> i, key |-> k, ts |-> ts, at |-> now, side |-> x.side, trades |-> t]
    BY <1>1, <1>4, <1>5, KeyIs DEF New
<1> QED
    BY <1>2, <1>6 DEF Agg

\* It begins another.
LEMMA GatherBegins ==
    ASSUME Consistent(rules), now \in Nat, Age \in Nat, NEW acc, AccTypes(acc), NEW x \in Trade,
           ~(acc.open /\ Last(acc.stash).key = KeyOf(rules, x)), NEW b, b = Gather(acc, x),
           NEW ts, ts = Stamp(now, acc.last), NEW e, e = New(x, ts)
    PROVE  /\ acc.last \in Nat /\ ts \in Nat /\ e \in Agg /\ e.ts = ts /\ e.at = now
           /\ b.out = IF rules.flush = "event" THEN acc.out \o acc.stash ELSE acc.out
           /\ b.stash = Append(IF rules.flush = "event" THEN <<>> ELSE acc.stash, e)
           /\ b.open /\ b.last = ts
           /\ b.timers = IF rules.flush = "stash" /\ rules.timer = "aggregate"
                         THEN Append(acc.timers, now + Age + rules.late) ELSE acc.timers
           /\ AccTypes(b)
<1>1. /\ acc.out \in Seq(Agg) /\ acc.stash \in Seq(Agg) /\ acc.last \in Nat
      /\ acc.timers \in Seq(Nat)
    BY DEF AccTypes, Acc
<1>2. ts \in Nat
    BY <1>1, StampLater
<1>3. e \in Agg /\ e.ts = ts /\ e.at = now
    BY <1>2, NewTypes
<1>4. PICK o \in Seq(Agg) : o = IF rules.flush = "event" THEN acc.out \o acc.stash ELSE acc.out
  <2>1. acc.out \o acc.stash \in Seq(Agg)
      BY <1>1, Concatenation
  <2> QED
      BY <1>1, <2>1
<1>5. PICK p \in Seq(Agg) : p = IF rules.flush = "event" THEN <<>> ELSE acc.stash
  <2>1. <<>> \in Seq(Agg)
      OBVIOUS
  <2>2. CASE rules.flush = "event"
      BY <2>1, <2>2
  <2>3. CASE rules.flush # "event"
      BY <1>1, <2>3
  <2> QED
      BY <2>2, <2>3
<1>6. PICK s \in Seq(Agg) : s = Append(p, e) /\ s # <<>>
    BY <1>3, AppendProperties
<1>7. PICK t \in Seq(Nat) : t = IF rules.flush = "stash" /\ rules.timer = "aggregate"
                                THEN Append(acc.timers, now + Age + rules.late) ELSE acc.timers
  <2>1. now + Age + rules.late \in Nat
      BY DEF Consistent, TradeRules
  <2>2. Append(acc.timers, now + Age + rules.late) \in Seq(Nat)
      BY <1>1, <2>1, AppendProperties
  <2> QED
      BY <1>1, <2>2
<1>8. b = [out |-> o, stash |-> s, open |-> TRUE, last |-> ts, timers |-> t]
    BY <1>4, <1>5, <1>6, <1>7, KeyIs DEF Gather
<1>9. b \in Acc /\ b.out = o /\ b.stash = s /\ b.open = TRUE /\ b.last = ts /\ b.timers = t
    BY <1>2, <1>8 DEF Acc
<1> QED
    BY <1>1, <1>2, <1>3, <1>4, <1>5, <1>6, <1>7, <1>9 DEF AccTypes

LEMMA GatherTypes ==
    ASSUME Consistent(rules), now \in Nat, Age \in Nat, NEW acc, AccTypes(acc), NEW x \in Trade
    PROVE  AccTypes(Gather(acc, x))
<1>1. CASE acc.open /\ Last(acc.stash).key = KeyOf(rules, x)
    BY <1>1, GatherJoins
<1>2. CASE ~(acc.open /\ Last(acc.stash).key = KeyOf(rules, x))
    BY <1>2, GatherBegins
<1> QED
    BY <1>1, <1>2

\* A new aggregate at the end of the stash.
LEMMA AgingBegins ==
    ASSUME Consistent(rules), now \in Nat, NEW p \in Seq(Agg), NEW last \in Nat,
           Aging(rules, p, last, now), NEW ts, ts = Stamp(now, last), NEW e \in Agg, e.ts = ts
    PROVE  Aging(rules, Append(p, e), ts, now)
<1>1. SUFFICES ASSUME rules.flush = "stash"
               PROVE  /\ Append(p, e) # <<>>
                      /\ Append(p, e)[1].ts <= now /\ Append(p, e)[Len(Append(p, e))].ts = ts
                      /\ \A j \in 1..Len(Append(p, e)) : j + 1 <= Len(Append(p, e)) =>
                            \/ Append(p, e)[j + 1].ts <= now
                            \/ Append(p, e)[j + 1].ts = Append(p, e)[j].ts + 1
    BY DEF Aging
<1>2. PICK r \in Seq(Agg) : r = Append(p, e)
    BY AppendProperties
<1>3. PICK L \in Nat : L = Len(p)
    OBVIOUS
<1>4. r # <<>> /\ Len(r) = L + 1 /\ r[L + 1] = e /\ \A j \in 1..L : r[j] = p[j]
    BY <1>2, <1>3, AppendProperties
<1>5. ts \in Nat /\ (ts = now \/ ts = last + 1) /\ (last < now => ts = now)
    BY StampLater
<1>6. /\ L = 0 => last < now
      /\ L # 0 => p[1].ts <= now /\ p[L].ts = last
      /\ \A j \in 1..L : j + 1 <= L => p[j + 1].ts <= now \/ p[j + 1].ts = p[j].ts + 1
  <2>1. p = <<>> <=> L = 0
      BY <1>3
  <2> QED
      BY <1>1, <1>3, <2>1 DEF Aging
<1>7. r[1].ts <= now
  <2>1. CASE L = 0
    <3>1. r[1] = e
        BY <1>4, <2>1
    <3> QED
        BY <1>5, <1>6, <2>1, <3>1
  <2>2. CASE L # 0
    <3>1. 1 \in 1..L
        BY <2>2
    <3> QED
        BY <1>4, <1>6, <2>2, <3>1
  <2> QED
      BY <2>1, <2>2
<1>8. ASSUME NEW j \in 1..(L + 1), j + 1 <= L + 1
      PROVE  r[j + 1].ts <= now \/ r[j + 1].ts = r[j].ts + 1
  <2>1. j \in 1..L /\ r[j] = p[j]
      BY <1>4, <1>8
  <2>2. CASE j = L
    <3>1. r[j + 1].ts = ts /\ r[j].ts = last
        BY <1>4, <1>6, <2>1, <2>2
    <3> QED
        BY <1>5, <3>1
  <2>3. CASE j # L
    <3>1. j + 1 \in 1..L /\ j + 1 <= L
        BY <2>1, <2>3
    <3>2. r[j + 1] = p[j + 1]
        BY <1>4, <3>1
    <3> QED
        BY <1>6, <2>1, <3>1, <3>2
  <2> QED
      BY <2>2, <2>3
<1> QED
    BY <1>2, <1>4, <1>7, <1>8

LEMMA TimedBegins ==
    ASSUME Consistent(rules), now \in Nat, Age \in Nat, NEW p \in Seq(Agg), NEW due \in Seq(Nat),
           Timed(rules, p, due), NEW e \in Agg, e.at = now, NEW later,
           later = IF rules.flush = "stash" /\ rules.timer = "aggregate"
                   THEN Append(due, now + Age + rules.late) ELSE due
    PROVE  Timed(rules, Append(p, e), later)
<1>1. SUFFICES ASSUME rules.flush = "stash", rules.late > 0, NEW j \in 1..Len(Append(p, e))
               PROVE  \/ Append(p, e)[j].ts > Append(p, e)[j].at
                      \/ \E i \in 1..Len(later) : later[i] = Append(p, e)[j].at + Age + rules.late
    BY DEF Timed
<1>2. PICK t \in Nat : t = now + Age + rules.late
    BY DEF Consistent, TradeRules
<1>3. later = Append(due, t)
    BY <1>1, <1>2 DEF Consistent
<1>4. /\ later \in Seq(Nat) /\ Len(later) = Len(due) + 1 /\ later[Len(due) + 1] = t
      /\ \A i \in 1..Len(due) : later[i] = due[i]
    BY <1>2, <1>3, AppendProperties
<1>5. PICK r : r = Append(p, e)
    OBVIOUS
<1>6. Len(r) = Len(p) + 1 /\ r[Len(p) + 1] = e /\ \A i \in 1..Len(p) : r[i] = p[i]
    BY <1>5, AppendProperties
<1>7. CASE j \in 1..Len(p)
  <2>1. r[j] = p[j]
      BY <1>6, <1>7
  <2>2. p[j].ts > p[j].at \/ \E i \in 1..Len(due) : due[i] = p[j].at + Age + rules.late
      BY <1>1, <1>7 DEF Timed
  <2>3. \A i \in 1..Len(due) : i \in 1..Len(later)
      BY <1>4
  <2> QED
      BY <1>4, <1>5, <2>1, <2>2, <2>3
<1>8. CASE j = Len(p) + 1
  <2>1. r[j].at = now
      BY <1>6, <1>8
  <2>2. Len(due) + 1 \in 1..Len(later)
      BY <1>4
  <2> QED
      BY <1>2, <1>4, <1>5, <2>1, <2>2
<1> QED
  <2>1. Len(p) \in Nat /\ j \in 1..(Len(p) + 1)
      BY <1>1, <1>5, <1>6
  <2> QED
      BY <1>7, <1>8, <2>1

\* What is known of the first n trades is known of one more.
LEMMA GatherStep ==
    ASSUME Consistent(rules), now \in Nat, Age \in Nat, rules.flush # "sides",
           NEW tr \in Seq(Trade), Chain(tr), NEW n \in Nat, n + 1 \in 1..Len(tr),
           NEW acc, AccSound(acc, n, tr)
    PROVE  AccSound(Gather(acc, tr[n + 1]), n + 1, tr)
<1>1. PICK x \in Trade : x = tr[n + 1]
    OBVIOUS
<1>2. PICK b : b = Gather(acc, x)
    OBVIOUS
<1>3. PICK p \in Seq(Agg), o \in Seq(Agg) : p = acc.stash /\ o = acc.out
    BY DEF AccSound, AccTypes, Acc
<1>4. PICK q \in Seq(Agg) : q = o \o p
    BY Concatenation
<1>5. PICK last \in Nat : last = acc.last
    BY DEF AccSound, AccTypes, Acc
<1>6. /\ Sound(rules, q, n, tr, last) /\ Aging(rules, p, last, now)
      /\ Timed(rules, p, acc.timers) /\ acc.timers \in Seq(Nat)
    BY <1>3, <1>4, <1>5 DEF AccSound, AccTypes, Acc
<1>7. CASE acc.open /\ Last(acc.stash).key = KeyOf(rules, x)
  <2>1. PICK d : d = With(p[Len(p)], x)
      OBVIOUS
  <2>2. /\ p # <<>> /\ d \in Agg /\ b.stash = [p EXCEPT ![Len(p)] = d]
        /\ b.out = o /\ b.last = last /\ b.timers = acc.timers /\ AccTypes(b)
      BY <1>2, <1>3, <1>5, <1>7, <2>1, GatherJoins DEF AccSound
  <2>3. PICK s \in Seq(Agg) : s = [p EXCEPT ![Len(p)] = d]
      BY <2>2, ChangeJoins
  <2>4. q # <<>> /\ q[Len(q)] = p[Len(p)] /\ o \o s = [q EXCEPT ![Len(q)] = d]
      BY <1>4, <2>2, <2>3, ChangeJoins
  <2>5. d = With(q[Len(q)], tr[n + 1]) /\ KeyOf(rules, tr[n + 1]) = q[Len(q)].key
      BY <1>1, <1>3, <1>7, <2>1, <2>4 DEF Last
  <2>6. /\ d.ts = p[Len(p)].ts /\ d.at = p[Len(p)].at
        /\ Sound(rules, o \o s, n + 1, tr, last)
    <3>1. PICK r : r = o \o s
        OBVIOUS
    <3>2. r = Changed(q, d)
        BY <2>4, <3>1 DEF Changed
    <3>3. d.ts = q[Len(q)].ts /\ d.at = q[Len(q)].at /\ Sound(rules, r, n + 1, tr, last)
      <4>1. q # <<>>
          BY <2>4
      <4>2. Sound(rules, q, n, tr, last)
          BY <1>6
      <4>3. d = With(q[Len(q)], tr[n + 1])
          BY <2>5
      <4>4. KeyOf(rules, tr[n + 1]) = q[Len(q)].key
          BY <2>5
      <4> QED
          BY <3>2, <4>1, <4>2, <4>3, <4>4, WithSound, SMTT(60)
    <3> QED
        BY <2>4, <3>1, <3>3
  <2>7. Len(s) = Len(p) /\ \A j \in 1..Len(p) : s[j].ts = p[j].ts /\ s[j].at = p[j].at
    <3>1. Len(s) = Len(p) /\ s[Len(p)] = d /\ \A j \in 1..Len(p) : j # Len(p) => s[j] = p[j]
        BY <2>2, <2>3
    <3> QED
        BY <2>6, <3>1
  <2>8. Aging(rules, s, last, now)
    <3>1. PICK L \in Nat : L = Len(p) /\ L >= 1
        BY <2>2
    <3>2. Len(s) = L /\ 1 \in 1..L /\ L \in 1..L /\ s # <<>>
        BY <2>7, <3>1
    <3>3. rules.flush = "stash" => p[1].ts <= now /\ p[L].ts = last
        BY <1>6, <2>2, <3>1 DEF Aging
    <3>4. rules.flush = "stash" => s[1].ts <= now /\ s[L].ts = last
        BY <2>7, <3>1, <3>2, <3>3
    <3>5. ASSUME rules.flush = "stash", NEW j \in 1..L, j + 1 <= L
          PROVE  s[j + 1].ts <= now \/ s[j + 1].ts = s[j].ts + 1
      <4>1. j + 1 \in 1..L
          BY <3>5
      <4>2. p[j + 1].ts <= now \/ p[j + 1].ts = p[j].ts + 1
          BY <1>6, <3>1, <3>5 DEF Aging
      <4> QED
          BY <2>7, <3>1, <4>1, <4>2
    <3> QED
        BY <3>2, <3>4, <3>5 DEF Aging
  <2>9. Timed(rules, s, acc.timers)
      BY <1>6, <2>7 DEF Timed
  <2>10. /\ b.stash = s /\ b.out = o /\ b.last = last /\ b.timers = acc.timers
      BY <2>2, <2>3
  <2> QED
      BY <1>1, <1>2, <2>2, <2>6, <2>8, <2>9, <2>10 DEF AccSound
<1>8. CASE ~(acc.open /\ Last(acc.stash).key = KeyOf(rules, x))
  <2>1. PICK ts : ts = Stamp(now, last)
      OBVIOUS
  <2>2. PICK e : e = New(x, ts)
      OBVIOUS
  <2>3. /\ ts \in Nat /\ e \in Agg /\ e.ts = ts /\ e.at = now
        /\ b.out = (IF rules.flush = "event" THEN o \o p ELSE o)
        /\ b.stash = Append(IF rules.flush = "event" THEN <<>> ELSE p, e)
        /\ b.last = ts
        /\ b.timers = (IF rules.flush = "stash" /\ rules.timer = "aggregate"
                       THEN Append(acc.timers, now + Age + rules.late) ELSE acc.timers)
        /\ AccTypes(b)
    <3>1. AccTypes(acc) /\ ts = Stamp(now, acc.last)
        BY <1>5, <2>1 DEF AccSound
    <3> QED
        BY <1>2, <1>3, <1>8, <2>2, <3>1, GatherBegins, SMTT(30)
  <2>4. Sound(rules, Append(q, e), n + 1, tr, ts)
      BY <1>1, <1>6, <2>1, <2>2, NewSound
  <2>5. b.out \o b.stash = Append(q, e)
    <3>1. CASE rules.flush = "event"
      <4>1. b.out = q /\ b.stash = Append(<<>>, e)
          BY <1>4, <2>3, <3>1
      <4>2. q \o Append(<<>>, e) = Append(q \o <<>>, e) /\ q \o <<>> = q
        <5>1. <<>> \in Seq(Agg)
            OBVIOUS
        <5>2. q \o Append(<<>>, e) = Append(q \o <<>>, e)
            BY <2>3, <5>1, AppendJoins
        <5> QED
            BY <5>2, ConcatEmptySeq
      <4> QED
          BY <4>1, <4>2
    <3>2. CASE rules.flush # "event"
      <4>1. b.out = o /\ b.stash = Append(p, e)
          BY <2>3, <3>2
      <4>2. o \o Append(p, e) = Append(o \o p, e)
          BY <2>3, AppendJoins
      <4> QED
          BY <1>4, <4>1, <4>2
    <3> QED
        BY <3>1, <3>2
  <2>6. Aging(rules, b.stash, ts, now) /\ Timed(rules, b.stash, b.timers)
    <3>1. CASE rules.flush = "event"
        BY <3>1 DEF Aging, Timed
    <3>2. CASE rules.flush # "event"
      <4>1. b.stash = Append(p, e)
          BY <2>3, <3>2
      <4>2. Aging(rules, Append(p, e), ts, now)
          BY <1>6, <2>1, <2>3, AgingBegins
      <4>3. Timed(rules, Append(p, e), b.timers)
          BY <1>6, <2>3, TimedBegins
      <4> QED
          BY <4>1, <4>2, <4>3
    <3> QED
        BY <3>1, <3>2
  <2> QED
      BY <1>1, <1>2, <2>3, <2>4, <2>5, <2>6 DEF AccSound
<1> QED
    BY <1>7, <1>8

\* All the trades of a message are gathered.
LEMMA GatheredSound ==
    ASSUME Consistent(rules), now \in Nat, Age \in Nat, rules.flush # "sides",
           NEW tr \in Seq(Trade), Chain(tr), NEW n \in Nat, NEW message \in Seq(Trade),
           Len(tr) = n + Len(message), \A i \in 1..Len(message) : message[i] = tr[n + i],
           NEW base, AccSound(base, n, tr)
    PROVE  AccSound(FoldLeft(Gather, base, message), Len(tr), tr)
<1>0. PICK L \in Nat : L = Len(message)
    OBVIOUS
<1> DEFINE T == {a \in Acc : AccTypes(a)}
           F == [i \in 1..L |-> [a \in T |-> Gather(a, message[i])]]
           G(f) == [s \in SUBSET DOMAIN message |->
                      IF s = {} THEN base ELSE Gather(f[s \ {Max(s)}], message[Max(s)])]
<1>1. L \in Nat /\ DOMAIN message = 1..L /\ L = Len(message)
    BY <1>0
<1>2. base \in T
    BY DEF AccSound, AccTypes
<1>3. ASSUME NEW i \in 1..L, NEW a \in T
      PROVE  F[i][a] = Gather(a, message[i]) /\ F[i][a] \in T
  <2>1. F[i][a] = Gather(a, message[i])
      OBVIOUS
  <2>2. AccTypes(a) /\ message[i] \in Trade
      BY <1>1
  <2>3. AccTypes(Gather(a, message[i]))
      BY <2>2, GatherTypes
  <2> QED
      BY <2>1, <2>3 DEF AccTypes
<1> HIDE DEF T, F
<1>4. PICK f : IsLeftFold(f, L, base, F) /\ \A s \in SUBSET (1..L) : f[s] \in T
  <2>1. \A i \in 1..L : \A a \in T : F[i][a] \in T
      BY <1>3
  <2> QED
      BY <1>2, <2>1, LeftFoldExists, ZenonT(40)
<1>5. f = G(f)
  <2>1. ASSUME NEW s \in SUBSET (1..L) PROVE f[s] = G(f)[s]
    <3>1. CASE s = {}
        BY <1>1, <1>4, <3>1 DEF IsLeftFold
    <3>2. CASE s # {}
      <4>1. f[s] = F[Max(s)][f[s \ {Max(s)}]]
          BY <1>4, <3>2 DEF IsLeftFold
      <4>2. PICK k \in 1..L, t \in SUBSET (1..L) : k = Max(s) /\ t = s \ {Max(s)}
        <5>1. L # 0
          <6>1. 1..0 = {}
              OBVIOUS
          <6> QED
              BY <3>2, <6>1
        <5>2. PICK m \in Nat : L = m + 1
          <6>1. L - 1 \in Nat /\ L = (L - 1) + 1
              BY <5>1
          <6> QED
              BY <6>1
        <5>3. Max(s) \in s
            BY <3>2, <5>2, MaxTaken
        <5> QED
            BY <5>3
      <4>3. f[s] = Gather(f[t], message[k])
          BY <1>3, <1>4, <4>1, <4>2
      <4>4. G(f)[s] = Gather(f[s \ {Max(s)}], message[Max(s)])
          BY <1>1, <3>2
      <4> HIDE DEF G
      <4> QED
          BY <4>2, <4>3, <4>4
    <3> QED
        BY <3>1, <3>2
  <2>2. f = [s \in SUBSET (1..L) |-> f[s]]
      BY <1>4 DEF IsLeftFold
  <2>3. G(f) = [s \in SUBSET (1..L) |-> G(f)[s]]
      BY <1>1
  <2> HIDE DEF G
  <2> QED
      BY <2>1, <2>2, <2>3
<1>6. PICK g : g = CHOOSE h : h = G(h)
    OBVIOUS
<1>7. g = G(g)
  <2> HIDE DEF G
  <2> QED
      BY <1>5, <1>6
<1> DEFINE R == {i \in Nat : i <= L => AccSound(g[1..i], n + i, tr)}
<1>8. 0 \in R
  <2>1. 1..0 = {}
      OBVIOUS
  <2>2. g[{}] = base
      BY <1>7
  <2>3. n + 0 = n
      OBVIOUS
  <2>4. AccSound(g[1..0], n + 0, tr)
      BY <2>1, <2>2, <2>3
  <2> QED
      BY <2>4
<1>9. ASSUME NEW i \in Nat, i \in R PROVE i + 1 \in R
  <2>1. SUFFICES ASSUME i + 1 <= L PROVE AccSound(g[1..(i + 1)], n + (i + 1), tr)
      OBVIOUS
  <2>2. PICK m \in Nat : m = i + 1 /\ m # 0 /\ m \in 1..L /\ m - 1 = i
      BY <2>1
  <2>3. PICK s \in SUBSET (1..L) : s = 1..m
      BY <2>2
  <2>4. s # {} /\ Max(s) = m /\ s \ {Max(s)} = 1..i
      BY <2>2, <2>3, MaxOfInterval
  <2>5. g[s] = Gather(g[s \ {Max(s)}], message[Max(s)])
      BY <1>1, <1>7, <2>4
  <2>6. g[s] = Gather(g[1..i], message[m])
      BY <2>4, <2>5
  <2>7. AccSound(g[1..i], n + i, tr)
    <3>1. i <= L
        BY <2>1
    <3> QED
        BY <1>9, <3>1
  <2>8. PICK k \in Nat : k = n + i /\ k + 1 = n + m /\ k + 1 \in 1..Len(tr)
      BY <1>1, <2>2
  <2>9. message[m] = tr[k + 1]
      BY <1>1, <2>2, <2>8
  <2>10. AccSound(Gather(g[1..i], tr[k + 1]), k + 1, tr)
      BY <2>7, <2>8, GatherStep
  <2> QED
      BY <2>2, <2>3, <2>6, <2>8, <2>9, <2>10
<1>10. AccSound(g[1..L], n + L, tr)
  <2> HIDE DEF R
  <2>1. Nat \subseteq R
      BY <1>8, <1>9, NatSetInduction
  <2>2. L \in R
      BY <1>1, <2>1
  <2> QED
      BY <1>1, <2>2 DEF R
<1>11. FoldLeft(Gather, base, message) = g[DOMAIN message]
    BY <1>6 DEF FoldLeft, MapThenFoldSet
<1> QED
    BY <1>1, <1>10, <1>11

----------------------------------------------------------------------------
(***************************************************************************)
(* A message is split by sides.                                            *)
(***************************************************************************)

\* The fields of a trade.
LEMMA TradeFields ==
    ASSUME NEW x \in Trade
    PROVE  x.n \in Nat /\ x.time \in Nat /\ x.order \in Nat /\ x.side \in Sides
BY DEF Trade

\* c has trades of one side, from those after n up to m, in order.
OneSide(c, side, n, m, tr) ==
    /\ \A k \in 1..Len(c) : c[k].n \in (n + 1)..m /\ c[k].side = side /\ tr[c[k].n].side = side
    /\ \A k, l \in 1..Len(c) : k < l => c[k].n < c[l].n

BothSides(of, n, m, tr) ==
    /\ of \in [Sides -> Seq(Trade)]
    /\ \A side \in Sides : OneSide(of[side], side, n, m, tr)
    /\ \A j \in (n + 1)..m : \E k \in 1..Len(of[tr[j].side]) : of[tr[j].side][k].n = j

LEMMA SortStep ==
    ASSUME NEW tr \in Seq(Trade), Chain(tr), NEW n \in Nat, NEW m \in Nat, n <= m,
           m + 1 \in 1..Len(tr), NEW of, BothSides(of, n, m, tr), NEW x, x = tr[m + 1]
    PROVE  BothSides(Sort(of, x), n, m + 1, tr)
<1>1. x \in Trade /\ x.n = m + 1 /\ x.side \in Sides
  <2>1. x \in Trade
      OBVIOUS
  <2>2. x.n = m + 1
      BY DEF Chain
  <2> QED
      BY <2>1, <2>2, TradeFields
<1>2. PICK side \in Sides : side = x.side
    BY <1>1
<1>3. PICK c \in Seq(Trade) : c = of[side]
    BY DEF BothSides
<1>4. PICK d \in Seq(Trade) : d = Append(c, x)
    BY <1>1, AppendProperties
<1>5. PICK L \in Nat : L = Len(c)
    OBVIOUS
<1>6. Len(d) = L + 1 /\ d[L + 1] = x /\ \A k \in 1..L : d[k] = c[k]
    BY <1>1, <1>4, <1>5, AppendProperties
<1>7. \A k \in 1..Len(d) : k \in 1..L \/ k = L + 1
    BY <1>6
<1>8. PICK to : to = Sort(of, x)
    OBVIOUS
<1>9. /\ to \in [Sides -> Seq(Trade)] /\ to[side] = d
      /\ \A other \in Sides : other # side => to[other] = of[other]
    BY <1>2, <1>3, <1>4, <1>8 DEF BothSides, Sort
<1>10. (n + 1)..m \subseteq (n + 1)..(m + 1) /\ m + 1 \in (n + 1)..(m + 1)
    OBVIOUS
<1>11. OneSide(d, side, n, m + 1, tr)
  <2>1. /\ \A k \in 1..L : c[k].n \in (n + 1)..m /\ c[k].side = side /\ tr[c[k].n].side = side
        /\ \A k, l \in 1..L : k < l => c[k].n < c[l].n
      BY <1>3, <1>5 DEF BothSides, OneSide
  <2>2. \A j \in (n + 1)..m : j < m + 1
      OBVIOUS
  <2>3. ASSUME NEW k \in 1..Len(d)
        PROVE  d[k].n \in (n + 1)..(m + 1) /\ d[k].side = side /\ tr[d[k].n].side = side
      BY <1>1, <1>2, <1>6, <1>7, <1>10, <2>1, ZenonT(40)
  <2>4. ASSUME NEW k \in 1..Len(d), NEW l \in 1..Len(d), k < l PROVE d[k].n < d[l].n
    <3>1. k \in 1..L /\ d[k] = c[k]
        BY <1>6, <1>7, <2>4
    <3>2. CASE l \in 1..L
        BY <1>6, <2>1, <2>4, <3>1, <3>2
    <3>3. CASE l = L + 1
        BY <1>1, <1>6, <2>1, <2>2, <3>1, <3>3
    <3> QED
        BY <1>7, <3>2, <3>3
  <2> QED
      BY <2>3, <2>4 DEF OneSide
<1>12. ASSUME NEW other \in Sides PROVE OneSide(to[other], other, n, m + 1, tr)
  <2>1. CASE other = side
      BY <1>9, <1>11, <2>1
  <2>2. CASE other # side
    <3>1. to[other] = of[other] /\ OneSide(of[other], other, n, m, tr)
        BY <1>9, <2>2 DEF BothSides
    <3> QED
        BY <1>10, <3>1 DEF OneSide
  <2> QED
      BY <2>1, <2>2
<1>13. ASSUME NEW j \in (n + 1)..(m + 1)
       PROVE  \E k \in 1..Len(to[tr[j].side]) : to[tr[j].side][k].n = j
  <2>1. CASE j \in (n + 1)..m
    <3>1. PICK other \in Sides : other = tr[j].side
      <4>1. j \in 1..Len(tr)
          BY <2>1
      <4> QED
          BY <4>1, TradeFields
    <3>2. PICK k \in 1..Len(of[other]) : of[other][k].n = j
        BY <2>1, <3>1 DEF BothSides
    <3>3. k \in 1..Len(to[other]) /\ to[other][k] = of[other][k]
      <4>1. CASE other = side
        <5>1. k \in 1..L /\ 1..L \subseteq 1..(L + 1)
            BY <1>3, <1>5, <3>2, <4>1
        <5> QED
            BY <1>3, <1>6, <1>9, <4>1, <5>1
      <4>2. CASE other # side
          BY <1>9, <3>2, <4>2
      <4> QED
          BY <4>1, <4>2
    <3> QED
        BY <3>1, <3>2, <3>3
  <2>2. CASE j = m + 1
    <3>1. tr[j].side = side /\ L + 1 \in 1..Len(to[side]) /\ to[side][L + 1].n = j
        BY <1>1, <1>2, <1>6, <1>9, <2>2
    <3> QED
        BY <3>1
  <2> QED
      BY <2>1, <2>2
<1> QED
    BY <1>8, <1>9, <1>12, <1>13 DEF BothSides

\* All the trades of a message are sorted.
LEMMA Sorted ==
    ASSUME NEW tr \in Seq(Trade), Chain(tr), NEW n \in Nat, NEW message \in Seq(Trade),
           Len(tr) = n + Len(message), \A i \in 1..Len(message) : message[i] = tr[n + i]
    PROVE  BothSides(FoldLeft(Sort, [side \in Sides |-> <<>>], message), n, Len(tr), tr)
<1>0. PICK L \in Nat : L = Len(message)
    OBVIOUS
<1>b. PICK base : base = [side \in Sides |-> <<>>]
    OBVIOUS
<1> DEFINE T == [Sides -> Seq(Trade)]
           F == [i \in 1..L |-> [a \in T |-> Sort(a, message[i])]]
           G(f) == [s \in SUBSET DOMAIN message |->
                      IF s = {} THEN base ELSE Sort(f[s \ {Max(s)}], message[Max(s)])]
<1>1. L \in Nat /\ DOMAIN message = 1..L /\ L = Len(message)
    BY <1>0
<1>2. base \in T
  <2>1. <<>> \in Seq(Trade)
      OBVIOUS
  <2> QED
      BY <1>b, <2>1
<1>3. ASSUME NEW i \in 1..L, NEW a \in T
      PROVE  F[i][a] = Sort(a, message[i]) /\ F[i][a] \in T
  <2>1. F[i][a] = Sort(a, message[i])
      OBVIOUS
  <2>2. PICK x \in Trade : x = message[i] /\ x.side \in Sides
      BY <1>1, TradeFields
  <2>3. PICK c \in Seq(Trade) : c = Append(a[x.side], x)
      BY <2>2, AppendProperties
  <2>4. Sort(a, x) = [a EXCEPT ![x.side] = c]
      BY <2>3 DEF Sort
  <2>5. [a EXCEPT ![x.side] = c] \in T
      BY <2>2
  <2> QED
      BY <2>1, <2>2, <2>4, <2>5
<1> HIDE DEF T, F
<1>4. PICK f : IsLeftFold(f, L, base, F) /\ \A s \in SUBSET (1..L) : f[s] \in T
  <2>1. \A i \in 1..L : \A a \in T : F[i][a] \in T
      BY <1>3
  <2> QED
      BY <1>2, <2>1, LeftFoldExists
<1>5. f = G(f)
  <2>1. ASSUME NEW s \in SUBSET (1..L) PROVE f[s] = G(f)[s]
    <3>1. CASE s = {}
        BY <1>1, <1>4, <3>1 DEF IsLeftFold
    <3>2. CASE s # {}
      <4>1. f[s] = F[Max(s)][f[s \ {Max(s)}]]
          BY <1>4, <3>2 DEF IsLeftFold
      <4>2. PICK k \in 1..L, t \in SUBSET (1..L) : k = Max(s) /\ t = s \ {Max(s)}
        <5>1. L # 0
          <6>1. 1..0 = {}
              OBVIOUS
          <6> QED
              BY <3>2, <6>1
        <5>2. PICK m \in Nat : L = m + 1
          <6>1. L - 1 \in Nat /\ L = (L - 1) + 1
              BY <5>1
          <6> QED
              BY <6>1
        <5>3. Max(s) \in s
            BY <3>2, <5>2, MaxTaken
        <5> QED
            BY <5>3
      <4>3. f[s] = Sort(f[t], message[k])
          BY <1>3, <1>4, <4>1, <4>2
      <4>4. G(f)[s] = Sort(f[s \ {Max(s)}], message[Max(s)])
          BY <1>1, <3>2
      <4> HIDE DEF G
      <4> QED
          BY <4>2, <4>3, <4>4
    <3> QED
        BY <3>1, <3>2
  <2>2. f = [s \in SUBSET (1..L) |-> f[s]]
      BY <1>4 DEF IsLeftFold
  <2>3. G(f) = [s \in SUBSET (1..L) |-> G(f)[s]]
      BY <1>1
  <2> HIDE DEF G
  <2> QED
      BY <2>1, <2>2, <2>3
<1>6. PICK g : g = CHOOSE h : h = G(h)
    OBVIOUS
<1>7. g = G(g)
  <2> HIDE DEF G
  <2> QED
      BY <1>5, <1>6
<1> DEFINE R == {i \in Nat : i <= L => BothSides(g[1..i], n, n + i, tr)}
<1>8. 0 \in R
  <2>1. 1..0 = {}
      OBVIOUS
  <2>2. g[{}] = base
      BY <1>7
  <2>3. n + 0 = n /\ (n + 1)..n = {}
      OBVIOUS
  <2>4. \A side \in Sides : base[side] = <<>> /\ Len(base[side]) = 0
      BY <1>b
  <2>5. \A side \in Sides : OneSide(base[side], side, n, n, tr)
      BY <2>1, <2>4 DEF OneSide
  <2>6. BothSides(g[1..0], n, n + 0, tr)
      BY <1>2, <2>1, <2>2, <2>3, <2>5 DEF BothSides, T
  <2> QED
      BY <2>6
<1>9. ASSUME NEW i \in Nat, i \in R PROVE i + 1 \in R
  <2>1. SUFFICES ASSUME i + 1 <= L PROVE BothSides(g[1..(i + 1)], n, n + (i + 1), tr)
      OBVIOUS
  <2>2. PICK m \in Nat : m = i + 1 /\ m # 0 /\ m \in 1..L /\ m - 1 = i
      BY <2>1
  <2>3. PICK s \in SUBSET (1..L) : s = 1..m
      BY <2>2
  <2>4. s # {} /\ Max(s) = m /\ s \ {Max(s)} = 1..i
      BY <2>2, <2>3, MaxOfInterval
  <2>5. g[s] = Sort(g[s \ {Max(s)}], message[Max(s)])
      BY <1>1, <1>7, <2>4
  <2>6. g[s] = Sort(g[1..i], message[m])
      BY <2>4, <2>5
  <2>7. BothSides(g[1..i], n, n + i, tr)
    <3>1. i <= L
        BY <2>1
    <3> QED
        BY <1>9, <3>1
  <2>8. PICK k \in Nat : k = n + i /\ k + 1 = n + m /\ n <= k /\ k + 1 \in 1..Len(tr)
      BY <1>1, <2>2
  <2>9. message[m] = tr[k + 1]
      BY <1>1, <2>2, <2>8
  <2>10. BothSides(Sort(g[1..i], message[m]), n, k + 1, tr)
      BY <2>7, <2>8, <2>9, SortStep
  <2> QED
      BY <2>2, <2>3, <2>6, <2>8, <2>10
<1>10. BothSides(g[1..L], n, n + L, tr)
  <2> HIDE DEF R
  <2>1. Nat \subseteq R
      BY <1>8, <1>9, NatSetInduction
  <2>2. L \in R
      BY <1>1, <2>1
  <2> QED
      BY <1>1, <2>2 DEF R
<1>11. FoldLeft(Sort, base, message) = g[DOMAIN message]
    BY <1>6 DEF FoldLeft, MapThenFoldSet
<1> QED
    BY <1>b, <1>1, <1>10, <1>11

\* The trades c can come after those of q.
AllFollow(q, c, tr) ==
    \A i \in 1..Len(q) : \A k \in 1..Len(q[i].trades), l \in 1..Len(c) :
        Follows(rules, q[i].trades[k], c[l].n, tr)

\* e is the aggregate of the trades c.
Joins(e, c, ts, side) ==
    /\ e \in Agg /\ e.ts = ts /\ e.side = side
    /\ Len(e.trades) = Len(c) /\ \A k \in 1..Len(c) : e.trades[k] = c[k].n

Later(last, ts) == rules.bump => last < ts

\* The aggregate of the trades of a side can come next.
LEMMA JoinedFits ==
    ASSUME Consistent(rules), now \in Nat, rules.flush = "sides", NEW tr,
           NEW n \in Nat, NEW m \in Nat, NEW q, NEW last \in Nat,
           NEW side \in Sides, NEW c \in Seq(Trade), c # <<>>, OneSide(c, side, n, m, tr),
           AllFollow(q, c, tr), NEW ts \in Nat, Later(last, ts), NEW e, e = Joined(c, ts)
    PROVE  Joins(e, c, ts, side) /\ Fits(rules, q, e, m, tr, last)
<1>1. PICK L \in Nat : L = Len(c) /\ L >= 1
    OBVIOUS
<1>2. PICK x \in Trade : x = c[1] /\ 1 \in 1..L
    BY <1>1
<1>3. /\ \A k \in 1..L : c[k].n \in (n + 1)..m /\ c[k].side = side /\ tr[c[k].n].side = side
      /\ \A k, l \in 1..L : k < l => c[k].n < c[l].n
    BY <1>1 DEF OneSide
<1>4. PICK a \in Agg : a = New(x, ts) /\ a.ts = ts /\ a.at = now
    BY NewTypes
<1>5. PICK t : t = [i \in DOMAIN c |-> c[i].n]
    OBVIOUS
<1>6. t \in Seq(Nat) /\ Len(t) = L /\ \A k \in 1..L : t[k] = c[k].n
  <2>1. DOMAIN c = 1..L
      BY <1>1
  <2>2. \A k \in 1..L : c[k].n \in Nat
      BY <1>3
  <2>3. t \in [1..L -> Nat]
      BY <1>5, <2>1, <2>2
  <2> QED
      BY <1>5, <2>1, <2>3
<1>7. e = [a EXCEPT !.trades = t]
    BY <1>2, <1>4, <1>5 DEF Joined
<1>8. e \in Agg /\ e.id = a.id /\ e.ts = ts /\ e.side = a.side /\ e.trades = t
    BY <1>4, <1>6, <1>7 DEF Agg
<1>9. a.side = x.side /\ (rules.id = "first" => a.id = <<x.n>>)
    BY <1>4 DEF New
<1>10. e.side = side
    BY <1>2, <1>3, <1>8, <1>9
<1>11. \A k \in 1..L : e.trades[k] \in 1..m
  <2>1. (n + 1)..m \subseteq 1..m
      OBVIOUS
  <2> QED
      BY <1>3, <1>6, <1>8, <2>1
<1>12. \A k, l \in 1..L : k < l => Follows(rules, e.trades[k], e.trades[l], tr)
  <2>1. ASSUME NEW k \in 1..L, NEW l \in 1..L, k < l
        PROVE  Follows(rules, e.trades[k], e.trades[l], tr)
    <3>1. PICK y \in (n + 1)..m, z \in (n + 1)..m : y = c[k].n /\ z = c[l].n /\ y < z
        BY <1>3, <2>1
    <3>2. Follows(rules, y, z, tr)
        BY <3>1 DEF Follows
    <3> QED
        BY <1>6, <1>8, <3>1, <3>2
  <2> QED
      BY <2>1
<1>13. \A i \in 1..Len(q) : \A k \in 1..Len(q[i].trades), l \in 1..L :
           Follows(rules, q[i].trades[k], e.trades[l], tr)
    BY <1>1, <1>6, <1>8 DEF AllFollow
<1>14. rules.id = "first" => e.id = <<e.trades[1]>>
    BY <1>2, <1>6, <1>8, <1>9
<1>15. \A k \in 1..L : tr[e.trades[k]].side = e.side
    BY <1>3, <1>6, <1>8, <1>10, ZenonT(40)
<1>16. Len(e.trades) = L
    BY <1>6, <1>8
<1>17. Fits(rules, q, e, m, tr, last)
    BY <1>1, <1>8, <1>11, <1>12, <1>13, <1>14, <1>15, <1>16 DEF Fits, Later
<1> QED
    BY <1>1, <1>6, <1>8, <1>10, <1>16, <1>17 DEF Joins

Has(q, m) == \E i \in 1..Len(q) : \E k \in 1..Len(q[i].trades) : q[i].trades[k] = m

LEMMA AppendHas ==
    ASSUME NEW q \in Seq(Agg), NEW e \in Agg, NEW r, r = Append(q, e)
    PROVE  /\ \A m : Has(q, m) => Has(r, m)
           /\ \A k \in 1..Len(e.trades) : Has(r, e.trades[k])
<1>2. PICK L \in Nat : L = Len(q)
    OBVIOUS
<1>3. Len(r) = L + 1 /\ r[L + 1] = e /\ \A i \in 1..L : r[i] = q[i]
    BY <1>2, AppendProperties
<1>4. 1..L \subseteq 1..(L + 1) /\ L + 1 \in 1..(L + 1)
    OBVIOUS
<1>5. ASSUME NEW m, Has(q, m) PROVE Has(r, m)
  <2>1. PICK i \in 1..L : \E k \in 1..Len(q[i].trades) : q[i].trades[k] = m
      BY <1>2, <1>5 DEF Has
  <2>2. i \in 1..Len(r) /\ r[i] = q[i]
      BY <1>3, <1>4
  <2> QED
      BY <2>1, <2>2 DEF Has
<1>6. ASSUME NEW k \in 1..Len(e.trades) PROVE Has(r, e.trades[k])
    BY <1>3, <1>4 DEF Has
<1> QED
    BY <1>5, <1>6

\* Timestamps are up to what is more than the last one.
LEMMA LaterParts ==
    ASSUME NEW q \in Seq(Agg), NEW n, NEW tr, NEW last \in Nat, NEW ts \in Nat,
           Parts(rules, q, n, tr, last), rules.bump => last < ts
    PROVE  Parts(rules, q, n, tr, ts)
<1>1. \A i \in 1..Len(q) : q[i].ts \in Nat
  <2>1. \A i \in 1..Len(q) : q[i] \in Agg
      OBVIOUS
  <2> QED
      BY <2>1, AggFields
<1>2. Increasing(rules, q, ts)
    BY <1>1 DEF Parts, Increasing
<1> QED
    BY <1>2 DEF Parts

\* q has become mid with the buys and end with the sells, which have the stamps first and next.
Split(of, q, last, first, next, mid, end, ts) ==
    /\ first = Stamp(now, last)
    /\ next = IF of["buy"] = <<>> THEN first ELSE Stamp(now, first)
    /\ mid = IF of["buy"] = <<>> THEN q ELSE Append(q, Joined(of["buy"], first))
    /\ end = IF of["sell"] = <<>> THEN mid ELSE Append(mid, Joined(of["sell"], next))
    /\ ts = IF of["sell"] = <<>> THEN first ELSE next

\* The aggregates of a message: of its buys, then of its sells.
LEMMA SidesSound ==
    ASSUME Consistent(rules), now \in Nat, rules.flush = "sides",
           NEW tr \in Seq(Trade), Chain(tr), NEW n \in Nat, NEW N \in Nat, N = Len(tr), n <= N,
           NEW of, BothSides(of, n, N, tr),
           NEW q \in Seq(Agg), NEW last \in Nat, Sound(rules, q, n, tr, last),
           NEW first, NEW next, NEW mid, NEW end, NEW ts,
           Split(of, q, last, first, next, mid, end, ts)
    PROVE  /\ mid \in Seq(Agg) /\ end \in Seq(Agg) /\ ts \in Nat /\ Sound(rules, end, N, tr, ts)
           /\ of["buy"] # <<>> => Joined(of["buy"], first) \in Agg
           /\ of["sell"] # <<>> => Joined(of["sell"], next) \in Agg
<1>s. /\ first = Stamp(now, last)
      /\ next = IF of["buy"] = <<>> THEN first ELSE Stamp(now, first)
      /\ mid = IF of["buy"] = <<>> THEN q ELSE Append(q, Joined(of["buy"], first))
      /\ end = IF of["sell"] = <<>> THEN mid ELSE Append(mid, Joined(of["sell"], next))
      /\ ts = IF of["sell"] = <<>> THEN first ELSE next
    BY DEF Split
<1>1. PICK buys \in Seq(Trade), sells \in Seq(Trade) : buys = of["buy"] /\ sells = of["sell"]
    BY DEF BothSides, Sides
<1>2. OneSide(buys, "buy", n, N, tr) /\ OneSide(sells, "sell", n, N, tr)
    BY <1>1 DEF BothSides, Sides
<1>3. first \in Nat /\ (rules.bump => last < first)
    BY <1>s, StampLater
<1>4. Parts(rules, q, N, tr, last)
  <2>1. Within(q, n)
      BY DEF Sound
  <2>2. Within(q, N)
      BY <2>1, MoreTrades
  <2> QED
      BY <2>2 DEF Sound, Parts
<1>5. \A i \in 1..Len(q) : \A k \in 1..Len(q[i].trades) : q[i].trades[k] \in 1..n
    BY DEF Sound, Within
<1>6. \A a \in 1..n, b \in (n + 1)..N : Follows(rules, a, b, tr)
  <2>1. \A a \in 1..n, b \in (n + 1)..N : a # b /\ a < b
      OBVIOUS
  <2> QED
      BY <2>1 DEF Follows
<1>7. /\ mid \in Seq(Agg) /\ Parts(rules, mid, N, tr, first) /\ next \in Nat
      /\ rules.bump /\ sells # <<>> => \A i \in 1..Len(mid) : mid[i].ts < next
      /\ sells # <<>> => \E l \in Nat : Parts(rules, mid, N, tr, l) /\ (rules.bump => l < next)
      /\ buys # <<>> => Joined(buys, first) \in Agg
      /\ \A m : Has(q, m) => Has(mid, m)
      /\ \A k \in 1..Len(buys) : Has(mid, buys[k].n)
      /\ \A i \in 1..Len(mid) : \A k \in 1..Len(mid[i].trades) :
             \/ mid[i].trades[k] \in 1..n
             \/ tr[mid[i].trades[k]].side = "buy"
  <2>1. CASE buys = <<>>
    <3>1. mid = q /\ next = first /\ Len(buys) = 0
        BY <1>s, <1>1, <2>1
    <3>2. Parts(rules, mid, N, tr, first)
        BY <1>3, <1>4, <3>1, LaterParts
    <3>3. \A i \in 1..Len(q) : q[i].ts \in Nat /\ (rules.bump => q[i].ts < first)
      <4>1. \A i \in 1..Len(q) : q[i] \in Agg
          OBVIOUS
      <4>2. \A i \in 1..Len(q) : q[i].ts \in Nat
          BY <4>1, AggFields
      <4> QED
          BY <1>3, <1>4, <4>2 DEF Parts, Increasing
    <3>4. \A k \in 1..Len(buys) : FALSE
        BY <3>1
    <3> QED
        BY <1>3, <1>4, <1>5, <2>1, <3>1, <3>2, <3>3, <3>4
  <2>2. CASE buys # <<>>
    <3>1. PICK e : e = Joined(buys, first)
        OBVIOUS
    <3>2. mid = Append(q, e) /\ next = Stamp(now, first)
        BY <1>s, <1>1, <2>2, <3>1
    <3>3. next \in Nat /\ (rules.bump => first < next)
        BY <1>3, <3>2, StampLater
    <3>4. AllFollow(q, buys, tr)
        BY <1>2, <1>5, <1>6 DEF OneSide, AllFollow
    <3>5. /\ e \in Agg /\ e.ts = first /\ e.side = "buy" /\ Fits(rules, q, e, N, tr, last)
          /\ Len(e.trades) = Len(buys) /\ \A k \in 1..Len(buys) : e.trades[k] = buys[k].n
      <4>1. "buy" \in Sides
          BY DEF Sides
      <4>2. OneSide(buys, "buy", n, N, tr) /\ first \in Nat /\ Later(last, first)
          BY <1>2, <1>3 DEF Later
      <4>3. Joins(e, buys, first, "buy") /\ Fits(rules, q, e, N, tr, last)
          BY <2>2, <3>1, <3>4, <4>1, <4>2, JoinedFits
      <4> QED
          BY <4>3 DEF Joins
    <3>6. mid \in Seq(Agg) /\ Parts(rules, mid, N, tr, first)
        BY <1>4, <3>2, <3>5, AddedParts
    <3>7. /\ \A m : Has(q, m) => Has(mid, m)
          /\ \A k \in 1..Len(e.trades) : Has(mid, e.trades[k])
      <4>1. e \in Agg /\ mid = Append(q, e)
          BY <3>2, <3>5
      <4> QED
          BY <4>1, AppendHas
    <3>8. \A k \in 1..Len(buys) : Has(mid, buys[k].n)
        BY <3>5, <3>7
    <3>9. ASSUME NEW i \in 1..Len(mid), NEW k \in 1..Len(mid[i].trades)
          PROVE  mid[i].trades[k] \in 1..n \/ tr[mid[i].trades[k]].side = "buy"
      <4>1. PICK L \in Nat : L = Len(q)
          OBVIOUS
      <4>2. Len(mid) = L + 1 /\ mid[L + 1] = e /\ \A j \in 1..L : mid[j] = q[j]
          BY <3>2, <3>5, <4>1, AppendProperties
      <4>3. CASE i \in 1..L
          BY <1>5, <4>1, <4>2, <4>3
      <4>4. CASE i = L + 1
        <5>1. k \in 1..Len(buys) /\ mid[i].trades[k] = buys[k].n
            BY <3>5, <4>2, <4>4
        <5>2. tr[buys[k].n].side = "buy"
            BY <1>2, <5>1 DEF OneSide
        <5> QED
            BY <5>1, <5>2
      <4> QED
          BY <4>2, <4>3, <4>4
    <3>10. \A i \in 1..Len(mid) : mid[i].ts \in Nat /\ (rules.bump => mid[i].ts < next)
      <4>1. \A i \in 1..Len(mid) : mid[i] \in Agg
          BY <3>6
      <4>2. \A i \in 1..Len(mid) : mid[i].ts \in Nat
          BY <4>1, AggFields
      <4> QED
          BY <1>3, <3>3, <3>6, <4>2 DEF Parts, Increasing
    <3> QED
        BY <1>3, <3>1, <3>3, <3>5, <3>6, <3>7, <3>8, <3>9, <3>10
  <2> QED
      BY <2>1, <2>2
<1>8. AllFollow(mid, sells, tr)
  <2>1. ASSUME NEW i \in 1..Len(mid), NEW k \in 1..Len(mid[i].trades), NEW l \in 1..Len(sells)
        PROVE  Follows(rules, mid[i].trades[k], sells[l].n, tr)
    <3>1. sells[l].n \in (n + 1)..N /\ tr[sells[l].n].side = "sell"
        BY <1>2 DEF OneSide
    <3>2. CASE mid[i].trades[k] \in 1..n
        BY <1>6, <3>1, <3>2
    <3>3. CASE tr[mid[i].trades[k]].side = "buy"
        BY <3>1, <3>3 DEF Follows
    <3> QED
        BY <1>7, <3>2, <3>3
  <2> QED
      BY <2>1 DEF AllFollow
<1>9. /\ end \in Seq(Agg) /\ ts \in Nat /\ Parts(rules, end, N, tr, ts)
      /\ sells # <<>> => Joined(sells, next) \in Agg
      /\ \A m : Has(mid, m) => Has(end, m)
      /\ \A k \in 1..Len(sells) : Has(end, sells[k].n)
  <2>1. CASE sells = <<>>
    <3>1. end = mid /\ ts = first /\ Len(sells) = 0
        BY <1>s, <1>1, <2>1
    <3>2. \A k \in 1..Len(sells) : FALSE
        BY <3>1
    <3> QED
        BY <1>3, <1>7, <2>1, <3>1, <3>2
  <2>2. CASE sells # <<>>
    <3>1. PICK e : e = Joined(sells, next)
        OBVIOUS
    <3>2. end = Append(mid, e) /\ ts = next
        BY <1>s, <1>1, <2>2, <3>1
    <3>3. PICK l \in Nat : Parts(rules, mid, N, tr, l) /\ (rules.bump => l < next)
        BY <1>7, <2>2
    <3>4. /\ e \in Agg /\ e.ts = next /\ e.side = "sell" /\ Fits(rules, mid, e, N, tr, l)
          /\ Len(e.trades) = Len(sells) /\ \A k \in 1..Len(sells) : e.trades[k] = sells[k].n
      <4>1. "sell" \in Sides
          BY DEF Sides
      <4>2. OneSide(sells, "sell", n, N, tr) /\ next \in Nat /\ Later(l, next)
          BY <1>2, <1>7, <3>3 DEF Later
      <4>3. Joins(e, sells, next, "sell") /\ Fits(rules, mid, e, N, tr, l)
          BY <1>8, <2>2, <3>1, <4>1, <4>2, JoinedFits
      <4> QED
          BY <4>3 DEF Joins
    <3>5. mid \in Seq(Agg) /\ next \in Nat
        BY <1>7
    <3>6. end \in Seq(Agg) /\ Parts(rules, end, N, tr, next)
        BY <3>2, <3>3, <3>4, <3>5, AddedParts
    <3>7. /\ \A m : Has(mid, m) => Has(end, m)
          /\ \A k \in 1..Len(e.trades) : Has(end, e.trades[k])
      <4>1. e \in Agg /\ mid \in Seq(Agg) /\ end = Append(mid, e)
          BY <3>2, <3>4, <3>5
      <4> QED
          BY <4>1, AppendHas
    <3>8. \A k \in 1..Len(sells) : Has(end, sells[k].n)
        BY <3>4, <3>7
    <3> QED
        BY <3>1, <3>2, <3>4, <3>5, <3>6, <3>7, <3>8
  <2> QED
      BY <2>1, <2>2
<1>10. ASSUME NEW m \in 1..N PROVE Has(end, m)
  <2>1. CASE m \in 1..n
    <3>1. Has(q, m)
        BY <2>1 DEF Sound, Complete, Has
    <3> QED
        BY <1>7, <1>9, <3>1
  <2>2. CASE m \in (n + 1)..N
    <3>1. PICK side \in Sides : side = tr[m].side
      <4>1. tr[m] \in Trade
          OBVIOUS
      <4> QED
          BY <4>1, TradeFields
    <3>2. PICK k \in 1..Len(of[side]) : of[side][k].n = m
        BY <2>2, <3>1 DEF BothSides
    <3>3. side = "buy" \/ side = "sell"
        BY DEF Sides
    <3> QED
        BY <1>1, <1>7, <1>9, <3>2, <3>3
  <2>3. m \in 1..n \/ m \in (n + 1)..N
      OBVIOUS
  <2> QED
      BY <2>1, <2>2, <2>3
<1>11. Complete(end, N)
    BY <1>10 DEF Complete, Has
<1> QED
    BY <1>1, <1>7, <1>9, <1>11 DEF Sound, Parts

----------------------------------------------------------------------------
(***************************************************************************)
(* The trades of the exchange.                                             *)
(***************************************************************************)

LEMMA NextInChain ==
    ASSUME NEW q \in Seq(Trade), Chain(q), NEW y \in NextTrades(q)
    PROVE  y \in Trade /\ Append(q, y) \in Seq(Trade) /\ Chain(Append(q, y))
<1>1. PICK L \in Nat : L = Len(q)
    OBVIOUS
<1>2. /\ y \in Trade /\ y.n = L + 1
      /\ \A i \in 1..L : q[i].order <= y.order /\ (q[i].order = y.order => q[i].side = y.side)
  <2>1. CASE q = <<>>
    <3>1. L = 0 /\ y = First
        BY <1>1, <2>1 DEF NextTrades
    <3> QED
        BY <3>1 DEF First, Trade, Sides
  <2>2. CASE q # <<>>
    <3>1. L \in 1..L /\ Last(q) = q[L]
        BY <1>1, <2>2 DEF Last
    <3>2. PICK x \in Trade : x = q[L]
        BY <1>1, <3>1
    <3>3. /\ x.n = L /\ \A i \in 1..L : q[i].order <= x.order
          /\ \A i \in 1..L : q[i].order = x.order => q[i].side = x.side
        BY <1>1, <3>1, <3>2 DEF Chain
    <3>4. y \in Following(x)
        BY <2>2, <3>1, <3>2 DEF NextTrades
    <3>5. x.n \in Nat /\ x.time \in Nat /\ x.order \in Nat /\ x.side \in Sides
        BY TradeFields
    <3>6. \A i \in 1..L : q[i].order \in Nat
      <4>1. \A i \in 1..L : q[i] \in Trade
          BY <1>1
      <4> QED
          BY <4>1, TradeFields
    <3>7. CASE y = [x EXCEPT !.n = @ + 1]
      <4>1. y \in Trade /\ y.n = x.n + 1 /\ y.order = x.order /\ y.side = x.side
          BY <3>5, <3>7, SMTT(30) DEF Trade
      <4> QED
          BY <3>3, <4>1
    <3>8. ASSUME NEW t \in {x.time, x.time + 1}, NEW side \in Sides,
                 y = [n |-> x.n + 1, time |-> t, order |-> x.order + 1, side |-> side]
          PROVE  /\ y \in Trade /\ y.n = L + 1
                 /\ \A i \in 1..L :
                       q[i].order <= y.order /\ (q[i].order = y.order => q[i].side = y.side)
      <4>1. y \in Trade /\ y.n = x.n + 1 /\ y.order = x.order + 1
          BY <3>5, <3>8 DEF Trade
      <4>2. \A i \in 1..L : q[i].order < x.order + 1
          BY <3>3, <3>5, <3>6
      <4> QED
          BY <3>3, <3>5, <3>6, <4>1, <4>2
    <3> QED
        BY <3>4, <3>7, <3>8 DEF Following
  <2> QED
      BY <2>1, <2>2
<1>3. PICK r \in Seq(Trade) : r = Append(q, y)
    BY <1>2, AppendProperties
<1>4. Len(r) = L + 1 /\ r[L + 1] = y /\ \A i \in 1..L : r[i] = q[i]
    BY <1>1, <1>2, <1>3, AppendProperties
<1>5. \A i \in 1..Len(r) : i \in 1..L \/ i = L + 1
    BY <1>4
<1>6. /\ \A i \in 1..L : q[i].n = i
      /\ \A i, j \in 1..L : i <= j => q[i].order <= q[j].order
      /\ \A i, j \in 1..L : q[i].order = q[j].order => q[i].side = q[j].side
    BY <1>1 DEF Chain
<1>7. y.order <= y.order
    BY <1>2, TradeFields
<1>8. \A i \in 1..Len(r) : r[i].n = i
    BY <1>2, <1>4, <1>5, <1>6
<1>9. \A i, j \in 1..Len(r) : i <= j => r[i].order <= r[j].order
  <2>1. ASSUME NEW i \in 1..Len(r), NEW j \in 1..Len(r), i <= j PROVE r[i].order <= r[j].order
    <3>1. CASE j \in 1..L
      <4>1. i \in 1..L
          BY <1>4, <2>1, <3>1
      <4> QED
          BY <1>4, <1>6, <2>1, <3>1, <4>1
    <3>2. CASE j = L + 1
        BY <1>2, <1>4, <1>5, <1>7, <3>2
    <3> QED
        BY <1>5, <3>1, <3>2
  <2> QED
      BY <2>1
<1>10. \A i, j \in 1..Len(r) : r[i].order = r[j].order => r[i].side = r[j].side
  <2>1. ASSUME NEW i \in 1..Len(r), NEW j \in 1..Len(r), r[i].order = r[j].order
        PROVE  r[i].side = r[j].side
    <3>1. CASE i \in 1..L /\ j \in 1..L
        BY <1>4, <1>6, <2>1, <3>1
    <3>2. CASE i = L + 1 /\ j \in 1..L
        BY <1>2, <1>4, <2>1, <3>2
    <3>3. CASE i \in 1..L /\ j = L + 1
        BY <1>2, <1>4, <2>1, <3>3
    <3>4. CASE i = L + 1 /\ j = L + 1
        BY <3>4
    <3> QED
        BY <1>5, <3>1, <3>2, <3>3, <3>4
  <2> QED
      BY <2>1
<1> QED
    BY <1>2, <1>3, <1>8, <1>9, <1>10 DEF Chain

\* A message goes on with the trades of the exchange.
LEMMA MessageInChain ==
    ASSUME MaxBatch \in Nat, NEW tr, tr = trades, tr \in Seq(Trade), Chain(tr),
           NEW message \in Messages
    PROVE  message \in Seq(Trade) /\ Chain(tr \o message)
<1> DEFINE M == {q \in Seq(Trade) : Chain(tr \o q)}
           T == SUBSET M
           More(a) == UNION {{Append(q, y) : y \in NextTrades(tr \o q)} : q \in a}
           F == [i \in 1..MaxBatch |-> [a \in T |-> More(a)]]
           G(f) == [m \in 0..MaxBatch |-> IF m = 0 THEN {<<>>} ELSE More(f[m - 1])]
<1>1. {<<>>} \in T
  <2>1. <<>> \in Seq(Trade) /\ tr \o <<>> = tr
      BY ConcatEmptySeq
  <2> QED
      BY <2>1
<1>2. ASSUME NEW a \in T PROVE More(a) \in T
  <2>1. ASSUME NEW q \in a, NEW y \in NextTrades(tr \o q) PROVE Append(q, y) \in M
    <3>1. q \in Seq(Trade) /\ Chain(tr \o q)
        BY <1>2
    <3>2. tr \o q \in Seq(Trade)
        BY <3>1, Concatenation
    <3>3. y \in Trade /\ Chain(Append(tr \o q, y))
        BY <2>1, <3>1, <3>2, NextInChain
    <3>4. Append(q, y) \in Seq(Trade)
        BY <3>1, <3>3, AppendProperties
    <3>5. tr \o Append(q, y) = Append(tr \o q, y)
        BY <3>1, <3>3, AppendJoins
    <3> QED
        BY <3>3, <3>4, <3>5
  <2>2. ASSUME NEW z \in More(a) PROVE z \in M
    <3>1. PICK q \in a : z \in {Append(q, y) : y \in NextTrades(tr \o q)}
        BY <2>2
    <3>2. PICK y \in NextTrades(tr \o q) : z = Append(q, y)
        BY <3>1
    <3> HIDE DEF M
    <3> QED
        BY <2>1, <3>2
  <2> HIDE DEF M, More
  <2> QED
      BY <2>2
<1>3. \A i \in 1..MaxBatch : \A a \in T : F[i][a] = More(a) /\ F[i][a] \in T
  <2> HIDE DEF More, T
  <2> QED
      BY <1>2
<1> HIDE DEF M, T, More, F
<1>4. PICK f : IsIteration(f, MaxBatch, {<<>>}, F) /\ \A i \in 0..MaxBatch : f[i] \in T
  <2>1. \A i \in 1..MaxBatch : \A a \in T : F[i][a] \in T
      BY <1>3
  <2> QED
      BY <1>1, <2>1, IterationExists
<1>5. f = G(f)
  <2>1. ASSUME NEW m \in 0..MaxBatch PROVE f[m] = G(f)[m]
    <3>1. CASE m = 0
        BY <1>4, <3>1 DEF IsIteration
    <3>2. CASE m # 0
      <4>1. f[m] = F[m][f[m - 1]]
          BY <1>4, <3>2 DEF IsIteration
      <4>2. m \in 1..MaxBatch /\ m - 1 \in 0..MaxBatch
          BY <3>2
      <4>3. F[m][f[m - 1]] = More(f[m - 1])
          BY <1>3, <1>4, <4>2
      <4> QED
          BY <3>2, <4>1, <4>3
    <3> QED
        BY <3>1, <3>2
  <2>2. f = [m \in 0..MaxBatch |-> f[m]]
      BY <1>4 DEF IsIteration
  <2>3. G(f) = [m \in 0..MaxBatch |-> G(f)[m]]
      OBVIOUS
  <2> HIDE DEF G
  <2> QED
      BY <2>1, <2>2, <2>3
<1>6. PICK grown : grown = CHOOSE h : h = G(h)
    OBVIOUS
<1>7. grown = G(grown)
  <2> HIDE DEF G
  <2> QED
      BY <1>5, <1>6
<1> DEFINE R == {m \in Nat : m <= MaxBatch => grown[m] \in T}
<1>8. 0 \in R
    BY <1>1, <1>7
<1>9. ASSUME NEW m \in Nat, m \in R PROVE m + 1 \in R
  <2>1. SUFFICES ASSUME m + 1 <= MaxBatch PROVE grown[m + 1] \in T
      OBVIOUS
  <2>2. grown[m] \in T
    <3>1. m <= MaxBatch
        BY <2>1
    <3> QED
        BY <1>9, <3>1
  <2>3. PICK k \in 0..MaxBatch : k = m + 1 /\ k # 0 /\ k - 1 = m
      BY <2>1
  <2>4. grown[k] = More(grown[m])
      BY <1>7, <2>3
  <2> QED
      BY <1>2, <2>2, <2>3, <2>4
<1>10. \A m \in 1..MaxBatch : grown[m] \in T
  <2> HIDE DEF R
  <2>1. Nat \subseteq R
      BY <1>8, <1>9, NatSetInduction
  <2>2. \A m \in 1..MaxBatch : m \in R /\ m \in Nat /\ m <= MaxBatch
      BY <2>1
  <2> QED
      BY <2>2 DEF R
<1>11. Messages = UNION {grown[m] : m \in {k \in 1..MaxBatch : Len(tr) + k <= MaxTrades}}
    BY <1>6 DEF Messages, More
<1>12. PICK m \in 1..MaxBatch : message \in grown[m]
    BY <1>11
<1>13. message \in M
    BY <1>10, <1>12 DEF T
<1> QED
    BY <1>13 DEF M

----------------------------------------------------------------------------
(***************************************************************************)
(* The steps.                                                              *)
(***************************************************************************)

\* What the parts of the invariant say of the next state.
LEMMA NextInvariant ==
    ASSUME Consistent(rules), rules' = rules,
           NEW t \in 1..MaxTime, t = now', NEW tr \in Seq(Trade), tr = trades', Chain(tr),
           NEW last \in Nat, last = lastTs', NEW due \in Seq(Nat), due = timers',
           NEW p \in Seq(Agg), p = stash', NEW out \in Seq(Agg), out = published',
           NEW q, q = out \o p, open' = (p # <<>>),
           rules.flush \notin {"stash", "event"} => p = <<>>,
           Sound(rules, q, Len(tr), tr, last), Aging(rules, p, last, t), Timed(rules, p, due)
    PROVE  IInv'
<1>1. StateTypes'
  <2>1. open' \in BOOLEAN
      OBVIOUS
  <2>2. Consistent(rules)'
      BY DEF Consistent
  <2> QED
      BY <2>1, <2>2 DEF StateTypes
<1>2. Chain(trades)'
    BY DEF Chain
<1>3. Aggregated' = q
    BY DEF Aggregated
<1>4. Sound(rules, Aggregated, Len(trades), trades, lastTs)'
    BY <1>3
<1>5. Aging(rules, stash, lastTs, now)' /\ Timed(rules, stash, timers)'
    OBVIOUS
<1>6. Stashed'
    BY <1>5 DEF Stashed
<1> QED
    BY <1>1, <1>2, <1>4, <1>6 DEF IInv

LEMMA TickKeeps ==
    ASSUME IInv, Tick
    PROVE  IInv'
<1>1. PICK tr \in Seq(Trade), last \in Nat, due \in Seq(Nat), p \in Seq(Agg), out \in Seq(Agg) :
          tr = trades /\ last = lastTs /\ due = timers /\ p = stash /\ out = published
    BY DEF IInv, StateTypes
<1>q. PICK q : q = out \o p
    OBVIOUS
<1>2. /\ Consistent(rules) /\ now \in 1..MaxTime /\ Chain(tr) /\ Sound(rules, q, Len(tr), tr, last)
      /\ Aging(rules, p, last, now) /\ Timed(rules, p, due)
      /\ open = (p # <<>>) /\ (rules.flush \notin {"stash", "event"} => p = <<>>)
    BY <1>1, <1>q DEF IInv, StateTypes, Stashed, Aggregated
<1>3. /\ rules' = rules /\ tr = trades' /\ last = lastTs' /\ due = timers' /\ p = stash'
      /\ out = published' /\ open' = (p # <<>>)
    BY <1>1, <1>2 DEF Tick
<1>4. PICK t \in 1..MaxTime : t = now' /\ now < t
  <2>1. now < MaxTime /\ now' = now + 1 /\ MaxTime \in Nat
      BY TradeBounds DEF Tick
  <2> QED
      BY <1>2, <2>1
<1>5. Aging(rules, p, last, t)
  <2>1. \A j \in 1..Len(p) : p[j].ts \in Nat
    <3>1. \A j \in 1..Len(p) : p[j] \in Agg
        OBVIOUS
    <3> QED
        BY <3>1, AggFields
  <2>2. p # <<>> => 1 \in 1..Len(p)
      OBVIOUS
  <2>3. \A j \in 1..Len(p) : j + 1 <= Len(p) => j + 1 \in 1..Len(p)
      OBVIOUS
  <2> QED
      BY <1>2, <1>4, <2>1, <2>2, <2>3, SMTT(30) DEF Aging
<1> QED
    BY <1>1, <1>q, <1>2, <1>3, <1>4, <1>5, NextInvariant

\* A message is gathered.
LEMMA MessageGathered ==
    ASSUME IInv, rules.flush # "sides", NEW message \in Messages,
           NEW tr, tr = trades \o message, NEW acc, acc = Gathered(message)
    PROVE  /\ tr \in Seq(Trade) /\ Chain(tr) /\ AccSound(acc, Len(tr), tr)
<1>1. PICK old \in Seq(Trade), last \in Nat, due \in Seq(Nat), p \in Seq(Agg), out \in Seq(Agg) :
          old = trades /\ last = lastTs /\ due = timers /\ p = stash /\ out = published
    BY DEF IInv, StateTypes
<1>q. PICK q : q = out \o p
    OBVIOUS
<1>2. /\ Consistent(rules) /\ now \in Nat /\ Chain(old) /\ Sound(rules, q, Len(old), old, last)
      /\ Aging(rules, p, last, now) /\ Timed(rules, p, due)
      /\ open = (p # <<>>)
    BY <1>1, <1>q DEF IInv, StateTypes, Stashed, Aggregated
<1>3. message \in Seq(Trade) /\ Chain(tr)
  <2>1. Chain(old) /\ MaxBatch \in Nat
      BY <1>2, TradeBounds
  <2> QED
      BY <1>1, <2>1, MessageInChain
<1>4. /\ tr \in Seq(Trade) /\ Len(tr) = Len(old) + Len(message)
      /\ \A i \in 1..Len(old) : tr[i] = old[i]
      /\ \A i \in 1..Len(message) : tr[Len(old) + i] = message[i]
    BY <1>1, <1>3, Concatenation
<1>5. PICK n \in Nat : n = Len(old)
    OBVIOUS
<1>6. Sound(rules, q, n, tr, last)
    BY <1>2, <1>4, <1>5, LongerChain
<1>7. PICK base : base = [out |-> published, stash |-> stash, open |-> open, last |-> lastTs,
                          timers |-> timers]
    OBVIOUS
<1>8. /\ base.out = out /\ base.stash = p /\ base.open = (p # <<>>) /\ base.last = last
      /\ base.timers = due /\ base \in Acc
    BY <1>1, <1>2, <1>7 DEF Acc
<1>9. AccSound(base, n, tr)
    BY <1>1, <1>q, <1>2, <1>6, <1>8 DEF AccSound, AccTypes
<1>10. AccSound(FoldLeft(Gather, base, message), Len(tr), tr)
  <2>1. Len(tr) = n + Len(message) /\ \A i \in 1..Len(message) : message[i] = tr[n + i]
      BY <1>4, <1>5
  <2>2. Age \in Nat
      BY TradeBounds
  <2> QED
      BY <1>2, <1>3, <1>4, <1>9, <2>1, <2>2, GatheredSound
<1>11. acc = FoldLeft(Gather, base, message)
    BY <1>7 DEF Gathered
<1> QED
    BY <1>3, <1>4, <1>10, <1>11

LEMMA PublishBatchKeeps ==
    ASSUME IInv, rules.flush \in {"batch", "single"}, NEW message \in Messages,
           trades' = trades \o message, PublishBatch(message), rules' = rules, now' = now
    PROVE  IInv'
<1>1. PICK tr : tr = trades \o message
    OBVIOUS
<1>2. PICK acc : acc = Gathered(message)
    OBVIOUS
<1>3. tr \in Seq(Trade) /\ Chain(tr) /\ AccSound(acc, Len(tr), tr)
    BY <1>1, <1>2, MessageGathered
<1>4. PICK out \in Seq(Agg), last \in Nat : out = acc.out \o acc.stash /\ last = acc.last
  <2>1. acc.out \in Seq(Agg) /\ acc.stash \in Seq(Agg) /\ acc.last \in Nat
      BY <1>3 DEF AccSound, AccTypes, Acc
  <2>2. acc.out \o acc.stash \in Seq(Agg)
      BY <2>1, Concatenation
  <2> QED
      BY <2>1, <2>2
<1>5. PICK due \in Seq(Nat), p \in Seq(Agg), t \in 1..MaxTime : due = timers /\ p = stash /\ t = now
    BY DEF IInv, StateTypes
<1>6. Consistent(rules) /\ p = <<>> /\ open = (p # <<>>)
    BY <1>5 DEF IInv, StateTypes, Stashed
<1>7. /\ published' = out /\ lastTs' = last /\ stash' = p /\ open' = (p # <<>>) /\ timers' = due
    BY <1>2, <1>4, <1>5, <1>6 DEF PublishBatch
<1>8. PICK q : q = out \o p
    OBVIOUS
<1>9. q = out
    BY <1>6, <1>8, ConcatEmptySeq
<1>10. Sound(rules, q, Len(tr), tr, last)
    BY <1>3, <1>4, <1>9 DEF AccSound
<1>11. Aging(rules, p, last, t) /\ Timed(rules, p, due)
    BY DEF Aging, Timed
<1> QED
    BY <1>1, <1>3, <1>5, <1>6, <1>7, <1>8, <1>10, <1>11, NextInvariant

LEMMA StashesKeeps ==
    ASSUME IInv, rules.flush \in {"stash", "event"}, NEW message \in Messages,
           trades' = trades \o message, Stashes(message), rules' = rules, now' = now
    PROVE  IInv'
<1>1. PICK tr : tr = trades \o message
    OBVIOUS
<1>2. PICK acc : acc = Gathered(message)
    OBVIOUS
<1>3. tr \in Seq(Trade) /\ Chain(tr) /\ AccSound(acc, Len(tr), tr)
    BY <1>1, <1>2, MessageGathered
<1>4. PICK out \in Seq(Agg), p \in Seq(Agg), last \in Nat :
          out = acc.out /\ p = acc.stash /\ last = acc.last
    BY <1>3 DEF AccSound, AccTypes, Acc
<1>5. Consistent(rules)
    BY DEF IInv, StateTypes
<1>6. PICK t \in 1..MaxTime : t = now
    BY DEF IInv, StateTypes
<1>7. PICK due \in Seq(Nat) : due = IF rules.timer = "message"
                                    THEN Append(acc.timers, now + Age + rules.late) ELSE acc.timers
  <2>1. acc.timers \in Seq(Nat)
      BY <1>3 DEF AccSound, AccTypes, Acc
  <2>2. now + Age + rules.late \in Nat
      BY <1>5, <1>6, TradeBounds DEF Consistent, TradeRules
  <2>3. Append(acc.timers, now + Age + rules.late) \in Seq(Nat)
      BY <2>1, <2>2, AppendProperties
  <2> QED
      BY <2>1, <2>3
<1>8. Timed(rules, p, due)
  <2>1. CASE rules.timer = "message"
      BY <1>5, <2>1 DEF Timed, Consistent
  <2>2. CASE rules.timer # "message"
    <3>1. due = acc.timers
        BY <1>7, <2>2
    <3> QED
        BY <1>3, <1>4, <3>1 DEF AccSound
  <2> QED
      BY <2>1, <2>2
<1>9. PICK q : q = out \o p
    OBVIOUS
<1>10. Sound(rules, q, Len(tr), tr, last) /\ Aging(rules, p, last, t) /\ acc.open = (p # <<>>)
    BY <1>3, <1>4, <1>6, <1>9 DEF AccSound, AccTypes
<1>11. /\ published' = out /\ lastTs' = last /\ stash' = p /\ open' = (p # <<>>) /\ timers' = due
    BY <1>2, <1>4, <1>7, <1>10 DEF Stashes
<1> QED
    BY <1>1, <1>3, <1>5, <1>6, <1>8, <1>9, <1>10, <1>11, NextInvariant

LEMMA OneMore ==
    ASSUME NEW q \in Seq(Agg), NEW e \in Agg
    PROVE  q \o <<e>> = Append(q, e)
<1>1. <<>> \in Seq(Agg) /\ Append(<<>>, e) = <<e>>
    OBVIOUS
<1>2. q \o Append(<<>>, e) = Append(q \o <<>>, e)
    BY <1>1, AppendJoins
<1>3. q \o <<>> = q
    BY ConcatEmptySeq
<1> QED
    BY <1>1, <1>2, <1>3

LEMMA PublishSidesKeeps ==
    ASSUME IInv, rules.flush = "sides", NEW message \in Messages,
           trades' = trades \o message, PublishSides(message), rules' = rules, now' = now
    PROVE  IInv'
<1>1. PICK old \in Seq(Trade), last \in Nat, due \in Seq(Nat), p \in Seq(Agg), q \in Seq(Agg) :
          old = trades /\ last = lastTs /\ due = timers /\ p = stash /\ q = published
    BY DEF IInv, StateTypes
<1>2. PICK t \in 1..MaxTime : t = now
    BY DEF IInv, StateTypes
<1>3. Consistent(rules) /\ Chain(old) /\ p = <<>> /\ open = (p # <<>>)
    BY <1>1 DEF IInv, StateTypes, Stashed
<1>4. Sound(rules, q, Len(old), old, last)
  <2>1. Aggregated = q
    <3>1. q \o <<>> = q
        BY ConcatEmptySeq
    <3> QED
        BY <1>1, <1>3, <3>1 DEF Aggregated
  <2> QED
      BY <1>1, <2>1 DEF IInv
<1>5. PICK tr : tr = old \o message
    OBVIOUS
<1>6. message \in Seq(Trade) /\ Chain(tr)
  <2>1. MaxBatch \in Nat
      BY TradeBounds
  <2> QED
      BY <1>1, <1>3, <1>5, <2>1, MessageInChain
<1>7. /\ tr \in Seq(Trade) /\ Len(tr) = Len(old) + Len(message)
      /\ \A i \in 1..Len(old) : tr[i] = old[i]
      /\ \A i \in 1..Len(message) : tr[Len(old) + i] = message[i]
    BY <1>5, <1>6, Concatenation
<1>8. PICK n \in Nat, N \in Nat : n = Len(old) /\ N = Len(tr) /\ n <= N
  <2>1. Len(old) \in Nat /\ Len(message) \in Nat
      BY <1>6
  <2> QED
      BY <1>7, <2>1
<1>9. Sound(rules, q, n, tr, last)
    BY <1>4, <1>7, <1>8, LongerChain
<1>10. PICK of : of = FoldLeft(Sort, [side \in Sides |-> <<>>], message)
    OBVIOUS
<1>11. BothSides(of, n, N, tr)
  <2>1. Len(tr) = n + Len(message) /\ \A i \in 1..Len(message) : message[i] = tr[n + i]
      BY <1>7, <1>8
  <2>2. BothSides(of, n, Len(tr), tr)
      BY <1>6, <1>7, <1>10, <2>1, Sorted
  <2> QED
      BY <1>8, <2>2
<1>12. PICK first : first = Stamp(now, last)
    OBVIOUS
<1>13. PICK next : next = (IF of["buy"] = <<>> THEN first ELSE Stamp(now, first))
    OBVIOUS
<1>14. PICK mid : mid = (IF of["buy"] = <<>> THEN q ELSE Append(q, Joined(of["buy"], first)))
    OBVIOUS
<1>15. PICK end : end = (IF of["sell"] = <<>> THEN mid ELSE Append(mid, Joined(of["sell"], next)))
    OBVIOUS
<1>16. PICK ts : ts = (IF of["sell"] = <<>> THEN first ELSE next)
    OBVIOUS
<1>17. /\ mid \in Seq(Agg) /\ end \in Seq(Agg) /\ ts \in Nat /\ Sound(rules, end, N, tr, ts)
       /\ of["buy"] # <<>> => Joined(of["buy"], first) \in Agg
       /\ of["sell"] # <<>> => Joined(of["sell"], next) \in Agg
  <2>1. now \in Nat /\ Split(of, q, last, first, next, mid, end, ts)
      BY <1>2, <1>12, <1>13, <1>14, <1>15, <1>16 DEF Split
  <2> QED
      BY <1>3, <1>6, <1>7, <1>8, <1>9, <1>11, <2>1, SidesSound
<1>18. PICK buys : buys = IF of["buy"] = <<>> THEN <<>> ELSE <<Joined(of["buy"], first)>>
    OBVIOUS
<1>19. PICK sells : sells = IF of["sell"] = <<>> THEN <<>> ELSE <<Joined(of["sell"], next)>>
    OBVIOUS
<1>20. published' = (q \o buys) \o sells /\ lastTs' = ts /\ UNCHANGED <<stash, open, timers>>
    BY <1>1, <1>10, <1>12, <1>13, <1>16, <1>18, <1>19 DEF PublishSides
<1>21. q \o buys = mid
  <2>1. q \o <<>> = q
      BY ConcatEmptySeq
  <2> QED
      BY <1>14, <1>17, <1>18, <2>1, OneMore
<1>22. mid \o sells = end
  <2>1. mid \o <<>> = mid
      BY <1>17, ConcatEmptySeq
  <2> QED
      BY <1>15, <1>17, <1>19, <2>1, OneMore
<1>23. /\ published' = end /\ stash' = p /\ open' = (p # <<>>) /\ timers' = due
    BY <1>1, <1>3, <1>20, <1>21, <1>22
<1>24. PICK all : all = end \o p
    OBVIOUS
<1>25. Sound(rules, all, Len(tr), tr, ts)
  <2>1. all = end
      BY <1>3, <1>17, <1>24, ConcatEmptySeq
  <2> QED
      BY <1>8, <1>17, <2>1
<1>26. Aging(rules, p, ts, t) /\ Timed(rules, p, due)
    BY DEF Aging, Timed
<1>27. tr = trades' /\ t = now' /\ ts = lastTs'
    BY <1>1, <1>2, <1>5, <1>20
<1> QED
    BY <1>3, <1>6, <1>7, <1>17, <1>23, <1>24, <1>25, <1>26, <1>27, NextInvariant

LEMMA OtherEventKeeps ==
    ASSUME IInv, OnOtherEvent
    PROVE  IInv'
<1>1. PICK tr \in Seq(Trade), last \in Nat, due \in Seq(Nat), p \in Seq(Agg), out \in Seq(Agg),
           t \in 1..MaxTime :
          tr = trades /\ last = lastTs /\ due = timers /\ p = stash /\ out = published /\ t = now
    BY DEF IInv, StateTypes
<1>2. PICK q \in Seq(Agg) : q = out \o p
    BY Concatenation
<1>3. Consistent(rules) /\ Chain(tr) /\ Sound(rules, q, Len(tr), tr, last)
    BY <1>1, <1>2 DEF IInv, StateTypes, Aggregated
<1>4. /\ rules.flush = "event" /\ published' = q /\ stash' = <<>> /\ open' = FALSE
      /\ rules' = rules /\ tr = trades' /\ last = lastTs' /\ due = timers' /\ t = now'
    BY <1>1, <1>2 DEF OnOtherEvent
<1>5. PICK none \in Seq(Agg) : none = <<>>
  <2>1. <<>> \in Seq(Agg)
      OBVIOUS
  <2> QED
      BY <2>1
<1>6. q \o none = q
    BY <1>5, ConcatEmptySeq
<1>7. Aging(rules, none, last, t) /\ Timed(rules, none, due)
    BY <1>4 DEF Aging, Timed
<1>8. stash' = none /\ open' = (none # <<>>)
    BY <1>4, <1>5
<1> QED
    BY <1>3, <1>4, <1>5, <1>6, <1>7, <1>8, NextInvariant

LEMMA TradesKeep ==
    ASSUME IInv, OnTrades
    PROVE  IInv'
<1>1. PICK message \in Messages :
          /\ trades' = trades \o message
          /\ \/ rules.flush \in {"batch", "single"} /\ PublishBatch(message)
             \/ rules.flush = "sides" /\ PublishSides(message)
             \/ rules.flush \in {"stash", "event"} /\ Stashes(message)
          /\ rules' = rules /\ now' = now
    BY DEF OnTrades
<1>2. CASE rules.flush \in {"batch", "single"} /\ PublishBatch(message)
    BY <1>1, <1>2, PublishBatchKeeps
<1>3. CASE rules.flush = "sides" /\ PublishSides(message)
    BY <1>1, <1>3, PublishSidesKeeps
<1>4. CASE rules.flush \in {"stash", "event"} /\ Stashes(message)
    BY <1>1, <1>4, StashesKeeps
<1> QED
    BY <1>1, <1>2, <1>3, <1>4

\* What is taken from the front of one sequence to the end of another.
IsJoin(d, a, b) == d = a \o b

LEMMA Moved ==
    ASSUME NEW a \in Seq(Agg), NEW b \in Seq(Agg), NEW c \in Seq(Agg),
           NEW d \in Seq(Agg), IsJoin(d, a, b), NEW e \in Seq(Agg), IsJoin(e, b, c),
           NEW q \in Seq(Agg), IsJoin(q, a, e)
    PROVE  IsJoin(q, d, c)
<1>1. (a \o b) \o c = a \o (b \o c)
    BY ConcatAssociative, SMTT(30)
<1>2. d \o c = (a \o b) \o c
    BY DEF IsJoin
<1>3. q = a \o (b \o c)
    BY DEF IsJoin
<1> QED
    BY <1>1, <1>2, <1>3 DEF IsJoin

\* A timer publishes from the front of the stash.
LEMMA PostKeeps ==
    ASSUME IInv, Post
    PROVE  IInv'
<1>1. PICK tr \in Seq(Trade), last \in Nat, due \in Seq(Nat), p \in Seq(Agg), out \in Seq(Agg),
           t \in 1..MaxTime :
          tr = trades /\ last = lastTs /\ due = timers /\ p = stash /\ out = published /\ t = now
    BY DEF IInv, StateTypes
<1>2. PICK q \in Seq(Agg) : q = out \o p
    BY Concatenation
<1>3. /\ Consistent(rules) /\ Chain(tr) /\ Sound(rules, q, Len(tr), tr, last)
      /\ Aging(rules, p, last, t) /\ Timed(rules, p, due) /\ open = (p # <<>>)
    BY <1>1, <1>2 DEF IInv, StateTypes, Stashed, Aggregated
<1>4. PICK L \in Nat : L = Len(p)
    OBVIOUS
<1>5. PICK old : old = {i \in 0..L : \A j \in 1..i : t - p[j].ts > Age}
    OBVIOUS
<1>6. PICK n : n = CHOOSE i \in old : \A j \in old : j <= i
    OBVIOUS
<1>7. /\ rules.flush = "stash" /\ due # <<>> /\ Head(due) <= t
      /\ timers' = Tail(due)
      /\ published' = out \o SubSeq(p, 1, n) /\ stash' = SubSeq(p, n + 1, L)
      /\ open' = (open /\ stash' # <<>>)
      /\ rules' = rules /\ tr = trades' /\ last = lastTs' /\ t = now'
    BY <1>1, <1>4, <1>5, <1>6 DEF Post
<1>8. n \in 0..L /\ n \in old /\ \A j \in old : j <= n
  <2>1. old \in SUBSET (0..L)
      BY <1>5
  <2>2. old # {}
    <3>1. 0 \in 0..L /\ \A j \in 1..0 : FALSE
        OBVIOUS
    <3>2. 0 \in old
        BY <1>5, <3>1
    <3> QED
        BY <3>2
  <2>3. PICK m \in old : \A j \in old : m >= j
      BY <2>1, <2>2, GreatestExists
  <2>4. \A j \in old : j \in Int
      BY <2>1
  <2>5. \A j \in old : j <= m
      BY <2>3, <2>4
  <2>6. n \in old /\ \A j \in old : j <= n
      BY <1>6, <2>5
  <2> QED
      BY <2>1, <2>6
<1>9. \A j \in 1..n : t - p[j].ts > Age
    BY <1>5, <1>8
<1>10. \A j \in 1..L : p[j] \in Agg /\ p[j].ts \in Nat /\ p[j].at \in Nat
  <2>1. \A j \in 1..L : p[j] \in Agg
      BY <1>4
  <2> QED
      BY <2>1, AggFields
<1>11. Age \in Nat /\ rules.late \in Nat /\ rules.bump
    BY <1>3, <1>7, TradeBounds DEF Consistent, TradeRules
<1>12. \A i, j \in 1..L : i < j => p[i].ts < p[j].ts
  <2>1. PICK K \in Nat : K = Len(out)
      OBVIOUS
  <2>2. Len(q) = K + L /\ \A j \in 1..L : q[K + j] = p[j]
    <3>1. Len(out \o p) = Len(out) + Len(p)
        BY Concatenation
    <3>2. \A j \in 1..Len(p) : (out \o p)[Len(out) + j] = p[j]
        BY Concatenation
    <3> QED
        BY <1>2, <1>4, <2>1, <3>1, <3>2
  <2>3. ASSUME NEW i \in 1..L, NEW j \in 1..L, i < j PROVE p[i].ts < p[j].ts
    <3>1. K + i \in 1..Len(q) /\ K + j \in 1..Len(q) /\ K + i < K + j
        BY <2>2, <2>3
    <3>2. Increasing(rules, q, last)
        BY <1>3 DEF Sound
    <3>3. q[K + i].ts < q[K + j].ts
        BY <1>11, <3>1, <3>2 DEF Increasing
    <3> QED
        BY <2>2, <3>3
  <2> QED
      BY <2>3
<1>13. PICK gone \in Seq(Agg), rest \in Seq(Agg) :
           gone = SubSeq(p, 1, n) /\ rest = SubSeq(p, n + 1, L)
  <2>1. \A i \in 1..n : p[i] \in Agg
      BY <1>8, <1>10
  <2>2. \A i \in (n + 1)..L : p[i] \in Agg
      BY <1>8, <1>10
  <2>3. n \in Int /\ n + 1 \in Int /\ L \in Int
      BY <1>8
  <2>4. SubSeq(p, 1, n) \in Seq(Agg)
      BY <2>1, <2>3, SubSeqProperties
  <2>5. SubSeq(p, n + 1, L) \in Seq(Agg)
      BY <2>2, <2>3, SubSeqProperties
  <2> QED
      BY <2>4, <2>5
<1>14. Len(rest) = L - n /\ \A i \in 1..(L - n) : rest[i] = p[n + i]
  <2>1. n \in Int /\ n + 1 \in Int /\ L \in Int /\ \A i \in (n + 1)..L : p[i] \in Agg
      BY <1>8, <1>10
  <2>2. /\ Len(rest) = IF n + 1 <= L THEN L - (n + 1) + 1 ELSE 0
        /\ \A i \in 1..(L - (n + 1) + 1) : rest[i] = p[n + 1 + i - 1]
      BY <1>13, <2>1, SubSeqProperties
  <2>3. L - (n + 1) + 1 = L - n /\ (n + 1 <= L \/ L - n = 0)
      BY <1>8
  <2>4. \A i \in 1..(L - n) : n + 1 + i - 1 = n + i
      BY <1>8
  <2> QED
      BY <1>8, <2>2, <2>3, <2>4
<1>15. gone \o rest = p
  <2>1. 1 \in 1..(Len(p) + 1) /\ n \in (1 - 1)..Len(p) /\ L \in n..Len(p)
      BY <1>4, <1>8
  <2>2. SubSeq(p, 1, n) \o SubSeq(p, n + 1, L) = SubSeq(p, 1, L)
      BY <2>1, ConcatAdjacentSubSeq
  <2>3. SubSeq(p, 1, L) = p
      BY <1>4, SubSeqFull
  <2> QED
      BY <1>13, <2>2, <2>3
<1>16. PICK sent \in Seq(Agg) : sent = out \o gone
    BY Concatenation
<1>17. sent \o rest = q
  <2>1. IsJoin(sent, out, gone) /\ IsJoin(p, gone, rest) /\ IsJoin(q, out, p)
      BY <1>2, <1>15, <1>16 DEF IsJoin
  <2>2. IsJoin(q, sent, rest)
      BY <2>1, Moved
  <2> QED
      BY <2>2 DEF IsJoin
<1>18. rest = <<>> <=> n = L
  <2>1. rest = <<>> <=> Len(rest) = 0
      OBVIOUS
  <2> QED
      BY <1>8, <1>14, <2>1
<1>19. Aging(rules, rest, last, t)
  <2>1. /\ p = <<>> => last < t
        /\ p # <<>> => p[1].ts <= t /\ p[L].ts = last
        /\ \A j \in 1..L : j + 1 <= L => p[j + 1].ts <= t \/ p[j + 1].ts = p[j].ts + 1
      BY <1>3, <1>4, <1>7 DEF Aging
  <2>2. p = <<>> <=> L = 0
      BY <1>4
  <2>3. n # 0 => n \in 1..L /\ p[n].ts < t
    <3>1. n # 0 => n \in 1..n /\ n \in 1..L
        BY <1>8
    <3> QED
        BY <1>9, <1>10, <1>11, <3>1, SMTT(30)
  <2>4. ASSUME rest = <<>> PROVE last < t
    <3>1. CASE n = 0
        BY <1>18, <2>1, <2>2, <2>4, <3>1
    <3>2. CASE n # 0
        BY <1>18, <2>1, <2>2, <2>3, <2>4, <3>2
    <3> QED
        BY <3>1, <3>2
  <2>5. ASSUME rest # <<>> PROVE rest[1].ts <= t /\ rest[Len(rest)].ts = last
    <3>1. n < L /\ L # 0 /\ 1 \in 1..(L - n) /\ L - n \in 1..(L - n) /\ n + (L - n) = L
        BY <1>8, <1>18, <2>5
    <3>2. rest[1] = p[n + 1] /\ rest[Len(rest)] = p[L]
        BY <1>14, <3>1
    <3>3. p[n + 1].ts <= t
      <4>1. CASE n = 0
          BY <2>1, <2>2, <3>1, <4>1
      <4>2. CASE n # 0
        <5>1. n \in 1..L /\ n + 1 <= L /\ n + 1 \in 1..L
          <6>1. n \in Nat /\ n < L
              BY <1>8, <3>1
          <6> QED
              BY <4>2, <6>1
        <5>2. p[n + 1].ts <= t \/ p[n + 1].ts = p[n].ts + 1
            BY <2>1, <5>1
        <5>3. p[n].ts \in Nat
            BY <1>10, <5>1
        <5> QED
            BY <2>3, <4>2, <5>2, <5>3, SMTT(30)
      <4> QED
          BY <4>1, <4>2
    <3> QED
        BY <2>1, <2>2, <3>1, <3>2, <3>3
  <2>6. ASSUME NEW j \in 1..Len(rest), j + 1 <= Len(rest)
        PROVE  rest[j + 1].ts <= t \/ rest[j + 1].ts = rest[j].ts + 1
    <3>1. j \in 1..(L - n) /\ j + 1 \in 1..(L - n)
        BY <1>8, <1>14, <2>6
    <3>2. rest[j] = p[n + j] /\ rest[j + 1] = p[n + (j + 1)] /\ n + (j + 1) = (n + j) + 1
        BY <1>8, <1>14, <3>1, SMTT(30)
    <3>3. n + j \in 1..L /\ (n + j) + 1 <= L
        BY <1>8, <3>1
    <3> QED
        BY <2>1, <3>2, <3>3
  <2> QED
      BY <2>4, <2>5, <2>6 DEF Aging
<1>20. PICK later \in Seq(Nat) : later = Tail(due)
    BY <1>7, HeadTailProperties
<1>21. Timed(rules, rest, later)
  <2>1. SUFFICES ASSUME rules.late > 0, NEW j \in 1..Len(rest)
                 PROVE  \/ rest[j].ts > rest[j].at
                        \/ \E i \in 1..Len(later) : later[i] = rest[j].at + Age + rules.late
      BY DEF Timed
  <2>2. PICK k \in 1..L : k = n + j /\ rest[j] = p[k] /\ k > n
    <3>1. j \in 1..(L - n)
        BY <1>14, <2>1
    <3>2. n + j \in 1..L /\ n + j > n
        BY <1>8, <3>1
    <3> QED
        BY <1>14, <3>1, <3>2
  <2>3. p[k].ts > p[k].at \/ \E i \in 1..Len(due) : due[i] = p[k].at + Age + rules.late
      BY <1>3, <1>4, <1>7, <2>1 DEF Timed
  <2>4. ASSUME NEW i \in 1..Len(due), due[i] = p[k].at + Age + rules.late
        PROVE  p[k].ts > p[k].at \/ \E h \in 1..Len(later) : later[h] = p[k].at + Age + rules.late
    <3>1. PICK D \in Nat : D = Len(due) /\ Len(later) = D - 1
        BY <1>7, <1>20, HeadTailProperties
    <3>2. \A h \in 1..(D - 1) : later[h] = due[h + 1]
        BY <1>7, <1>20, <3>1, HeadTailProperties
    <3>3. CASE i # 1
      <4>1. i - 1 \in 1..(D - 1) /\ (i - 1) + 1 = i
          BY <3>1, <3>3
      <4>2. later[i - 1] = due[i]
          BY <3>2, <4>1
      <4> QED
          BY <2>4, <3>1, <4>1, <4>2
    <3>4. CASE i = 1
      <4>1. PICK a \in Nat, b \in Nat, late \in Nat, age \in Nat :
                a = p[k].at /\ b = p[k].ts /\ late = rules.late /\ age = Age
          BY <1>10, <1>11
      <4>4. a + age + late <= t /\ late > 0
        <5>1. Head(due) = due[1]
            BY <1>7
        <5>2. due[1] <= t
            BY <1>7, <5>1
        <5> QED
            BY <2>1, <2>4, <3>4, <4>1, <5>2
      <4>2. ASSUME b <= a PROVE FALSE
        <5>1. t - b > age
            BY <4>2, <4>4
        <5>2. ASSUME NEW h \in 1..k PROVE t - p[h].ts > Age
          <6>1. CASE h = k
              BY <4>1, <5>1, <6>1
          <6>2. CASE h # k
            <7>1. h \in 1..L /\ h < k
                BY <6>2
            <7>2. PICK c \in Nat : c = p[h].ts /\ c < b
                BY <1>10, <1>12, <4>1, <7>1
            <7>3. t - c > age
              <8>1. t \in Int
                  BY TradeBounds
              <8>2. c < b
                  BY <7>2
              <8> QED
                  BY <5>1, <8>1, <8>2
            <7> QED
                BY <4>1, <7>2, <7>3
          <6> QED
              BY <6>1, <6>2
        <5>3. k \in 0..L
            OBVIOUS
        <5>4. k \in old
            BY <1>5, <5>2, <5>3
        <5> QED
            BY <1>8, <2>2, <5>4
      <4>3. b > a
          BY <4>2
      <4> QED
          BY <4>1, <4>3
    <3> QED
        BY <3>3, <3>4
  <2> QED
      BY <2>2, <2>3, <2>4
<1>22. open' = (rest # <<>>)
  <2>1. rest # <<>> => p # <<>>
    <3>1. p = <<>> => L = 0
        BY <1>4
    <3> QED
        BY <1>8, <1>18, <3>1
  <2>2. open' = (p # <<>> /\ rest # <<>>)
      BY <1>3, <1>7, <1>13
  <2> QED
      BY <2>1, <2>2
<1>23. /\ sent = published' /\ rest = stash' /\ later = timers'
       /\ rules.flush \notin {"stash", "event"} => rest = <<>>
    BY <1>7, <1>13, <1>16, <1>20
<1> QED
    BY <1>3, <1>7, <1>17, <1>19, <1>21, <1>22, <1>23, NextInvariant

----------------------------------------------------------------------------
(***************************************************************************)
(* The table.                                                              *)
(***************************************************************************)

\* Every row of the table aggregates in a way that is consistent.
LEMMA TableSound ==
    \A v \in DOMAIN VenueTrade : Consistent(VenueTrade[v])
<1>1. \A key, id : Batch(key, id) = [flush |-> "batch", key |-> key, id |-> id, late |-> 0,
                                    timer |-> "aggregate", bump |-> TRUE]
    BY DEF Batch
<1>2. \A key, late :
          Stash(key, late) = [flush |-> "stash", key |-> key, id |-> "key", late |-> late,
                              timer |-> "aggregate", bump |-> TRUE]
  <2>1. TAKE key, late
  <2>2. PICK a : a = Batch(key, "key")
      OBVIOUS
  <2>3. PICK b : b = [a EXCEPT !.flush = "stash"]
      OBVIOUS
  <2>4. a = [flush |-> "batch", key |-> key, id |-> "key", late |-> 0,
             timer |-> "aggregate", bump |-> TRUE]
      BY <1>1, <2>2
  <2>5. b = [flush |-> "stash", key |-> key, id |-> "key", late |-> 0,
             timer |-> "aggregate", bump |-> TRUE]
      BY <2>3, <2>4
  <2>6. Stash(key, late) = [b EXCEPT !.late = late]
      BY <2>2, <2>3 DEF Stash
  <2> QED
      BY <2>5, <2>6
<1>3. BySide = [flush |-> "sides", key |-> "time", id |-> "first", late |-> 0,
                timer |-> "aggregate", bump |-> TRUE]
  <2>1. PICK a : a = Batch("time", "first")
      OBVIOUS
  <2>2. a = [flush |-> "batch", key |-> "time", id |-> "first", late |-> 0,
             timer |-> "aggregate", bump |-> TRUE]
      BY <1>1, <2>1
  <2>3. BySide = [a EXCEPT !.flush = "sides"]
      BY <2>1 DEF BySide
  <2> QED
      BY <2>2, <2>3
<1>4. \A key \in {"time", "shifted", "order", "trade"}, id \in {"key", "first"} :
          Consistent(Batch(key, id))
    BY <1>1 DEF Consistent, TradeRules, Flushes
<1>5. \A key \in {"time", "order", "trade"}, late \in Nat : Consistent(Stash(key, late))
    BY <1>2 DEF Consistent, TradeRules, Flushes
<1>6. Consistent(BySide)
    BY <1>3 DEF Consistent, TradeRules, Flushes
<1>7. \A v \in {"bitstampL2", "bitstamp"} : VenueTrade[v] = Stash("order", 0)
    BY DEF VenueTrade, BitstampL2Trades, BitstampTrades
<1>8. \A v \in {"bithumb", "gate", "krakenf", "okex", "okexp", "upbit"} :
          VenueTrade[v] = Stash("time", 0)
    BY DEF VenueTrade, BithumbTrades, GateTrades, KrakenfTrades, OkexTrades, OkexpTrades,
           UpbitTrades
<1>9. \A v \in {"bitfinex", "gemini"} : VenueTrade[v] = Stash("time", 1)
    BY DEF VenueTrade, BitfinexTrades, GeminiTrades
<1>10. \A v \in {"bitmex", "dydx", "okcoin"} : VenueTrade[v] = Batch("time", "key")
    BY DEF VenueTrade, BitmexTrades, DydxTrades, OkcoinTrades
<1>11. \A v \in {"bybiti", "bybitl", "bybits", "hitbtc", "huobi", "huobif", "huobil", "huobip"} :
          VenueTrade[v] = Batch("time", "first")
    BY DEF VenueTrade, BybitiTrades, BybitlTrades, BybitsTrades, HitbtcTrades, HuobiTrades,
           HuobifTrades, HuobilTrades, HuobipTrades
<1>12. \A v \in {"deribit"} : VenueTrade[v] = Batch("shifted", "first")
    BY DEF VenueTrade, DeribitTrades
<1>13. \A v \in {"bitz", "kraken"} : VenueTrade[v] = BySide
    BY DEF VenueTrade, BitzTrades, KrakenTrades
<1>14. Consistent(VenueTrade["binance"])
  <2>1. PICK r : r = VenueTrade["binance"]
      OBVIOUS
  <2>2. r = [Stash("trade", 1) EXCEPT !.id = "first"]
      BY <2>1 DEF VenueTrade, BinanceTrades
  <2>3. r = [flush |-> "stash", key |-> "trade", id |-> "first", late |-> 1,
              timer |-> "aggregate", bump |-> TRUE]
      BY <1>2, <2>2
  <2> QED
      BY <2>1, <2>3 DEF Consistent, TradeRules, Flushes
<1>15. Consistent(VenueTrade["bithumbg"])
  <2>1. PICK a : a = Batch("trade", "first")
      OBVIOUS
  <2>2. PICK b : b = [a EXCEPT !.flush = "single"]
      OBVIOUS
  <2>3. b = [flush |-> "single", key |-> "trade", id |-> "first", late |-> 0,
             timer |-> "aggregate", bump |-> TRUE]
      BY <1>1, <2>1, <2>2
  <2>4. VenueTrade["bithumbg"] = [b EXCEPT !.bump = FALSE]
      BY <2>1, <2>2 DEF VenueTrade, BithumbgTrades
  <2>5. VenueTrade["bithumbg"] = [flush |-> "single", key |-> "trade", id |-> "first", late |-> 0,
                                  timer |-> "aggregate", bump |-> FALSE]
      BY <2>3, <2>4
  <2> QED
      BY <2>5 DEF Consistent, TradeRules, Flushes
<1>16. Consistent(VenueTrade["coinbasepro"])
  <2>1. PICK r : r = VenueTrade["coinbasepro"]
      OBVIOUS
  <2>2. r = [Batch("order", "key") EXCEPT !.flush = "event"]
      BY <2>1 DEF VenueTrade, CoinbaseproTrades
  <2>3. r = [flush |-> "event", key |-> "order", id |-> "key", late |-> 0,
              timer |-> "aggregate", bump |-> TRUE]
      BY <1>1, <2>2
  <2> QED
      BY <2>1, <2>3 DEF Consistent, TradeRules, Flushes
<1>17. Consistent(VenueTrade["fbinance"])
  <2>1. PICK r : r = VenueTrade["fbinance"]
      OBVIOUS
  <2>2. r = [Batch("trade", "first") EXCEPT !.flush = "single"]
      BY <2>1 DEF VenueTrade, FbinanceTrades
  <2>3. r = [flush |-> "single", key |-> "trade", id |-> "first", late |-> 0,
              timer |-> "aggregate", bump |-> TRUE]
      BY <1>1, <2>2
  <2> QED
      BY <2>1, <2>3 DEF Consistent, TradeRules, Flushes
<1>18. Consistent(VenueTrade["gatef"])
  <2>1. PICK r : r = VenueTrade["gatef"]
      OBVIOUS
  <2>2. r = [Stash("time", 0) EXCEPT !.timer = "message"]
      BY <2>1 DEF VenueTrade, GatefTrades
  <2>3. r = [flush |-> "stash", key |-> "time", id |-> "key", late |-> 0,
              timer |-> "message", bump |-> TRUE]
      BY <1>2, <2>2
  <2> QED
      BY <2>1, <2>3 DEF Consistent, TradeRules, Flushes
<1>19. DOMAIN VenueTrade =
         {"binance", "bitfinex", "bithumb", "bithumbg", "bitmex", "bitstampL2", "bitstamp",
          "bitz", "bybiti", "bybitl", "bybits", "coinbasepro", "deribit", "dydx", "fbinance",
          "gate", "gatef", "gemini", "hitbtc", "huobi", "huobif", "huobil", "huobip", "kraken",
          "krakenf", "okcoin", "okex", "okexp", "upbit"}
    BY DEF VenueTrade
<1>20. ASSUME NEW v \in DOMAIN VenueTrade PROVE Consistent(VenueTrade[v])
  <2>1. CASE v \in {"bitstampL2", "bitstamp"}
      BY <1>5, <1>7, <2>1
  <2>2. CASE v \in {"bithumb", "gate", "krakenf", "okex", "okexp", "upbit"}
      BY <1>5, <1>8, <2>2
  <2>3. CASE v \in {"bitfinex", "gemini"}
      BY <1>5, <1>9, <2>3
  <2>4. CASE v \in {"bitmex", "dydx", "okcoin"}
      BY <1>4, <1>10, <2>4
  <2>5. CASE v \in {"bybiti", "bybitl", "bybits", "hitbtc", "huobi", "huobif", "huobil",
                    "huobip"}
      BY <1>4, <1>11, <2>5
  <2>6. CASE v \in {"deribit"}
      BY <1>4, <1>12, <2>6
  <2>7. CASE v \in {"bitz", "kraken"}
      BY <1>6, <1>13, <2>7
  <2>8. CASE v \in {"binance", "bithumbg", "coinbasepro", "fbinance", "gatef"}
      BY <1>14, <1>15, <1>16, <1>17, <1>18, <2>8
  <2> QED
      BY <1>19, <2>1, <2>2, <2>3, <2>4, <2>5, <2>6, <2>7, <2>8
<1> QED
    BY <1>20

\* The listener begins with nothing stashed.
LEMMA InitKeeps ==
    ASSUME Init
    PROVE  IInv
<1>1. Consistent(rules)
    BY TableSound, TradeBounds DEF Init
<1>2. /\ now = 1 /\ trades = <<>> /\ stash = <<>> /\ open = FALSE /\ lastTs = 0 /\ timers = <<>>
      /\ published = <<>>
    BY DEF Init
<1>3. <<>> \in Seq(Agg) /\ <<>> \in Seq(Trade) /\ <<>> \in Seq(Nat)
    OBVIOUS
<1>4. StateTypes
  <2>1. 1 \in 1..MaxTime
      BY TradeBounds
  <2> QED
      BY <1>1, <1>2, <1>3, <2>1 DEF StateTypes
<1>5. Chain(trades)
    BY <1>2 DEF Chain
<1>6. Aggregated = <<>> /\ Len(Aggregated) = 0 /\ Len(trades) = 0
    BY <1>2 DEF Aggregated
<1>7. Sound(rules, Aggregated, Len(trades), trades, lastTs)
    BY <1>6 DEF Sound, Complete, Within, InOrder, Alike, Increasing
<1>8. Stashed
  <2>1. \A j \in 1..Len(stash) : FALSE
      BY <1>2
  <2>2. Aging(rules, stash, lastTs, now)
      BY <1>2, <2>1 DEF Aging
  <2>3. Timed(rules, stash, timers)
      BY <2>1 DEF Timed
  <2>4. open = (stash # <<>>)
      BY <1>2
  <2> QED
      BY <1>2, <2>2, <2>3, <2>4 DEF Stashed
<1> QED
    BY <1>4, <1>5, <1>7, <1>8 DEF IInv

LEMMA StutterKeeps ==
    ASSUME IInv, UNCHANGED vars
    PROVE  IInv'
<1>1. Aggregated' = Aggregated
    BY DEF Aggregated, vars
<1>2. /\ rules' = rules /\ now' = now /\ trades' = trades /\ stash' = stash /\ open' = open
      /\ lastTs' = lastTs /\ timers' = timers
    BY DEF vars
<1>3. StateTypes'
    BY DEF IInv, StateTypes, Consistent, vars
<1>4. Chain(trades)' /\ Sound(rules, Aggregated, Len(trades), trades, lastTs)'
    BY <1>1, <1>2 DEF IInv
<1>5. Stashed'
    BY <1>2 DEF IInv, Stashed
<1> QED
    BY <1>3, <1>4, <1>5 DEF IInv

----------------------------------------------------------------------------
(***************************************************************************)
(* Theorems.                                                               *)
(***************************************************************************)

\* In every state the aggregates have the trades of the exchange, each once and in
\* order, their timestamps increase, and the stash begins with one that is due:
\* the trade branches of onWebsocketMessage and postAggTrade, together.
THEOREM TradesInvariant == Spec => []IInv
<1>1. Init => IInv
    BY InitKeeps
<1>2. IInv /\ [Next]_vars => IInv'
  <2> SUFFICES ASSUME IInv, [Next]_vars PROVE IInv'
      OBVIOUS
  <2>1. CASE Tick
      BY <2>1, TickKeeps
  <2>2. CASE OnTrades
      BY <2>2, TradesKeep
  <2>3. CASE Post
      BY <2>3, PostKeeps
  <2>4. CASE OnOtherEvent
      BY <2>4, OtherEventKeeps
  <2>5. CASE UNCHANGED vars
      BY <2>5, StutterKeeps
  <2> QED
      BY <2>1, <2>2, <2>3, <2>4, <2>5 DEF Next
<1> QED
    BY <1>1, <1>2, PTL DEF Spec

\* What the listener keeps has its types, and an aggregate in the making is the last
\* of the stash: aggTrade and stashedTrades of the listeners.
THEOREM TypeCorrect == Spec => []TypeOK
<1>1. IInv => TypeOK
  <2> SUFFICES ASSUME IInv PROVE TypeOK
      OBVIOUS
  <2>1. PICK tr \in Seq(Trade), due \in Seq(Nat) : tr = trades /\ due = timers
      BY DEF IInv, StateTypes
  <2>2. \A i \in 1..Len(tr) : tr[i].n = i /\ tr[i].side \in Sides
    <3>1. \A i \in 1..Len(tr) : tr[i] \in Trade
        OBVIOUS
    <3> QED
        BY <2>1, <3>1, TradeFields DEF IInv, Chain
  <2>3. \A i \in 1..Len(due) : due[i] \in Nat
      OBVIOUS
  <2>4. now \in 1..MaxTime /\ lastTs \in Nat /\ open \in BOOLEAN /\ (open => stash # <<>>)
      BY DEF IInv, StateTypes, Stashed
  <2> QED
      BY <2>1, <2>2, <2>3, <2>4 DEF TypeOK
<1> QED
    BY <1>1, TradesInvariant, PTL

\* No trade is lost, published twice, or overtaken by a later one of its side: how the
\* trades of a message join the aggregates of the message, of the stash, or of a side.
THEOREM TradesPublishedOnce == Spec => []EachOnceInOrder
<1>1. IInv => EachOnceInOrder
  <2> SUFFICES ASSUME IInv PROVE EachOnceInOrder
      OBVIOUS
  <2>1. PICK tr \in Seq(Trade), p \in Seq(Agg), out \in Seq(Agg) :
            tr = trades /\ p = stash /\ out = published
      BY DEF IInv, StateTypes
  <2>2. PICK q \in Seq(Agg) : q = Aggregated
    <3>1. out \o p \in Seq(Agg)
        BY Concatenation
    <3> QED
        BY <2>1, <3>1 DEF Aggregated
  <2>3. Complete(q, Len(tr)) /\ Within(q, Len(tr)) /\ InOrder(rules, q, tr)
      BY <2>1, <2>2 DEF IInv, Sound
  <2>4. DOMAIN q = 1..Len(q) /\ \A i \in 1..Len(q) : DOMAIN q[i].trades = 1..Len(q[i].trades)
    <3>1. \A i \in 1..Len(q) : q[i] \in Agg
        OBVIOUS
    <3>2. \A i \in 1..Len(q) : q[i].trades \in Seq(Nat)
        BY <3>1, AggFields
    <3> QED
        BY <3>2
  <2>5. ASSUME NEW n \in 1..Len(tr)
        PROVE  \E i \in DOMAIN q : n \in Range(q[i].trades)
    <3>1. PICK i \in 1..Len(q) : \E k \in 1..Len(q[i].trades) : q[i].trades[k] = n
        BY <2>3 DEF Complete
    <3> QED
        BY <2>4, <3>1 DEF Range
  <2>6. ASSUME NEW i \in DOMAIN q, NEW j \in DOMAIN q,
               NEW k \in DOMAIN q[i].trades, NEW l \in DOMAIN q[j].trades,
               NEW m, m = q[i].trades[k], NEW n, n = q[j].trades[l]
        PROVE  /\ {m, n} \subseteq 1..Len(tr)
               /\ i < j \/ (i = j /\ k < l) =>
                     /\ m # n
                     /\ rules.flush # "sides" \/ tr[m].side = tr[n].side => m < n
    <3>1. {m, n} \subseteq 1..Len(tr)
        BY <2>3, <2>4, <2>6 DEF Within
    <3>2. i < j => Follows(rules, m, n, tr)
        BY <2>3, <2>4, <2>6 DEF InOrder
    <3>3. i = j /\ k < l => Follows(rules, m, n, tr)
        BY <2>3, <2>4, <2>6 DEF InOrder
    <3> QED
        BY <3>1, <3>2, <3>3 DEF Follows
  <2> DEFINE Once(qs, ts) ==
          /\ \A n \in 1..Len(ts) : \E i \in DOMAIN qs : n \in Range(qs[i].trades)
          /\ \A i, j \in DOMAIN qs : \A k \in DOMAIN qs[i].trades, l \in DOMAIN qs[j].trades :
                LET m == qs[i].trades[k]
                    n == qs[j].trades[l]
                IN  /\ {m, n} \subseteq 1..Len(ts)
                    /\ i < j \/ (i = j /\ k < l) =>
                          /\ m # n
                          /\ rules.flush # "sides" \/ ts[m].side = ts[n].side => m < n
  <2>7. Once(q, tr)
    <3>1. ASSUME NEW i \in DOMAIN q, NEW j \in DOMAIN q,
                 NEW k \in DOMAIN q[i].trades, NEW l \in DOMAIN q[j].trades
          PROVE  LET m == q[i].trades[k]
                     n == q[j].trades[l]
                 IN  /\ {m, n} \subseteq 1..Len(tr)
                     /\ i < j \/ (i = j /\ k < l) =>
                           /\ m # n
                           /\ rules.flush # "sides" \/ tr[m].side = tr[n].side => m < n
      <4>1. PICK m, n : m = q[i].trades[k] /\ n = q[j].trades[l]
          OBVIOUS
      <4> QED
          BY <2>6, <4>1
    <3> QED
        BY <2>5, <3>1, Zenon
  <2>8. Once(Aggregated, trades)
    <3> HIDE DEF Once
    <3> QED
        BY <2>1, <2>2, <2>7
  <2> QED
      BY <2>8, Zenon DEF EachOnceInOrder
<1> QED
    BY <1>1, TradesInvariant, PTL

\* Timestamps increase where the listeners make them increase, and the age of the first
\* aggregate of the stash, an unsigned difference in postAggTrade, is not below zero.
THEOREM TimestampsIncrease == Spec => []TimestampsSound
<1>1. IInv => TimestampsSound
  <2> SUFFICES ASSUME IInv PROVE TimestampsSound
      OBVIOUS
  <2>1. PICK p \in Seq(Agg), out \in Seq(Agg) : p = stash /\ out = published
      BY DEF IInv, StateTypes
  <2>2. PICK q \in Seq(Agg) : q = Aggregated
    <3>1. out \o p \in Seq(Agg)
        BY Concatenation
    <3> QED
        BY <2>1, <3>1 DEF Aggregated
  <2>3. Increasing(rules, q, lastTs)
      BY <2>2 DEF IInv, Sound
  <2>4. ASSUME rules.bump, NEW i \in 1..Len(q) - 1 PROVE q[i].ts < q[i + 1].ts
    <3>1. i \in 1..Len(q) /\ i + 1 \in 1..Len(q) /\ i < i + 1
        OBVIOUS
    <3> QED
        BY <2>3, <2>4, <3>1 DEF Increasing
  <2>5. rules.flush = "stash" /\ stash # <<>> => stash[1].ts <= now
      BY DEF IInv, Stashed, Aging
  <2> QED
      BY <2>2, <2>4, <2>5 DEF TimestampsSound
<1> QED
    BY <1>1, TradesInvariant, PTL

\* The trades of an aggregate have its side, and no two aggregates share an id that is
\* a trade's: the comparison with aggTrade's id before a trade joins it.
THEOREM AggregatesDiffer == Spec => []AggregatesDistinct
<1>1. IInv => AggregatesDistinct
  <2> SUFFICES ASSUME IInv PROVE AggregatesDistinct
      OBVIOUS
  <2>1. PICK tr \in Seq(Trade), p \in Seq(Agg), out \in Seq(Agg) :
            tr = trades /\ p = stash /\ out = published
      BY DEF IInv, StateTypes
  <2>2. PICK q \in Seq(Agg) : q = Aggregated
    <3>1. out \o p \in Seq(Agg)
        BY Concatenation
    <3> QED
        BY <2>1, <3>1 DEF Aggregated
  <2>3. Within(q, Len(tr)) /\ InOrder(rules, q, tr) /\ Alike(rules, q, tr)
      BY <2>1, <2>2 DEF IInv, Sound
  <2>4. DOMAIN q = 1..Len(q) /\ \A i \in 1..Len(q) : DOMAIN q[i].trades = 1..Len(q[i].trades)
    <3>1. \A i \in 1..Len(q) : q[i] \in Agg
        OBVIOUS
    <3>2. \A i \in 1..Len(q) : q[i].trades \in Seq(Nat)
        BY <3>1, AggFields
    <3> QED
        BY <3>2
  <2>5. ASSUME rules.key # "shifted", NEW i \in DOMAIN q, NEW n \in Range(q[i].trades)
        PROVE  tr[n].side = q[i].side
    <3>1. PICK k \in 1..Len(q[i].trades) : n = q[i].trades[k]
        BY <2>4, <2>5 DEF Range
    <3> QED
        BY <2>3, <2>4, <2>5, <3>1 DEF Alike
  <2>6. ASSUME rules.id = "first", NEW i \in DOMAIN q, NEW j \in DOMAIN q, i < j
        PROVE  q[i].id # q[j].id
    <3>1. 1 \in 1..Len(q[i].trades) /\ 1 \in 1..Len(q[j].trades)
      <4>1. q[i].trades \in Seq(Nat) /\ q[j].trades \in Seq(Nat)
        <5>1. q[i] \in Agg /\ q[j] \in Agg
            BY <2>4
        <5> QED
            BY <5>1, AggFields
      <4>2. Len(q[i].trades) >= 1 /\ Len(q[j].trades) >= 1
          BY <2>3, <2>4 DEF Within
      <4> QED
          BY <4>1, <4>2
    <3>2. PICK m, n : m = q[i].trades[1] /\ n = q[j].trades[1]
        OBVIOUS
    <3>3. Follows(rules, m, n, tr)
        BY <2>3, <2>4, <2>6, <3>1, <3>2 DEF InOrder
    <3>4. q[i].id = <<m>> /\ q[j].id = <<n>>
        BY <2>3, <2>4, <2>6, <3>2 DEF Alike
    <3>5. <<m>> # <<n>>
        BY <3>3 DEF Follows
    <3> QED
        BY <3>4, <3>5
  <2>7. ASSUME rules.id = "first", NEW i \in DOMAIN q, NEW j \in DOMAIN q, i # j
        PROVE  q[i].id # q[j].id
    <3>1. i < j \/ j < i
        BY <2>4, <2>7
    <3> QED
        BY <2>6, <2>7, <3>1
  <2> QED
      BY <2>1, <2>2, <2>5, <2>7 DEF AggregatesDistinct
<1> QED
    BY <1>1, TradesInvariant, PTL

\* When no timer is under way, the stash begins with no aggregate whose timestamp is the
\* time it was made at: the timers of onWebsocketMessage have published it.
THEOREM TimersPublish == Spec => []TimerPublishes
<1>1. IInv => TimerPublishes
  <2> SUFFICES ASSUME IInv, rules.flush = "stash", rules.late > 0, timers = <<>>, stash # <<>>
               PROVE  stash[1].ts > stash[1].at
      BY DEF TimerPublishes
  <2>1. PICK p \in Seq(Agg) : p = stash
      BY DEF IInv, StateTypes
  <2>2. 1 \in 1..Len(p)
      BY <2>1
  <2>3. Timed(rules, p, timers)
      BY <2>1 DEF IInv, Stashed
  <2>4. \A i \in 1..Len(timers) : FALSE
      OBVIOUS
  <2> QED
      BY <2>1, <2>2, <2>3, <2>4 DEF Timed
<1> QED
    BY <1>1, TradesInvariant, PTL

=============================================================================
