-------------------------- MODULE RangeLoadingProofs --------------------------
(***************************************************************************)
(* RangeLoading, for any views, calendars and bounds: isRangeCovered answers *)
(* exactly, a range that is never asked for again has been stored as a whole, *)
(* and when no thread is left the window shows what is stored and nothing     *)
(* that the Today button asked for has been left out.                        *)
(*                                                                          *)
(* First come the loops: the quarters of a range, and the rows that           *)
(* isRangeCovered follows.  What they do is shown by looking at the least      *)
(* turn at which it would fail.  Then come the shape of the state and the      *)
(* three arguments about the threads.                                        *)
(***************************************************************************)
EXTENDS RangeLoading, FiniteSetTheorems, NaturalsInduction, WellFoundedInduction, TLAPS

-----------------------------------------------------------------------------
(***************************************************************************)
(* The quarters of a range, and the rows that isRangeCovered follows.       *)
(***************************************************************************)

(* A quarter of a year as a row of the table has it. *)
Quarter(q) == <<6 * q, 6 * q + 6>>
Quarters == {Quarter(q) : q \in Nat}

(***************************************************************************)
(* Numbers and calendars.                                                  *)
(***************************************************************************)

LEMMA LeastNumber ==
    ASSUME NEW S \in SUBSET Nat, S # {}
    PROVE  \E n \in S : \A m \in S : n <= m
<1>1. PICK n \in S : \A m \in S : ~(<<m, n>> \in OpToRel(<, Nat))
    BY WFMin, NatLessThanWellFounded
<1>2. \A m \in S : ~(m < n)
    BY <1>1 DEF OpToRel
<1> QED
    BY <1>2

LEMMA FirstIsLeast ==
    ASSUME NEW S \in SUBSET Cals, S # {}
    PROVE  First(S) \in S
<1>1. S \subseteq Nat
    BY ViewsAssumption
<1>2. PICK c \in S : \A d \in S : c <= d
    BY <1>1, LeastNumber
<1> QED
    BY <1>2 DEF First

LEMMA Division ==
    ASSUME NEW t \in Nat
    PROVE  /\ t \div 6 \in Nat
           /\ 6 * (t \div 6) <= t /\ t < 6 * (t \div 6) + 6
OBVIOUS

LEMMA QuarterIsItsNumber ==
    ASSUME NEW q \in Nat, NEW r \in Nat, NEW t \in Nat,
           t \in 6 * q..(6 * q + 5), t \in 6 * r..(6 * r + 5)
    PROVE  q = r
OBVIOUS

(***************************************************************************)
(* The quarters of a range.                                                *)
(***************************************************************************)

LEMMA QuarterStart ==
    ASSUME NEW q \in Nat, NEW r \in 0..5
    PROVE  /\ MakeUtcEpoch(Year(6 * q + r), QuarterStartMonth(6 * q + r)) = 6 * q
           /\ QuarterStartMonth(6 * q + r) = 10 =>
                  MakeUtcEpoch(Year(6 * q + r) + 1, 1) = 6 * q + 6
           /\ QuarterStartMonth(6 * q + r) # 10 =>
                  MakeUtcEpoch(Year(6 * q + r), QuarterStartMonth(6 * q + r) + 3) = 6 * q + 6
           /\ MonthAfter(Year(6 * q + r), QuarterStartMonth(6 * q + r)) = 6 * q + 6
BY DEF Year, Month, MakeUtcEpoch, QuarterStartMonth, MonthAfter

LEMMA QuarterMonth ==
    ASSUME NEW q \in Nat
    PROVE  Month(6 * q) = QuarterStartMonth(6 * q)
BY DEF Month, QuarterStartMonth

LEMMA FirstBucketIs ==
    ASSUME NEW t \in Nat
    PROVE  FirstBucket(t) = Quarter(t \div 6)
<1>1. PICK q \in Nat, r \in 0..5 : t = 6 * q + r /\ q = t \div 6
  <2>1. /\ t \div 6 \in Nat /\ t % 6 \in 0..5
        /\ t = 6 * (t \div 6) + (t % 6)
      OBVIOUS
  <2> QED
      BY <2>1
<1>2. BucketForEpoch(t) = <<6 * q, 6 * q + 6>>
    BY <1>1, QuarterStart DEF BucketForEpoch
<1>3. QuarterBucketForEpoch(t) = <<6 * q, 6 * q + 6>>
    BY <1>1, QuarterStart DEF QuarterBucketForEpoch
<1> QED
    BY <1>1, <1>2, <1>3 DEF FirstBucket, Quarter

LEMMA FollowingBucketIs ==
    ASSUME NEW q \in Nat
    PROVE  FollowingBucket(Quarter(q)) = Quarter(q + 1)
<1>1. NextBucket(Quarter(q)) = Quarter(q + 1)
  <2>1. BucketForEpoch(6 * (q + 1) + 0) = <<6 * (q + 1), 6 * (q + 1) + 6>>
    <3>1. q + 1 \in Nat /\ 0 \in 0..5
        OBVIOUS
    <3> QED
        BY <3>1, QuarterStart DEF BucketForEpoch
  <2>2. Quarter(q)[2] = 6 * (q + 1) + 0
      BY DEF Quarter
  <2> QED
      BY <2>1, <2>2 DEF NextBucket, Quarter
<1>2. NextQuarterBucket(Quarter(q)) = Quarter(q + 1)
  <2>1. MonthAfter(Year(6 * (q + 1) + 0), QuarterStartMonth(6 * (q + 1) + 0)) = 6 * (q + 1) + 6
    <3>1. q + 1 \in Nat /\ 0 \in 0..5
        OBVIOUS
    <3> QED
        BY <3>1, QuarterStart
  <2>2. 6 * (q + 1) + 0 = 6 * (q + 1) /\ Quarter(q)[2] = 6 * (q + 1)
      BY DEF Quarter
  <2>3. Month(6 * (q + 1)) = QuarterStartMonth(6 * (q + 1))
    <3>1. q + 1 \in Nat
        OBVIOUS
    <3> QED
        BY <3>1, QuarterMonth
  <2> QED
      BY <2>1, <2>2, <2>3 DEF NextQuarterBucket, Quarter
<1> QED
    BY <1>1, <1>2 DEF FollowingBucket

(* The loop has collected the quarters one after the other; turn n + 1 adds the
   next one while it starts before the end of the range.                    *)
FirstQuarters(q, n) == [i \in 1..n |-> Quarter(q + i - 1)]

LEMMA FirstQuartersExtended ==
    ASSUME NEW from \in Nat, NEW n \in Nat,
           NEW next,
           next = IF FirstQuarters(from \div 6, n) = <<>> THEN FirstBucket(from)
                  ELSE FollowingBucket(Last(FirstQuarters(from \div 6, n)))
    PROVE  /\ next = Quarter(from \div 6 + n)
           /\ Append(FirstQuarters(from \div 6, n), next) = FirstQuarters(from \div 6, n + 1)
<1> DEFINE q == from \div 6
<1>q. q \in Nat
    BY Division
<1> HIDE DEF q
<1>1. ASSUME n = 0
      PROVE  next = Quarter(q + n)
  <2>1. FirstQuarters(q, n) = <<>>
      BY <1>1 DEF FirstQuarters
  <2>2. next = Quarter(q)
      BY <2>1, FirstBucketIs DEF q
  <2> QED
      BY <2>2, <1>1, <1>q
<1>2. ASSUME n # 0
      PROVE  next = Quarter(q + n)
  <2>1. FirstQuarters(q, n) # <<>>
      BY <1>2 DEF FirstQuarters
  <2>2. Last(FirstQuarters(q, n)) = Quarter(q + n - 1)
    <3>1. FirstQuarters(q, n) \in Seq(Quarters) /\ Len(FirstQuarters(q, n)) = n
        BY <1>q DEF FirstQuarters, Quarters
    <3> QED
        BY <3>1, <1>2, <1>q DEF Last, FirstQuarters
  <2>3. q + n - 1 \in Nat /\ q + n - 1 + 1 = q + n
      BY <1>2, <1>q
  <2>4. FollowingBucket(Quarter(q + n - 1)) = Quarter(q + n - 1 + 1)
      BY <2>3, FollowingBucketIs
  <2> QED
      BY <2>1, <2>2, <2>3, <2>4 DEF q
<1>3. next = Quarter(q + n)
    BY <1>1, <1>2
<1>4. Append(FirstQuarters(q, n), Quarter(q + n)) = FirstQuarters(q, n + 1)
  <2>1. FirstQuarters(q, n) \in Seq(Quarters) /\ Len(FirstQuarters(q, n)) = n
      BY <1>q DEF FirstQuarters, Quarters
  <2>2. Quarter(q + n) \in Quarters
      BY <1>q DEF Quarters
  <2>3. FirstQuarters(q, n + 1) \in Seq(Quarters) /\ Len(FirstQuarters(q, n + 1)) = n + 1
      BY <1>q DEF FirstQuarters, Quarters
  <2>4. \A i \in 1..(n + 1) :
            Append(FirstQuarters(q, n), Quarter(q + n))[i] = FirstQuarters(q, n + 1)[i]
      BY <2>1, <2>2, <1>q DEF FirstQuarters
  <2>5. /\ Append(FirstQuarters(q, n), Quarter(q + n)) \in Seq(Quarters)
        /\ Len(Append(FirstQuarters(q, n), Quarter(q + n))) = n + 1
      BY <2>1, <2>2
  <2> QED
      BY <2>3, <2>4, <2>5
<1> QED
    BY <1>3, <1>4 DEF q

LEMMA BucketsOfRange ==
    ASSUME NEW from \in Nat, NEW to \in Nat, from < to
    PROVE  \E k \in Nat \ {0} :
               /\ BucketsForRange(from, to) = FirstQuarters(from \div 6, k)
               /\ to <= 6 * (from \div 6 + k)
               /\ 6 * (from \div 6 + k - 1) < to
<1> DEFINE q == from \div 6
           d == to - from
<1>q. q \in Nat /\ 6 * q <= from /\ from < 6 * q + 6
    BY Division
<1>d. d \in Nat \ {0} /\ to = from + d
    OBVIOUS
<1>1. PICK k \in Nat : /\ to <= 6 * (q + k)
                       /\ \A m \in Nat : to <= 6 * (q + m) => k <= m
  <2> DEFINE S == {m \in Nat : to <= 6 * (q + m)}
  <2>1. d \in S
      BY <1>q, <1>d
  <2>2. PICK k \in S : \A m \in S : k <= m
      BY <2>1, LeastNumber
  <2> QED
      BY <2>2
<1>2. k # 0
    BY <1>1, <1>q
<1>3. 6 * (q + k - 1) < to
  <2>1. k - 1 \in Nat /\ ~(k <= k - 1)
      BY <1>2
  <2> QED
      BY <2>1, <1>1, <1>q
<1>4. k <= d
    BY <1>1, <1>q, <1>d
<1>5. \A m \in Nat : 6 * (q + m) < to <=> m < k
  <2>1. \A m \in Nat : m < k => ~(to <= 6 * (q + m))
      BY <1>1
  <2>2. \A m \in Nat : ~(m < k) => to <= 6 * (q + m)
      BY <1>1, <1>q
  <2> QED
      BY <2>1, <2>2, <1>q
<1> DEFINE Turn(g, n) ==
        IF n = 0 THEN <<>>
        ELSE LET done == g[n - 1]
                 next == IF done = <<>> THEN FirstBucket(from) ELSE FollowingBucket(Last(done))
             IN  IF next[1] < to THEN Append(done, next) ELSE done
    F == CHOOSE g : g = [n \in 0..d |-> Turn(g, n)]
    G == [n \in 0..d |-> FirstQuarters(q, IF n <= k THEN n ELSE k)]
<1>6. BucketsForRange(from, to) = F[d]
    BY DEF BucketsForRange
<1> HIDE DEF q, d
<1>7. ASSUME NEW g, NEW n \in 0..d, n # 0, g[n - 1] = G[n - 1]
      PROVE  Turn(g, n) = G[n]
  <2> DEFINE m == IF n - 1 <= k THEN n - 1 ELSE k
             done == FirstQuarters(q, m)
             next == IF done = <<>> THEN FirstBucket(from) ELSE FollowingBucket(Last(done))
  <2>1. m \in Nat /\ n - 1 \in 0..d /\ g[n - 1] = done
      BY <1>7, <1>d
  <2>2. next = Quarter(q + m) /\ Append(done, next) = FirstQuarters(q, m + 1)
      BY <2>1, FirstQuartersExtended DEF q
  <2>3. next[1] = 6 * (q + m)
      BY <2>2 DEF Quarter
  <2>4. next[1] < to <=> m < k
      BY <2>1, <2>3, <1>5
  <2>5. Turn(g, n) = IF next[1] < to THEN Append(done, next) ELSE done
      BY <2>1, <1>7
  <2> HIDE DEF next, done
  <2>6. CASE m < k
    <3>1. m + 1 = IF n <= k THEN n ELSE k
        BY <2>6, <1>7, <1>d
    <3> QED
        BY <3>1, <2>2, <2>4, <2>5, <2>6
  <2>7. CASE ~(m < k)
    <3>1. m = IF n <= k THEN n ELSE k
        BY <2>7, <1>7, <1>d
    <3> QED
        BY <3>1, <2>4, <2>5, <2>7 DEF done
  <2> QED
      BY <2>6, <2>7
<1>8. \A g : Turn(g, 0) = G[0]
  <2>1. FirstQuarters(q, 0) = <<>>
      BY DEF FirstQuarters
  <2> QED
      BY <2>1, <1>d
<1> HIDE DEF Turn
<1>9. G = [n \in 0..d |-> Turn(G, n)]
  <2>1. \A n \in 0..d : G[n] = Turn(G, n)
    <3>1. \A n \in 0..d : n # 0 => G[n] = Turn(G, n)
        BY <1>7
    <3> QED
        BY <3>1, <1>8
  <2> HIDE DEF Turn
  <2>2. G = [n \in 0..d |-> G[n]]
      OBVIOUS
  <2> HIDE DEF G
  <2> QED
      BY <2>1, <2>2
<1> HIDE DEF G
<1>10. F = [n \in 0..d |-> Turn(F, n)]
    BY <1>9
<1> HIDE DEF F
<1>11. \A n \in 0..d : F[n] = G[n]
  <2> DEFINE Wrong == {n \in 0..d : F[n] # G[n]}
  <2>1. SUFFICES ASSUME Wrong # {} PROVE FALSE
      OBVIOUS
  <2>2. PICK n \in Wrong : \A m \in Wrong : n <= m
    <3>1. Wrong \in SUBSET Nat
        BY <1>d
    <3> QED
        BY <2>1, <3>1, LeastNumber
  <2>3. n # 0
      BY <1>8, <1>10, <1>d
  <2>4. n - 1 \in 0..d /\ ~(n <= n - 1)
      BY <2>3, <1>d
  <2>5. F[n - 1] = G[n - 1]
      BY <2>2, <2>4
  <2>6. Turn(F, n) = G[n]
      BY <1>7, <2>3, <2>5
  <2> QED
      BY <2>6, <1>10
<1>12. F[d] = FirstQuarters(q, k)
  <2>1. G[d] = FirstQuarters(q, k)
      BY <1>4, <1>d DEF G
  <2> QED
      BY <2>1, <1>11, <1>d
<1> QED
    BY <1>1, <1>2, <1>3, <1>6, <1>12 DEF q

(* The quarters of a view: those that meet its range, in order. *)
LEMMA BucketsOfView ==
    ASSUME NEW v \in Views
    PROVE  /\ Buckets[v] \in Seq(Quarters)
           /\ Buckets[v] # <<>>
           /\ ToSet(Buckets[v]) =
                  {Quarter(q) : q \in {r \in Nat : v.from \div 6 <= r /\ 6 * r < v.to}}
<1>1. v.from \in Nat /\ v.to \in Nat /\ v.from < v.to
    BY ViewsAssumption
<1>2. PICK k \in Nat \ {0} :
          /\ BucketsForRange(v.from, v.to) = FirstQuarters(v.from \div 6, k)
          /\ v.to <= 6 * (v.from \div 6 + k)
          /\ 6 * (v.from \div 6 + k - 1) < v.to
    BY <1>1, BucketsOfRange
<1>3. PICK p \in Nat : p = v.from \div 6
    BY <1>1, Division
<1>4. Buckets[v] = [i \in 1..k |-> Quarter(p + i - 1)]
    BY <1>2, <1>3 DEF Buckets, FirstQuarters
<1>5. ToSet(Buckets[v]) = {Quarter(p + i - 1) : i \in 1..k}
    BY <1>4 DEF ToSet
<1>6. ASSUME NEW q \in Nat
      PROVE  (\E i \in 1..k : q = p + i - 1) <=> (p <= q /\ 6 * q < v.to)
  <2>1. (p <= q /\ 6 * q < v.to) => q <= p + k - 1
      BY <1>1, <1>2, <1>3
  <2>2. (p <= q /\ q <= p + k - 1) => q - p + 1 \in 1..k /\ q = p + (q - p + 1) - 1
      OBVIOUS
  <2>3. \A i \in 1..k : q = p + i - 1 => p <= q /\ 6 * q < v.to
      BY <1>1, <1>2, <1>3
  <2> QED
      BY <2>1, <2>2, <2>3
<1>7. \A i \in 1..k : p + i - 1 \in Nat
    OBVIOUS
<1>8. ToSet(Buckets[v]) = {Quarter(q) : q \in {r \in Nat : p <= r /\ 6 * r < v.to}}
  <2>1. ASSUME NEW b \in ToSet(Buckets[v])
        PROVE  b \in {Quarter(q) : q \in {r \in Nat : p <= r /\ 6 * r < v.to}}
    <3>1. PICK i \in 1..k : b = Quarter(p + i - 1)
        BY <1>5
    <3>2. PICK q \in Nat : q = p + i - 1
        BY <1>7
    <3> QED
        BY <3>1, <3>2, <1>6
  <2>2. ASSUME NEW q \in Nat, p <= q, 6 * q < v.to
        PROVE  Quarter(q) \in ToSet(Buckets[v])
    <3>1. PICK i \in 1..k : q = p + i - 1
        BY <2>2, <1>6
    <3> QED
        BY <3>1, <1>5
  <2> QED
      BY <2>1, <2>2
<1>9. Buckets[v] \in Seq(Quarters) /\ Buckets[v] # <<>>
    BY <1>4, <1>7 DEF Quarters
<1> QED
    BY <1>3, <1>8, <1>9

(* What a quarter of a calendar that some view needs looks like. *)
LEMMA NeededIs ==
    ASSUME NEW v \in Views
    PROVE  /\ Needed(v) = v.cals \X ToSet(Buckets[v])
           /\ Needed(v) \subseteq AllNeeded
<1>1. Needed(v) = v.cals \X ToSet(Buckets[v])
    BY DEF Needed, NeededBy
<1>2. v.cals \subseteq Cals
    BY ViewsAssumption
<1>3. Cals \X ToSet(Buckets[v]) \subseteq AllNeeded
    BY DEF AllNeeded
<1> QED
    BY <1>1, <1>2, <1>3

LEMMA AllNeededIs ==
    AllNeeded \subseteq Cals \X Quarters
<1>1. ASSUME NEW v \in Views
      PROVE  ToSet(Buckets[v]) \subseteq Quarters
  <2>1. ToSet(Buckets[v]) = {Quarter(q) : q \in {r \in Nat : v.from \div 6 <= r /\ 6 * r < v.to}}
      BY BucketsOfView
  <2> QED
      BY <2>1 DEF Quarters
<1> QED
    BY <1>1 DEF AllNeeded

(***************************************************************************)
(* isRangeCovered.                                                         *)
(***************************************************************************)

LEMMA QuartersDiffer ==
    ASSUME NEW a \in Quarters, NEW b \in Quarters
    PROVE  /\ a[1] \in Nat /\ a[2] = a[1] + 6
           /\ a[1] = b[1] => a = b
           /\ \A t \in Nat : t \in a[1]..(a[2] - 1) /\ t \in b[1]..(b[2] - 1) => a = b
<1>1. PICK q \in Nat : a = Quarter(q)
    BY DEF Quarters
<1>2. PICK r \in Nat : b = Quarter(r)
    BY DEF Quarters
<1>3. a[1] = 6 * q /\ a[2] = 6 * q + 6 /\ b[1] = 6 * r /\ b[2] = 6 * r + 6
    BY <1>1, <1>2 DEF Quarter
<1>4. 6 * q = 6 * r => q = r
    OBVIOUS
<1>5. \A t \in Nat : t \in 6 * q..(6 * q + 5) /\ t \in 6 * r..(6 * r + 5) => q = r
    BY QuarterIsItsNumber
<1> QED
    BY <1>1, <1>2, <1>3, <1>4, <1>5

LEMMA QuartersBelowFinite ==
    ASSUME NEW S \in SUBSET Quarters, NEW to \in Nat, \A s \in S : s[1] < to
    PROVE  IsFiniteSet(S)
<1> DEFINE start == [s \in S |-> s[1]]
<1>1. start \in Injection(S, 0..to)
  <2>1. \A s \in S : s[1] \in 0..to
      BY QuartersDiffer
  <2>2. \A s, t \in S : s[1] = t[1] => s = t
      BY QuartersDiffer
  <2> QED
      BY <2>1, <2>2 DEF Injection, IsInjective
<1>2. IsFiniteSet(0..to)
    BY FS_Interval
<1> QED
    BY <1>1, <1>2, FS_Injection

InOrder(s, n) == \A i, j \in 1..n : i < j => s[i][1] < s[j][1]

(* The rows can be put in order. *)
LEMMA OrderExists ==
    ASSUME NEW S \in SUBSET Quarters, IsFiniteSet(S)
    PROVE  \E s \in [1..Cardinality(S) -> S] : InOrder(s, Cardinality(S))
<1> DEFINE Wrong == {n \in Nat : \E T \in SUBSET Quarters :
                         /\ IsFiniteSet(T) /\ Cardinality(T) = n
                         /\ \A s \in [1..n -> T] : ~InOrder(s, n)}
<1>1. SUFFICES ASSUME Wrong # {} PROVE FALSE
    BY FS_CardinalityType
<1>2. PICK n \in Wrong : \A m \in Wrong : n <= m
  <2>1. Wrong \in SUBSET Nat
      OBVIOUS
  <2> QED
      BY <1>1, <2>1, LeastNumber
<1>3. PICK T \in SUBSET Quarters : /\ IsFiniteSet(T) /\ Cardinality(T) = n
                                   /\ \A s \in [1..n -> T] : ~InOrder(s, n)
    BY <1>2
<1>n. n \in Nat
    OBVIOUS
<1>4. n # 0
  <2>1. SUFFICES ASSUME n = 0 PROVE FALSE
      OBVIOUS
  <2>2. [i \in 1..n |-> i] \in [1..n -> T]
      BY <2>1
  <2>3. InOrder([i \in 1..n |-> i], n)
      BY <2>1 DEF InOrder
  <2> QED
      BY <2>2, <2>3, <1>3
<1>5. PICK a \in T : \A b \in T : a[1] <= b[1]
  <2> DEFINE starts == {b[1] : b \in T}
  <2>1. starts \in SUBSET Nat
      BY QuartersDiffer
  <2>2. starts # {}
      BY <1>3, <1>4, FS_EmptySet
  <2>3. PICK x \in starts : \A y \in starts : x <= y
      BY <2>1, <2>2, LeastNumber
  <2> QED
      BY <2>3
<1> DEFINE R == T \ {a}
           m == n - 1
<1>6. IsFiniteSet(R) /\ Cardinality(R) = m /\ R \in SUBSET Quarters
    BY <1>3, FS_RemoveElement
<1>7. m \in Nat /\ ~(n <= m)
    BY <1>4, <1>n
<1>8. PICK s \in [1..m -> R] : InOrder(s, m)
  <2>1. m \notin Wrong
      BY <1>2, <1>7
  <2> QED
      BY <2>1, <1>6, <1>7
<1>9. \A b \in R : a[1] < b[1]
  <2>1. \A b \in R : b # a /\ b \in Quarters /\ a \in Quarters /\ a[1] <= b[1]
      BY <1>5
  <2> QED
      BY <2>1, QuartersDiffer
<1> DEFINE t == [i \in 1..n |-> IF i = 1 THEN a ELSE s[i - 1]]
<1>10. \A i \in 1..n : i # 1 => i - 1 \in 1..m /\ s[i - 1] \in R
    BY <1>8, <1>n
<1>11. t \in [1..n -> T]
    BY <1>10
<1>12. InOrder(t, n)
  <2>1. SUFFICES ASSUME NEW i \in 1..n, NEW j \in 1..n, i < j
                 PROVE  t[i][1] < t[j][1]
      BY DEF InOrder
  <2>2. j # 1 /\ t[j] = s[j - 1] /\ j - 1 \in 1..m /\ s[j - 1] \in R
      BY <2>1, <1>10
  <2>3. CASE i = 1
    <3>1. t[i] = a
        BY <2>3
    <3> QED
        BY <3>1, <2>2, <1>9
  <2>4. CASE i # 1
    <3>1. t[i] = s[i - 1] /\ i - 1 \in 1..m /\ i - 1 < j - 1
        BY <2>1, <2>4, <1>10
    <3> QED
        BY <3>1, <2>2, <1>8 DEF InOrder
  <2> QED
      BY <2>3, <2>4
<1> QED
    BY <1>3, <1>11, <1>12

(* The rows of a calendar that meet a range, as the statement returns them. *)
LEMMA RowsAre ==
    ASSUME stored \subseteq AllNeeded,
           NEW c \in Cals, NEW from \in Nat, NEW to \in Nat
    PROVE  \E n \in Nat :
               /\ RowsInRange(c, from, to) \in Seq(Quarters)
               /\ Len(RowsInRange(c, from, to)) = n
               /\ InOrder(RowsInRange(c, from, to), n)
               /\ \A i \in 1..n : <<c, RowsInRange(c, from, to)[i]>> \in stored
               /\ \A p \in stored : p[1] = c /\ p[2][2] > from /\ p[2][1] < to =>
                      \E i \in 1..n : RowsInRange(c, from, to)[i] = p[2]
<1> DEFINE S == {p[2] : p \in {q \in stored : q[1] = c /\ q[2][2] > from /\ q[2][1] < to}}
           n == Cardinality(S)
           rows == RowsInRange(c, from, to)
<1>1. stored \subseteq Cals \X Quarters
    BY AllNeededIs
<1>2. S \in SUBSET Quarters /\ \A s \in S : <<c, s>> \in stored
    BY <1>1
<1>3. \A s \in S : s[1] < to
    OBVIOUS
<1>4. IsFiniteSet(S)
  <2> HIDE DEF S
  <2> QED
      BY <1>2, <1>3, QuartersBelowFinite
<1>5. n \in Nat
    BY <1>4, FS_CardinalityType
<1>6. rows \in [1..n -> S] /\ InOrder(rows, n)
  <2>1. rows = CHOOSE s \in [1..n -> S] : InOrder(s, n)
      BY DEF RowsInRange, InOrder
  <2>2. \E s \in [1..n -> S] : InOrder(s, n)
    <3> HIDE DEF S
    <3> QED
        BY <1>2, <1>4, OrderExists
  <2> HIDE DEF rows, n, S
  <2> QED
      BY <2>1, <2>2
<1> HIDE DEF rows
<1>7. rows \in Injection(1..n, S)
  <2> HIDE DEF S, n
  <2>1. ASSUME NEW i \in 1..n, NEW j \in 1..n, rows[i] = rows[j]
        PROVE  i = j
    <3>1. rows[i][1] \in Nat
        BY <1>2, <1>6, QuartersDiffer
    <3>2. ~(i < j) /\ ~(j < i)
        BY <3>1, <2>1, <1>6 DEF InOrder
    <3> QED
        BY <3>2, <1>5
  <2> QED
      BY <1>6, <2>1 DEF Injection, IsInjective
<1>8. rows \in Surjection(1..n, S)
  <2>1. Cardinality(1..n) = n
      BY <1>5, FS_Interval
  <2> HIDE DEF S
  <2> QED
      BY <1>4, <1>7, <2>1, FS_Injection
<1>9. \A b \in S : \E i \in 1..n : rows[i] = b
  <2> HIDE DEF S, n
  <2> QED
      BY <1>8 DEF Surjection
<1>10. rows \in Seq(Quarters) /\ Len(rows) = n
  <2> HIDE DEF S, n
  <2> QED
      BY <1>2, <1>5, <1>6
<1>11. \A i \in 1..n : <<c, rows[i]>> \in stored
  <2> HIDE DEF S, n
  <2> QED
      BY <1>2, <1>6
<1>12. \A p \in stored : p[1] = c /\ p[2][2] > from /\ p[2][1] < to =>
                      \E i \in 1..n : rows[i] = p[2]
  <2>1. \A p \in stored : p[1] = c /\ p[2][2] > from /\ p[2][1] < to => p[2] \in S
      OBVIOUS
  <2> HIDE DEF S, n
  <2> QED
      BY <1>9, <2>1
<1> HIDE DEF S, n
<1> QED
    BY <1>5, <1>6, <1>10, <1>11, <1>12 DEF rows

(* A loop of n turns over a number has a result. *)
LEMMA LoopExists ==
    ASSUME NEW n \in Nat, NEW a \in Nat, NEW step \in [(1..n) \X Nat -> Nat]
    PROVE  \E g \in [0..n -> Nat] :
               g[0] = a /\ \A i \in 1..n : g[i] = step[<<i, g[i - 1]>>]
<1> DEFINE Loops(g, m) == g[0] = a /\ \A i \in 1..m : g[i] = step[<<i, g[i - 1]>>]
           Wrong == {m \in 0..n : \A g \in [0..m -> Nat] : ~Loops(g, m)}
<1>1. SUFFICES ASSUME Wrong # {} PROVE FALSE
  <2>1. n \in 0..n
      OBVIOUS
  <2>2. Wrong = {} => \E g \in [0..n -> Nat] : Loops(g, n)
      BY <2>1
  <2> QED
      BY <2>2
<1>2. PICK m \in Wrong : \A k \in Wrong : m <= k
  <2>1. Wrong \in SUBSET Nat
      OBVIOUS
  <2> QED
      BY <1>1, <2>1, LeastNumber
<1>3. m # 0
  <2>1. [i \in 0..0 |-> a] \in [0..0 -> Nat] /\ Loops([i \in 0..0 |-> a], 0)
      OBVIOUS
  <2> QED
      BY <2>1
<1>4. m \in 1..n /\ m - 1 \in 0..n /\ ~(m <= m - 1)
    BY <1>3
<1>5. PICK g \in [0..(m - 1) -> Nat] : Loops(g, m - 1)
    BY <1>2, <1>4
<1> DEFINE h == [i \in 0..m |-> IF i = m THEN step[<<m, g[m - 1]>>] ELSE g[i]]
<1>6. g[m - 1] \in Nat /\ step[<<m, g[m - 1]>>] \in Nat
  <2>1. g[m - 1] \in Nat
      BY <1>4, <1>5
  <2>2. <<m, g[m - 1]>> \in (1..n) \X Nat
      BY <1>4, <2>1
  <2> QED
      BY <2>1, <2>2
<1>7. h \in [0..m -> Nat]
    BY <1>4, <1>5, <1>6
<1>8. Loops(h, m)
  <2>1. h[0] = a
      BY <1>4, <1>5
  <2>2. ASSUME NEW i \in 1..m
        PROVE  h[i] = step[<<i, h[i - 1]>>]
    <3>1. h[i - 1] = g[i - 1]
        BY <1>4, <1>5
    <3>2. CASE i = m
      <4>1. h[m] = step[<<m, g[m - 1]>>]
          BY <1>4
      <4> HIDE DEF h
      <4> QED
          BY <3>1, <3>2, <4>1
    <3>3. CASE i # m
      <4>1. h[i] = g[i] /\ i \in 1..(m - 1)
          BY <1>4, <3>3
      <4> HIDE DEF h
      <4> QED
          BY <3>1, <4>1, <1>5
    <3> QED
        BY <3>2, <3>3
  <2> QED
      BY <2>1, <2>2
<1> QED
    BY <1>2, <1>7, <1>8

(* The loop over the rows: what it knows after each of its turns. *)
Reach(rows, from) ==
    CHOOSE g : g = [i \in 0..Len(rows) |->
        IF i = 0 THEN from
        ELSE IF rows[i][1] > g[i - 1] \/ rows[i][2] < g[i - 1] THEN g[i - 1]
        ELSE rows[i][2]]

LEMMA ReachIsFollowed ==
    ASSUME NEW rows \in Seq(Quarters), NEW from \in Nat,
           NEW until, until = Reach(rows, from)
    PROVE  /\ until[0] = from
           /\ \A i \in 1..Len(rows) : until[i] =
                  IF rows[i][1] > until[i - 1] \/ rows[i][2] < until[i - 1]
                  THEN until[i - 1] ELSE rows[i][2]
<1> DEFINE n == Len(rows)
           Turn(g, i) == IF i = 0 THEN from
                         ELSE IF rows[i][1] > g[i - 1] \/ rows[i][2] < g[i - 1] THEN g[i - 1]
                         ELSE rows[i][2]
<1>n. n \in Nat
    OBVIOUS
<1>r. \A i \in 1..n : rows[i][1] \in Nat /\ rows[i][2] \in Nat
  <2>1. \A i \in 1..n : rows[i] \in Quarters
      OBVIOUS
  <2> QED
      BY <2>1, QuartersDiffer
<1>1. until = CHOOSE g : g = [i \in 0..n |-> Turn(g, i)]
    BY DEF Reach
<1> HIDE DEF n
<1>2. \E g : g = [i \in 0..n |-> Turn(g, i)]
  <2> DEFINE step == [x \in (1..n) \X Nat |->
                 IF rows[x[1]][1] > x[2] \/ rows[x[1]][2] < x[2] THEN x[2] ELSE rows[x[1]][2]]
  <2>1. step \in [(1..n) \X Nat -> Nat]
      BY <1>r
  <2>2. PICK g \in [0..n -> Nat] : g[0] = from /\ \A i \in 1..n : g[i] = step[<<i, g[i - 1]>>]
    <3> HIDE DEF step
    <3> QED
        BY <1>n, <2>1, LoopExists
  <2>3. ASSUME NEW i \in 0..n
        PROVE  g[i] = Turn(g, i)
    <3>1. CASE i = 0
        BY <3>1, <2>2
    <3>2. CASE i # 0
      <4>1. i \in 1..n /\ g[i - 1] \in Nat
          BY <3>2, <1>n
      <4>2. <<i, g[i - 1]>> \in (1..n) \X Nat
          BY <4>1
      <4>3. step[<<i, g[i - 1]>>] =
                IF rows[i][1] > g[i - 1] \/ rows[i][2] < g[i - 1] THEN g[i - 1] ELSE rows[i][2]
          BY <4>2
      <4> QED
          BY <4>1, <4>3, <2>2, <3>2
    <3> QED
        BY <3>1, <3>2
  <2> HIDE DEF Turn
  <2>4. g = [i \in 0..n |-> Turn(g, i)]
      BY <2>3
  <2> QED
      BY <2>4
<1> HIDE DEF Turn
<1>3. until = [i \in 0..n |-> Turn(until, i)]
    BY <1>1, <1>2
<1>4. \A i \in 0..n : until[i] = Turn(until, i)
    BY <1>3
<1>5. until[0] = from
  <2>1. until[0] = Turn(until, 0)
      BY <1>4, <1>n
  <2> QED
      BY <2>1 DEF Turn
<1>6. ASSUME NEW i \in 1..n
      PROVE  until[i] = IF rows[i][1] > until[i - 1] \/ rows[i][2] < until[i - 1]
                        THEN until[i - 1] ELSE rows[i][2]
  <2>1. i \in 0..n /\ i # 0
      BY <1>n
  <2>2. until[i] = Turn(until, i)
      BY <1>4, <2>1
  <2> QED
      BY <2>1, <2>2 DEF Turn
<1> QED
    BY <1>5, <1>6 DEF n

(* How far the rows reach from the start of a range without a gap. *)
LEMMA ReachOfRows ==
    ASSUME NEW rows \in Seq(Quarters), NEW from \in Nat,
           InOrder(rows, Len(rows)),
           NEW until, until[0] = from,
           \A i \in 1..Len(rows) : until[i] =
               IF rows[i][1] > until[i - 1] \/ rows[i][2] < until[i - 1]
               THEN until[i - 1] ELSE rows[i][2]
    PROVE  /\ until[Len(rows)] \in Nat
           /\ from <= until[Len(rows)]
           /\ \A t \in from..(until[Len(rows)] - 1) :
                  \E i \in 1..Len(rows) : t \in rows[i][1]..(rows[i][2] - 1)
           /\ \A i \in 1..Len(rows) :
                  ~(until[Len(rows)] \in rows[i][1]..(rows[i][2] - 1))
<1> DEFINE n == Len(rows)
<1>n. n \in Nat
    OBVIOUS
<1>r. \A i \in 1..n : rows[i][1] \in Nat /\ rows[i][2] \in Nat /\ rows[i][1] < rows[i][2]
  <2>1. \A i \in 1..n : rows[i] \in Quarters
      OBVIOUS
  <2> QED
      BY <2>1, QuartersDiffer
<1>o. \A i, j \in 1..n : i < j => rows[i][1] < rows[j][1]
    BY DEF InOrder
<1>4. until[0] = from
    OBVIOUS
<1>5. \A i \in 1..n : until[i] =
          IF rows[i][1] > until[i - 1] \/ rows[i][2] < until[i - 1] THEN until[i - 1] ELSE rows[i][2]
    OBVIOUS
<1> HIDE DEF n
<1> DEFINE Good(j) ==
        /\ until[j] \in Nat /\ from <= until[j]
        /\ \A i \in 0..j : until[i] \in Nat /\ until[i] <= until[j]
        /\ \A t \in from..(until[j] - 1) :
               \E i \in 1..n : t \in rows[i][1]..(rows[i][2] - 1)
        /\ \A i \in 1..j : rows[i][1] > until[i - 1] => until[j] = until[i - 1]
<1>6. Good(0)
    BY <1>4
<1>7. ASSUME NEW j \in 1..n, Good(j - 1)
      PROVE  Good(j)
  <2>1. until[j - 1] \in Nat /\ from <= until[j - 1]
      BY <1>7
  <2>2. rows[j][1] \in Nat /\ rows[j][2] \in Nat /\ rows[j][1] < rows[j][2]
      BY <1>r
  <2>3. until[j] = IF rows[j][1] > until[j - 1] \/ rows[j][2] < until[j - 1]
                   THEN until[j - 1] ELSE rows[j][2]
      BY <1>5
  <2>4. until[j] \in Nat /\ from <= until[j] /\ until[j - 1] <= until[j]
      BY <2>1, <2>2, <2>3
  <2>5. \A i \in 0..j : until[i] \in Nat /\ until[i] <= until[j]
    <3>1. ASSUME NEW i \in 0..j
          PROVE  until[i] \in Nat /\ until[i] <= until[j]
      <4>1. CASE i = j
          BY <4>1, <2>4
      <4>2. CASE i # j
        <5>1. i \in 0..(j - 1)
            BY <4>2, <1>n
        <5>2. until[i] \in Nat /\ until[i] <= until[j - 1]
            BY <5>1, <1>7
        <5> QED
            BY <5>2, <2>1, <2>4
      <4> QED
          BY <4>1, <4>2
    <3> QED
        BY <3>1
  <2>6. ASSUME NEW t \in from..(until[j] - 1)
        PROVE  \E i \in 1..n : t \in rows[i][1]..(rows[i][2] - 1)
    <3>1. CASE t \in from..(until[j - 1] - 1)
        BY <3>1, <1>7
    <3>2. CASE ~(t \in from..(until[j - 1] - 1))
      <4>1. t \in rows[j][1]..(rows[j][2] - 1)
          BY <3>2, <2>1, <2>2, <2>3, <2>4
      <4> QED
          BY <4>1
    <3> QED
        BY <3>1, <3>2
  <2>7. ASSUME NEW i \in 1..j, rows[i][1] > until[i - 1]
        PROVE  until[j] = until[i - 1]
    <3>1. CASE i = j
        BY <3>1, <2>3, <2>7
    <3>2. CASE i # j
      <4>1. i \in 1..(j - 1) /\ i \in 1..n /\ i < j /\ i - 1 \in 0..(j - 1)
          BY <3>2, <1>n
      <4>2. until[j - 1] = until[i - 1]
          BY <4>1, <1>7, <2>7
      <4>3. rows[i][1] < rows[j][1] /\ rows[i][1] \in Nat /\ until[i - 1] \in Nat
          BY <4>1, <1>o, <1>r, <1>7
      <4>4. rows[j][1] > until[j - 1]
          BY <4>2, <4>3, <2>2, <2>7
      <4> QED
          BY <4>2, <4>4, <2>3
    <3> QED
        BY <3>1, <3>2
  <2> QED
      BY <2>4, <2>5, <2>6, <2>7
<1> HIDE DEF Good
<1>8. Good(n)
  <2> DEFINE Wrong == {j \in 0..n : ~Good(j)}
  <2>1. SUFFICES ASSUME Wrong # {} PROVE FALSE
      BY <1>n
  <2>2. PICK j \in Wrong : \A i \in Wrong : j <= i
    <3>1. Wrong \in SUBSET Nat
        BY <1>n
    <3> QED
        BY <2>1, <3>1, LeastNumber
  <2>3. j \in 1..n /\ j - 1 \in 0..n /\ ~(j <= j - 1)
      BY <1>6, <1>n
  <2>4. Good(j - 1)
      BY <2>2, <2>3
  <2> QED
      BY <1>7, <2>3, <2>4
<1>9. /\ until[n] \in Nat /\ from <= until[n]
      /\ \A i \in 0..n : until[i] \in Nat /\ until[i] <= until[n]
      /\ \A t \in from..(until[n] - 1) :
             \E i \in 1..n : t \in rows[i][1]..(rows[i][2] - 1)
      /\ \A i \in 1..n : rows[i][1] > until[i - 1] => until[n] = until[i - 1]
    BY <1>8 DEF Good
<1>10. ASSUME NEW i \in 1..n, until[n] \in rows[i][1]..(rows[i][2] - 1)
       PROVE  FALSE
  <2>1. i - 1 \in 0..n /\ i \in 0..n
      BY <1>n
  <2>2. /\ until[i - 1] \in Nat /\ until[i - 1] <= until[n]
        /\ until[i] \in Nat /\ until[i] <= until[n]
      BY <2>1, <1>9
  <2>3. rows[i][1] \in Nat /\ rows[i][2] \in Nat
      BY <1>r
  <2>4. ~(rows[i][1] > until[i - 1])
      BY <2>2, <2>3, <1>9, <1>10
  <2>5. ~(rows[i][2] < until[i - 1])
      BY <2>2, <2>3, <1>9, <1>10
  <2>6. until[i] = rows[i][2]
      BY <2>4, <2>5, <1>5
  <2> QED
      BY <2>2, <2>3, <2>6, <1>9, <1>10
<1> QED
    BY <1>9, <1>10 DEF n

(* isRangeCovered says yes exactly when every moment of the range lies in a row. *)
LEMMA CoveredExactly ==
    ASSUME stored \subseteq AllNeeded,
           NEW c \in Cals, NEW v \in Views
    PROVE  IsRangeCovered(c, v.from, v.to) <=>
               \A t \in v.from..(v.to - 1) :
                   \E p \in stored : p[1] = c /\ t \in p[2][1]..(p[2][2] - 1)
<1>1. PICK from \in Nat, to \in Nat : from = v.from /\ to = v.to /\ from < to
    BY ViewsAssumption
<1>2. PICK n \in Nat :
          /\ RowsInRange(c, from, to) \in Seq(Quarters)
          /\ Len(RowsInRange(c, from, to)) = n
          /\ InOrder(RowsInRange(c, from, to), n)
          /\ \A i \in 1..n : <<c, RowsInRange(c, from, to)[i]>> \in stored
          /\ \A p \in stored : p[1] = c /\ p[2][2] > from /\ p[2][1] < to =>
                 \E i \in 1..n : RowsInRange(c, from, to)[i] = p[2]
    BY <1>1, RowsAre
<1>3. PICK rows \in Seq(Quarters) : rows = RowsInRange(c, from, to)
    BY <1>2
<1> DEFINE until == Reach(rows, from)
<1>4. IsRangeCovered(c, from, to) <=> until[Len(rows)] >= to
    BY <1>1, <1>3 DEF IsRangeCovered, Reach
<1> HIDE DEF until
<1>5. /\ until[n] \in Nat
      /\ from <= until[n]
      /\ \A t \in from..(until[n] - 1) :
             \E i \in 1..n : t \in rows[i][1]..(rows[i][2] - 1)
      /\ \A i \in 1..n : ~(until[n] \in rows[i][1]..(rows[i][2] - 1))
  <2>1. Len(rows) = n /\ InOrder(rows, Len(rows))
      BY <1>2, <1>3
  <2>2. /\ until[0] = from
        /\ \A i \in 1..Len(rows) : until[i] =
               IF rows[i][1] > until[i - 1] \/ rows[i][2] < until[i - 1]
               THEN until[i - 1] ELSE rows[i][2]
      BY ReachIsFollowed DEF until
  <2> QED
      BY <2>1, <2>2, ReachOfRows
<1>6. ASSUME until[n] >= to, NEW t \in from..(to - 1)
      PROVE  \E p \in stored : p[1] = c /\ t \in p[2][1]..(p[2][2] - 1)
  <2>1. PICK i \in 1..n : t \in rows[i][1]..(rows[i][2] - 1)
      BY <1>5, <1>6
  <2>2. <<c, rows[i]>> \in stored
      BY <1>2, <1>3
  <2> QED
      BY <2>1, <2>2
<1>7. ASSUME ~(until[n] >= to),
             \A t \in from..(to - 1) :
                 \E p \in stored : p[1] = c /\ t \in p[2][1]..(p[2][2] - 1)
      PROVE  FALSE
  <2>1. until[n] \in from..(to - 1)
      BY <1>5, <1>7
  <2>2. PICK p \in stored : p[1] = c /\ until[n] \in p[2][1]..(p[2][2] - 1)
      BY <2>1, <1>7
  <2>3. p[2] \in Quarters
      BY AllNeededIs
  <2>4. p[2][1] \in Nat /\ p[2][2] \in Nat
      BY <2>3, QuartersDiffer
  <2>5. p[2][2] > from /\ p[2][1] < to
      BY <2>1, <2>2, <2>4, <1>5
  <2>6. PICK i \in 1..n : rows[i] = p[2]
      BY <2>2, <2>5, <1>2, <1>3
  <2> QED
      BY <2>2, <2>6, <1>5
<1>8. Len(rows) = n
    BY <1>2, <1>3
<1> QED
    BY <1>1, <1>4, <1>6, <1>7, <1>8

(* A calendar whose rows cover the range of a view has all its quarters. *)
LEMMA CoveredHasAll ==
    ASSUME stored \subseteq AllNeeded,
           NEW c \in Cals, NEW v \in Views
    PROVE  IsRangeCovered(c, v.from, v.to) <=> {c} \X ToSet(Buckets[v]) \subseteq stored
<1>1. PICK from \in Nat, to \in Nat : from = v.from /\ to = v.to /\ from < to
    BY ViewsAssumption
<1>2. PICK s \in Nat : s = from \div 6 /\ 6 * s <= from /\ from < 6 * s + 6
    BY <1>1, Division
<1>3. ToSet(Buckets[v]) = {Quarter(q) : q \in {r \in Nat : s <= r /\ 6 * r < to}}
    BY <1>1, <1>2, BucketsOfView
<1>4. IsRangeCovered(c, v.from, v.to) <=>
          \A t \in from..(to - 1) : \E p \in stored : p[1] = c /\ t \in p[2][1]..(p[2][2] - 1)
    BY <1>1, CoveredExactly
<1>5. stored \subseteq Cals \X Quarters
    BY AllNeededIs
<1>6. ASSUME {c} \X ToSet(Buckets[v]) \subseteq stored, NEW t \in from..(to - 1)
      PROVE  \E p \in stored : p[1] = c /\ t \in p[2][1]..(p[2][2] - 1)
  <2>1. t \in Nat
      BY <1>1
  <2>2. PICK q \in Nat : q = t \div 6 /\ 6 * q <= t /\ t < 6 * q + 6
      BY <2>1, Division
  <2>3. s <= q /\ 6 * q < to
      BY <1>1, <1>2, <2>2
  <2>4. Quarter(q) \in ToSet(Buckets[v])
      BY <1>3, <2>3
  <2>5. <<c, Quarter(q)>> \in stored
      BY <2>4, <1>6
  <2>6. t \in Quarter(q)[1]..(Quarter(q)[2] - 1)
      BY <2>2, <1>1 DEF Quarter
  <2> QED
      BY <2>5, <2>6
<1>7. ASSUME \A t \in from..(to - 1) :
                 \E p \in stored : p[1] = c /\ t \in p[2][1]..(p[2][2] - 1),
             NEW b \in ToSet(Buckets[v])
      PROVE  <<c, b>> \in stored
  <2>1. PICK q \in Nat : b = Quarter(q) /\ s <= q /\ 6 * q < to
      BY <1>3
  <2>2. PICK t \in from..(to - 1) : t \in 6 * q..(6 * q + 5)
    <3>1. CASE from <= 6 * q
        BY <3>1, <1>1, <2>1
    <3>2. CASE ~(from <= 6 * q)
      <4>1. from \in 6 * q..(6 * q + 5) /\ from \in from..(to - 1)
          BY <3>2, <1>1, <1>2, <2>1
      <4> QED
          BY <4>1
    <3> QED
        BY <3>1, <3>2
  <2>3. PICK p \in stored : p[1] = c /\ t \in p[2][1]..(p[2][2] - 1)
      BY <1>7
  <2>4. p[2] \in Quarters /\ b \in Quarters /\ p = <<p[1], p[2]>>
      BY <1>5, <2>1 DEF Quarters
  <2>5. t \in b[1]..(b[2] - 1) /\ t \in Nat
      BY <2>1, <2>2, <1>1 DEF Quarter
  <2>6. p[2] = b
      BY <2>3, <2>4, <2>5, QuartersDiffer
  <2> QED
      BY <2>3, <2>4, <2>6
<1> QED
    BY <1>4, <1>6, <1>7

-----------------------------------------------------------------------------
(***************************************************************************)
(* The inductive invariant.                                                *)
(***************************************************************************)

LoadType ==
    [view : Views, forced : BOOLEAN, current : BOOLEAN,
     left : SUBSET Cals, seen : SUBSET AllNeeded]

(* A load; the current one is of the view on show. *)
LoadOK(l) ==
    /\ l \in LoadType
    /\ l.left \subseteq l.view.cals
    /\ l.seen \subseteq Needed(l.view)
    /\ l.current => l.view = view

LoadsOK ==
    /\ \A l \in loads : LoadOK(l)
    /\ \A l, m \in loads : l.current /\ m.current => l = m

ShownOK ==
    /\ shown \in [view : Views, seen : SUBSET AllNeeded]
    /\ shown.seen \subseteq Needed(shown.view)

FetchType ==
    [running : BOOLEAN, forced : BOOLEAN, cals : SUBSET Cals, left : Seq(Quarters),
     success : BOOLEAN, any : BOOLEAN, all : BOOLEAN, error : BOOLEAN,
     wrote : SUBSET AllNeeded]

(* A coverage thread of view v; one that does not run has left nothing behind. *)
FetchOK(v, f) ==
    /\ f \in FetchType
    /\ f.cals \subseteq v.cals
    /\ f.wrote \subseteq Needed(v)
    /\ ToSet(f.left) \subseteq ToSet(Buckets[v])
    /\ f.left # <<>> => f.cals # {}
    /\ ~f.running => f = NoFetch

FetchesOK ==
    /\ fetches = [v \in Views |-> fetches[v]]
    /\ \A v \in Views : FetchOK(v, fetches[v])

JobOK ==
    /\ job \in [running : BOOLEAN, left : SUBSET AllNeeded, wrote : SUBSET AllNeeded]
    /\ ~job.running => job = NoJob

BoundsOK ==
    /\ moves \in 0..MaxMoves /\ reloads \in 0..MaxReloads
    /\ jobs \in 0..MaxJobs /\ faults \in 0..MaxFaults

Shape ==
    /\ view \in Views
    /\ LoadsOK
    /\ ShownOK
    /\ coveredKeys \subseteq Views
    /\ FetchesOK
    /\ JobOK
    /\ stored \subseteq AllNeeded
    /\ BoundsOK
    /\ unseen \subseteq AllNeeded /\ awaited \subseteq AllNeeded

(* What threads have stored whose results the window has not been given yet. *)
Wrote == job.wrote \cup UNION {fetches[v].wrote : v \in Views}

(* Whatever is stored of the range on show has been read by the current load, or
   is on show when there is none, or a refresh for it is due or was given up. *)
SeenInv ==
    /\ \A l \in loads : l.current =>
           \A p \in stored \cap Needed(view) :
               p[1] \in l.left \/ p \in l.seen \/ p \in unseen \/ p \in Wrote
    /\ (\A l \in loads : ~l.current) =>
           /\ shown.view = view \/ unseen = AllNeeded
           /\ \A p \in stored \cap Needed(view) :
                  p \in shown.seen \/ p \in unseen \/ p \in Wrote

(* What a coverage thread f of v still has to fetch. *)
ToFetch(v, f, p) ==
    /\ f.running /\ f.forced
    /\ p[1] \in f.cals
    /\ IF f.left # <<>> /\ p[1] = First(f.cals)
       THEN p[2] \in ToSet(f.left)
       ELSE p[2] \in ToSet(Buckets[v])

(* A quarter the Today button is waiting for is still going to be fetched. *)
AwaitedInv ==
    \A p \in awaited :
        \/ \E l \in loads : l.current /\ l.forced /\ p \in Needed(l.view)
        \/ \E v \in Views : ToFetch(v, fetches[v], p)

(* As long as every calendar has been covered, what the thread is done with is
   stored; so are the quarters fetched for the calendar it is at.            *)
FetchDone(v, f) ==
    /\ f.running /\ f.all =>
           \A c \in v.cals \ f.cals : {c} \X ToSet(Buckets[v]) \subseteq stored
    /\ f.left # <<>> /\ f.success =>
           \A b \in ToSet(Buckets[v]) : b \in ToSet(f.left) \/ <<First(f.cals), b>> \in stored
    /\ f.left = <<>> => f.success

FetchInv == \A v \in Views : FetchDone(v, fetches[v])

-----------------------------------------------------------------------------
(***************************************************************************)
(* Every step keeps the state well formed.                                 *)
(***************************************************************************)

LEMMA LoadIsOK ==
    ASSUME NEW v \in Views, NEW forced \in BOOLEAN
    PROVE  /\ Load(v, forced) \in LoadType
           /\ Load(v, forced).view = v /\ Load(v, forced).forced = forced
           /\ Load(v, forced).current
           /\ Load(v, forced).left = v.cals /\ Load(v, forced).seen = {}
<1>1. v.cals \subseteq Cals
    BY ViewsAssumption
<1> QED
    BY <1>1 DEF Load, LoadType

LEMMA SupersededIs ==
    ASSUME LoadsOK, NEW l \in Superseded(loads)
    PROVE  /\ l \in LoadType
           /\ l.left = {} /\ ~l.current /\ l.seen \subseteq Needed(l.view)
<1>1. PICK m \in loads : l = [m EXCEPT !.current = FALSE, !.left = {}]
    BY DEF Superseded
<1>2. LoadOK(m)
    BY DEF LoadsOK
<1>3. /\ m \in LoadType
      /\ m.seen \subseteq Needed(m.view)
    BY <1>2 DEF LoadOK
<1> QED
    BY <1>1, <1>3 DEF LoadType

(* A refresh leaves one current load, which has not read anything yet. *)
LEMMA RefreshShape ==
    ASSUME Shape, NEW v \in Views, NEW forced \in BOOLEAN, NEW asked \in SUBSET AllNeeded,
           RefreshEvents(v, forced, asked), view' = v
    PROVE  /\ LoadsOK'
           /\ unseen' \subseteq AllNeeded /\ awaited' \subseteq AllNeeded
           /\ Load(v, forced) \in loads'
           /\ \A l \in loads' : l.current => l = Load(v, forced)
<1>1. /\ loads' = Superseded(loads) \cup {Load(v, forced)}
      /\ unseen' = {}
      /\ awaited' \subseteq awaited \cup asked
    BY DEF RefreshEvents
<1>2. \A l \in Superseded(loads) :
          /\ l \in LoadType
          /\ l.left = {} /\ ~l.current /\ l.seen \subseteq Needed(l.view)
    BY SupersededIs DEF Shape
<1>3. \A l \in loads' : l.current => l = Load(v, forced)
    BY <1>1, <1>2
<1>4. \A l \in Superseded(loads) : LoadOK(l)'
    BY <1>2 DEF LoadOK
<1>5. LoadOK(Load(v, forced))'
    BY LoadIsOK DEF LoadOK
<1>6. LoadsOK'
    BY <1>1, <1>3, <1>4, <1>5 DEF LoadsOK
<1> QED
    BY <1>1, <1>3, <1>6 DEF Shape

LEMMA NoFetchOK ==
    ASSUME NEW v \in Views
    PROVE  FetchOK(v, NoFetch)
<1>1. ToSet(<<>>) = {}
    BY DEF ToSet
<1>2. <<>> \in Seq(Quarters)
    OBVIOUS
<1> QED
    BY <1>1, <1>2 DEF FetchOK, FetchType, NoFetch

(* Replacing one thread by another. *)
LEMMA FetchReplaced ==
    ASSUME FetchesOK, NEW v \in Views, NEW f, FetchOK(v, f),
           fetches' = [fetches EXCEPT ![v] = f]
    PROVE  /\ FetchesOK'
           /\ fetches'[v] = f
           /\ \A w \in Views : w # v => fetches'[w] = fetches[w]
<1>1. fetches' = [w \in Views |-> IF w = v THEN f ELSE fetches[w]]
    BY DEF FetchesOK
<1>2. fetches'[v] = f /\ \A w \in Views : w # v => fetches'[w] = fetches[w]
    BY <1>1
<1>3. \A w \in Views : FetchOK(w, fetches'[w])
    BY <1>2 DEF FetchesOK
<1>4. fetches' = [w \in Views |-> fetches'[w]]
    BY <1>1
<1> QED
    BY <1>2, <1>3, <1>4 DEF FetchesOK

LEMMA StartedOK ==
    ASSUME NEW v \in Views, NEW forced \in BOOLEAN
    PROVE  LET f == [NoFetch EXCEPT !.running = TRUE, !.forced = forced, !.cals = v.cals]
           IN  /\ FetchOK(v, f)
               /\ f.running /\ f.forced = forced /\ f.cals = v.cals
               /\ f.left = <<>> /\ f.success /\ f.all /\ f.wrote = {}
<1> DEFINE f == [NoFetch EXCEPT !.running = TRUE, !.forced = forced, !.cals = v.cals]
           f1 == [NoFetch EXCEPT !.running = TRUE]
           f2 == [f1 EXCEPT !.forced = forced]
<1>1. /\ NoFetch \in FetchType /\ NoFetch.left = <<>> /\ NoFetch.success
      /\ NoFetch.all /\ NoFetch.wrote = {}
  <2>1. <<>> \in Seq(Quarters)
      OBVIOUS
  <2> QED
      BY <2>1 DEF NoFetch, FetchType
<1>2. /\ f1 \in FetchType /\ f1.running /\ f1.left = <<>> /\ f1.success
      /\ f1.all /\ f1.wrote = {}
    BY <1>1 DEF FetchType
<1> HIDE DEF f1
<1>3. /\ f2 \in FetchType /\ f2.running /\ f2.left = <<>> /\ f2.success
      /\ f2.all /\ f2.wrote = {} /\ f2.forced = forced
    BY <1>2 DEF FetchType
<1>4. f = [f2 EXCEPT !.cals = v.cals]
    BY DEF f1
<1> HIDE DEF f2
<1>5. v.cals \subseteq Cals /\ ToSet(<<>>) = {}
    BY ViewsAssumption DEF ToSet
<1>6. /\ f \in FetchType /\ f.running /\ f.left = <<>> /\ f.success
      /\ f.all /\ f.wrote = {} /\ f.forced = forced /\ f.cals = v.cals
  <2> HIDE DEF f
  <2> QED
      BY <1>3, <1>4, <1>5 DEF FetchType
<1> HIDE DEF f
<1>7. FetchOK(v, f)
    BY <1>5, <1>6 DEF FetchOK
<1> QED
    BY <1>6, <1>7 DEF f

(* Asking for the range of v to be covered: nothing happens, or its thread starts. *)
LEMMA EnsureShape ==
    ASSUME FetchesOK, NEW v \in Views, NEW forced \in BOOLEAN,
           EnsureVisibleRangeCoverage(v, forced)
    PROVE  /\ FetchesOK'
           /\ \A w \in Views : fetches'[w] = fetches[w] \/
                  (/\ w = v /\ ~Fetching(v)
                   /\ LET f == fetches'[v]
                      IN  /\ f.running /\ f.forced = forced /\ f.cals = v.cals
                          /\ f.left = <<>> /\ f.success /\ f.all /\ f.wrote = {})
           /\ forced => \/ Fetching(v)
                        \/ /\ fetches'[v].running /\ fetches'[v].forced
                           /\ fetches'[v].cals = v.cals /\ fetches'[v].left = <<>>
<1>1. CASE (~forced /\ v \in coveredKeys) \/ Fetching(v)
  <2>1. fetches' = fetches
      BY <1>1 DEF EnsureVisibleRangeCoverage
  <2>2. FetchesOK'
      BY <2>1 DEF FetchesOK
  <2> QED
      BY <2>1, <2>2, <1>1
<1>2. CASE ~((~forced /\ v \in coveredKeys) \/ Fetching(v))
  <2> DEFINE f == [NoFetch EXCEPT !.running = TRUE, !.forced = forced, !.cals = v.cals]
  <2>1. fetches' = [fetches EXCEPT ![v] = f]
      BY <1>2 DEF EnsureVisibleRangeCoverage
  <2>2. /\ FetchOK(v, f)
        /\ f.running /\ f.forced = forced /\ f.cals = v.cals
        /\ f.left = <<>> /\ f.success /\ f.all /\ f.wrote = {}
      BY StartedOK
  <2> HIDE DEF f
  <2>3. FetchesOK' /\ fetches'[v] = f /\ \A w \in Views : w # v => fetches'[w] = fetches[w]
      BY <2>1, <2>2, FetchReplaced
  <2> QED
      BY <2>2, <2>3, <1>2
<1> QED
    BY <1>1, <1>2

(* Storing a quarter: the threads and the window no longer show it as read. *)
LEMMA StoreShape ==
    ASSUME LoadsOK, ShownOK, stored \subseteq AllNeeded, NEW p \in AllNeeded, Store(p),
           view' = view
    PROVE  /\ LoadsOK' /\ ShownOK' /\ stored' \subseteq AllNeeded
           /\ stored' = stored \cup {p}
           /\ \A l \in loads' : \E m \in loads :
                  /\ l.view = m.view /\ l.forced = m.forced /\ l.current = m.current
                  /\ l.left = m.left /\ l.seen = m.seen \ {p}
           /\ \A m \in loads : \E l \in loads' :
                  /\ l.view = m.view /\ l.forced = m.forced /\ l.current = m.current
                  /\ l.left = m.left /\ l.seen = m.seen \ {p}
           /\ shown'.view = shown.view /\ shown'.seen = shown.seen \ {p}
<1> DEFINE Read(m) == [m EXCEPT !.seen = @ \ {p}]
<1>1. /\ stored' = stored \cup {p}
      /\ loads' = {Read(l) : l \in loads}
      /\ shown' = [shown EXCEPT !.seen = @ \ {p}]
    BY DEF Store
<1>2. ASSUME NEW m \in loads
      PROVE  /\ Read(m) \in LoadType
             /\ Read(m).view = m.view /\ Read(m).forced = m.forced
             /\ Read(m).current = m.current /\ Read(m).left = m.left
             /\ Read(m).seen = m.seen \ {p}
             /\ LoadOK(Read(m))'
  <2>1. /\ m \in LoadType
        /\ m.left \subseteq m.view.cals
        /\ m.seen \subseteq Needed(m.view)
        /\ m.current => m.view = view
      BY DEF LoadsOK, LoadOK
  <2>2. /\ Read(m) \in LoadType
        /\ Read(m).view = m.view /\ Read(m).forced = m.forced
        /\ Read(m).current = m.current /\ Read(m).left = m.left
        /\ Read(m).seen = m.seen \ {p}
      BY <2>1 DEF LoadType
  <2> HIDE DEF Read
  <2>3. LoadOK(Read(m))'
      BY <2>1, <2>2 DEF LoadOK
  <2> QED
      BY <2>2, <2>3
<1> HIDE DEF Read
<1>3. \A l, m \in loads' : l.current /\ m.current => l = m
    BY <1>1, <1>2 DEF LoadsOK
<1>4. LoadsOK'
    BY <1>1, <1>2, <1>3 DEF LoadsOK
<1>5. ShownOK' /\ shown'.view = shown.view /\ shown'.seen = shown.seen \ {p}
    BY <1>1 DEF ShownOK
<1> QED
    BY <1>1, <1>2, <1>4, <1>5

LEMMA TailIs ==
    ASSUME NEW s \in Seq(Quarters), s # <<>>
    PROVE  /\ Head(s) \in Quarters /\ Head(s) \in ToSet(s)
           /\ Tail(s) \in Seq(Quarters)
           /\ ToSet(Tail(s)) \subseteq ToSet(s)
           /\ ToSet(s) \subseteq ToSet(Tail(s)) \cup {Head(s)}
           /\ Len(s) = 1 <=> Tail(s) = <<>>
<1>1. /\ Len(s) \in Nat \ {0} /\ Head(s) = s[1] /\ DOMAIN s = 1..Len(s)
      /\ \A i \in 1..Len(s) : s[i] \in Quarters
      /\ Tail(s) \in Seq(Quarters) /\ Len(Tail(s)) = Len(s) - 1
      /\ \A i \in 1..(Len(s) - 1) : Tail(s)[i] = s[i + 1]
      /\ DOMAIN Tail(s) = 1..(Len(s) - 1)
    OBVIOUS
<1>2. Head(s) \in Quarters /\ Head(s) \in ToSet(s)
    BY <1>1 DEF ToSet
<1>3. ToSet(Tail(s)) \subseteq ToSet(s)
    BY <1>1 DEF ToSet
<1>4. ToSet(s) \subseteq ToSet(Tail(s)) \cup {Head(s)}
  <2>1. ASSUME NEW i \in 1..Len(s)
        PROVE  s[i] \in ToSet(Tail(s)) \cup {Head(s)}
    <3>1. CASE i = 1
        BY <3>1, <1>1
    <3>2. CASE i # 1
      <4>1. i - 1 \in 1..(Len(s) - 1) /\ Tail(s)[i - 1] = s[i]
          BY <3>2, <1>1
      <4> QED
          BY <4>1, <1>1 DEF ToSet
    <3> QED
        BY <3>1, <3>2
  <2> QED
      BY <2>1, <1>1 DEF ToSet
<1>5. Len(s) = 1 <=> Tail(s) = <<>>
  <2>1. \A x \in Seq(Quarters) : x = <<>> <=> Len(x) = 0
      OBVIOUS
  <2>2. Tail(s) = <<>> <=> Len(Tail(s)) = 0
      BY <1>1, <2>1
  <2> QED
      BY <1>1, <2>2
<1> QED
    BY <1>1, <1>2, <1>3, <1>4, <1>5

(* A coverage thread after a quarter. *)
LEMMA AfterBucketIs ==
    ASSUME NEW f \in FetchType, f.left # <<>>, NEW ok \in BOOLEAN, NEW w \in SUBSET AllNeeded,
           NEW g, g = AfterBucket(f, ok, w)
    PROVE  /\ g \in FetchType
           /\ (g.running <=> f.running) /\ (g.forced <=> f.forced)
           /\ g.left = Tail(f.left)
           /\ g.left = <<>> => /\ g.cals = f.cals \ {First(f.cals)}
                               /\ g.success
                               /\ g.all => f.all /\ f.success /\ ok
           /\ g.left # <<>> => /\ g.cals = f.cals
                               /\ g.success => f.success /\ ok
                               /\ g.all => f.all
           /\ g.wrote = f.wrote \cup w
<1> DEFINE last == Len(f.left) = 1
           cals == IF last THEN f.cals \ {First(f.cals)} ELSE f.cals
           g1 == [f EXCEPT !.left = Tail(f.left)]
           g2 == [g1 EXCEPT !.wrote = f.wrote \cup w]
           g3 == [g2 EXCEPT !.success = last \/ (f.success /\ ok)]
           g4 == [g3 EXCEPT !.cals = cals]
           g5 == [g4 EXCEPT !.any = f.any \/ (last /\ f.success /\ ok)]
<1>1. Tail(f.left) \in Seq(Quarters)
    BY DEF FetchType
<1>2. /\ g1 \in FetchType /\ g1.left = Tail(f.left)
      /\ g1.running = f.running /\ g1.forced = f.forced /\ g1.success = f.success
      /\ g1.cals = f.cals /\ g1.any = f.any /\ g1.all = f.all /\ g1.wrote = f.wrote
    BY <1>1 DEF FetchType
<1> HIDE DEF g1
<1>3. /\ g2 \in FetchType /\ g2.left = Tail(f.left)
      /\ g2.running = f.running /\ g2.forced = f.forced /\ g2.success = f.success
      /\ g2.cals = f.cals /\ g2.any = f.any /\ g2.all = f.all /\ g2.wrote = f.wrote \cup w
    BY <1>2 DEF FetchType
<1> HIDE DEF g2
<1>4. /\ g3 \in FetchType /\ g3.left = Tail(f.left)
      /\ g3.running = f.running /\ g3.forced = f.forced
      /\ g3.success = (last \/ (f.success /\ ok))
      /\ g3.cals = f.cals /\ g3.any = f.any /\ g3.all = f.all /\ g3.wrote = f.wrote \cup w
    BY <1>3 DEF FetchType
<1> HIDE DEF g3
<1>5. /\ g4 \in FetchType /\ g4.left = Tail(f.left)
      /\ g4.running = f.running /\ g4.forced = f.forced
      /\ g4.success = (last \/ (f.success /\ ok))
      /\ g4.cals = cals /\ g4.any = f.any /\ g4.all = f.all /\ g4.wrote = f.wrote \cup w
  <2>1. cals \in SUBSET Cals
      BY DEF FetchType
  <2> HIDE DEF cals
  <2> QED
      BY <1>4, <2>1 DEF FetchType
<1> HIDE DEF g4, cals
<1>6. /\ g5 \in FetchType /\ g5.left = Tail(f.left)
      /\ g5.running = f.running /\ g5.forced = f.forced
      /\ g5.success = (last \/ (f.success /\ ok))
      /\ g5.cals = cals /\ g5.all = f.all /\ g5.wrote = f.wrote \cup w
    BY <1>5 DEF FetchType
<1>7. g = [g5 EXCEPT !.all = f.all /\ (last => f.success /\ ok)]
    BY DEF AfterBucket, g1, g2, g3, g4, cals
<1> HIDE DEF g5, last
<1>8. /\ g \in FetchType /\ g.left = Tail(f.left)
      /\ (g.running <=> f.running) /\ (g.forced <=> f.forced)
      /\ g.success = (last \/ (f.success /\ ok))
      /\ g.cals = cals /\ g.wrote = f.wrote \cup w
      /\ g.all = (f.all /\ (last => f.success /\ ok))
    BY <1>6, <1>7 DEF FetchType
<1>9. last <=> g.left = <<>>
    BY <1>8, TailIs DEF last, FetchType
<1> QED
    BY <1>8, <1>9 DEF cals

LEMMA ShapeInit == Init => Shape
<1> SUFFICES ASSUME Init PROVE Shape
    OBVIOUS
<1>1. TodayView \in Views
    BY ViewsAssumption
<1>2. /\ Load(TodayView, FALSE) \in LoadType
      /\ Load(TodayView, FALSE).view = TodayView
      /\ Load(TodayView, FALSE).left = TodayView.cals /\ Load(TodayView, FALSE).seen = {}
    BY <1>1, LoadIsOK
<1>3. LoadsOK
    BY <1>2 DEF Init, LoadsOK, LoadOK
<1>4. ShownOK
    BY <1>1 DEF Init, ShownOK
<1>5. FetchesOK
    BY NoFetchOK DEF Init, FetchesOK
<1>6. JobOK
    BY DEF Init, JobOK, NoJob
<1>7. BoundsOK
    BY BoundsAssumption DEF Init, BoundsOK
<1> QED
    BY <1>1, <1>3, <1>4, <1>5, <1>6, <1>7 DEF Init, Shape

LEMMA ShapeShowRange ==
    ASSUME Shape, NEW v \in Views, ShowRange(v)
    PROVE  Shape'
<1>1. /\ view' = v /\ RefreshEvents(v, FALSE, {}) /\ moves < MaxMoves /\ moves' = moves + 1
      /\ UNCHANGED <<shown, coveredKeys, fetches, job, stored, reloads, jobs, faults>>
    BY DEF ShowRange
<1>2. LoadsOK' /\ unseen' \subseteq AllNeeded /\ awaited' \subseteq AllNeeded
    BY <1>1, RefreshShape
<1>3. ShownOK' /\ FetchesOK' /\ JobOK'
    BY <1>1 DEF Shape, ShownOK, FetchesOK, JobOK
<1>4. BoundsOK'
    BY <1>1, BoundsAssumption DEF Shape, BoundsOK
<1> QED
    BY <1>1, <1>2, <1>3, <1>4 DEF Shape

LEMMA ShapeOnToday ==
    ASSUME Shape, OnToday
    PROVE  Shape'
<1>1. /\ view' = TodayView /\ RefreshEvents(TodayView, TRUE, Needed(TodayView))
      /\ reloads < MaxReloads /\ reloads' = reloads + 1
      /\ UNCHANGED <<shown, coveredKeys, fetches, job, stored, moves, jobs, faults>>
    BY DEF OnToday
<1>2. TodayView \in Views /\ Needed(TodayView) \subseteq AllNeeded
    BY ViewsAssumption, NeededIs
<1>3. LoadsOK' /\ unseen' \subseteq AllNeeded /\ awaited' \subseteq AllNeeded
    BY <1>1, <1>2, RefreshShape
<1>4. ShownOK' /\ FetchesOK' /\ JobOK'
    BY <1>1 DEF Shape, ShownOK, FetchesOK, JobOK
<1>5. BoundsOK'
    BY <1>1, BoundsAssumption DEF Shape, BoundsOK
<1> QED
    BY <1>1, <1>2, <1>3, <1>4, <1>5 DEF Shape

(* A load that has read its next calendar. *)
LEMMA ReadIs ==
    ASSUME Shape, NEW l \in loads, l.left # {}
    PROVE  LET c == First(l.left)
               m == [l EXCEPT !.left = @ \ {c},
                              !.seen = @ \cup {p \in stored \cap Needed(l.view) : p[1] = c}]
           IN  /\ LoadOK(m)
               /\ m.view = l.view /\ m.forced = l.forced /\ m.current = l.current
               /\ m.left = l.left \ {c}
               /\ m.seen = l.seen \cup {p \in stored \cap Needed(l.view) : p[1] = c}
<1> DEFINE c == First(l.left)
           new == {p \in stored \cap Needed(l.view) : p[1] = c}
           m == [l EXCEPT !.left = @ \ {c}, !.seen = @ \cup new]
           m1 == [l EXCEPT !.left = l.left \ {c}]
<1>1. /\ l \in LoadType /\ l.left \subseteq l.view.cals /\ l.seen \subseteq Needed(l.view)
      /\ (l.current => l.view = view)
    BY DEF Shape, LoadsOK, LoadOK
<1>2. new \in SUBSET AllNeeded /\ new \subseteq Needed(l.view)
    BY DEF Shape
<1> HIDE DEF new, c
<1>3. /\ m1 \in LoadType /\ m1.view = l.view /\ m1.forced = l.forced
      /\ m1.current = l.current /\ m1.left = l.left \ {c} /\ m1.seen = l.seen
    BY <1>1 DEF LoadType
<1>4. m = [m1 EXCEPT !.seen = l.seen \cup new]
    BY <1>3
<1> HIDE DEF m1, m
<1>5. /\ m \in LoadType /\ m.view = l.view /\ m.forced = l.forced
      /\ m.current = l.current /\ m.left = l.left \ {c} /\ m.seen = l.seen \cup new
    BY <1>1, <1>2, <1>3, <1>4 DEF LoadType
<1>6. LoadOK(m)
    BY <1>1, <1>2, <1>5 DEF LoadOK
<1> QED
    BY <1>5, <1>6 DEF m, new, c

LEMMA ShapeLoadReads ==
    ASSUME Shape, NEW l \in loads, LoadReads(l)
    PROVE  Shape'
<1>1. /\ l.left # {}
      /\ UNCHANGED <<view, shown, coveredKeys, fetches, job, stored, boundVars, historyVars>>
    BY DEF LoadReads
<1>2. PICK m : /\ loads' = (loads \ {l}) \cup {m}
               /\ LoadOK(m) /\ m.current = l.current
  <2> DEFINE c == First(l.left)
             n == [l EXCEPT !.left = @ \ {c},
                            !.seen = @ \cup {p \in stored \cap Needed(l.view) : p[1] = c}]
  <2>1. loads' = (loads \ {l}) \cup {n}
      BY DEF LoadReads
  <2>2. LoadOK(n) /\ n.current = l.current
      BY <1>1, ReadIs
  <2> HIDE DEF n
  <2> QED
      BY <2>1, <2>2
<1>3. LoadOK(m)' /\ \A k \in loads : LoadOK(k)'
    BY <1>1, <1>2 DEF LoadOK, Shape, LoadsOK
<1>4. LoadsOK'
    BY <1>1, <1>2, <1>3 DEF LoadsOK, Shape
<1>5. ShownOK' /\ FetchesOK' /\ JobOK' /\ BoundsOK'
    BY <1>1 DEF Shape, ShownOK, FetchesOK, JobOK, BoundsOK, boundVars
<1> QED
    BY <1>1, <1>4, <1>5 DEF Shape, historyVars

(* Taking a load out changes nothing about the others. *)
LEMMA LoadTaken ==
    ASSUME Shape, NEW l \in loads, loads' = loads \ {l}, view' = view
    PROVE  LoadsOK'
BY DEF Shape, LoadsOK, LoadOK

LEMMA ShapeLoadResult ==
    ASSUME Shape, NEW l \in loads, LoadResult(l)
    PROVE  Shape'
<1>1. /\ loads' = loads \ {l} /\ UNCHANGED <<view, coveredKeys, job, stored, boundVars, unseen>>
      /\ \/ UNCHANGED <<shown, fetches, awaited>>
         \/ /\ shown' = [view |-> l.view, seen |-> l.seen]
            /\ EnsureVisibleRangeCoverage(l.view, l.forced)
            /\ awaited' = IF l.forced /\ Fetching(l.view) THEN {} ELSE awaited
    BY DEF LoadResult
<1>2. l \in LoadType /\ l.seen \subseteq Needed(l.view)
    BY DEF Shape, LoadsOK, LoadOK
<1>3. LoadsOK' /\ JobOK' /\ BoundsOK'
    BY <1>1, LoadTaken DEF Shape, JobOK, BoundsOK, boundVars
<1>4. ShownOK' /\ FetchesOK' /\ awaited' \subseteq AllNeeded
  <2>1. CASE UNCHANGED <<shown, fetches, awaited>>
      BY <2>1 DEF Shape, ShownOK, FetchesOK
  <2>2. CASE /\ shown' = [view |-> l.view, seen |-> l.seen]
             /\ EnsureVisibleRangeCoverage(l.view, l.forced)
             /\ awaited' = IF l.forced /\ Fetching(l.view) THEN {} ELSE awaited
    <3>1. l.view \in Views /\ l.forced \in BOOLEAN /\ l.seen \in SUBSET AllNeeded
        BY <1>2 DEF LoadType
    <3>2. FetchesOK'
        BY <2>2, <3>1, EnsureShape DEF Shape
    <3>3. ShownOK'
        BY <2>2, <3>1, <1>2 DEF ShownOK
    <3>4. awaited' \subseteq AllNeeded
        BY <2>2 DEF Shape
    <3> QED
        BY <3>2, <3>3, <3>4
  <2> QED
      BY <1>1, <2>1, <2>2
<1> QED
    BY <1>1, <1>3, <1>4 DEF Shape

LEMMA ShapeLoadFailed ==
    ASSUME Shape, NEW l \in loads, LoadFailed(l)
    PROVE  Shape'
<1>1. /\ loads' = loads \ {l} /\ faults < MaxFaults /\ faults' = faults + 1
      /\ unseen' = AllNeeded /\ awaited' = {}
      /\ UNCHANGED <<view, shown, coveredKeys, fetches, job, stored, moves, reloads, jobs>>
    BY DEF LoadFailed
<1>2. LoadsOK' /\ ShownOK' /\ FetchesOK' /\ JobOK'
    BY <1>1, LoadTaken DEF Shape, ShownOK, FetchesOK, JobOK
<1>3. BoundsOK'
    BY <1>1, BoundsAssumption DEF Shape, BoundsOK
<1> QED
    BY <1>1, <1>2, <1>3 DEF Shape

LEMMA ShapeNextCalendar ==
    ASSUME Shape, NEW v \in Views, NextCalendar(v)
    PROVE  Shape'
<1> DEFINE f == fetches[v]
           c == First(f.cals)
<1>1. /\ f.running /\ f.left = <<>> /\ f.cals # {}
      /\ \/ Skipped(c, v) /\ fetches' = [fetches EXCEPT ![v].cals = @ \ {c}]
         \/ ~Skipped(c, v) /\ fetches' = [fetches EXCEPT ![v].left = Buckets[v]]
      /\ UNCHANGED <<windowVars, coveredKeys, job, stored, boundVars, historyVars>>
    BY DEF NextCalendar, Fetching
<1>2. FetchesOK /\ FetchOK(v, f)
    BY DEF Shape, FetchesOK
<1>3. FetchesOK'
  <2>1. ASSUME fetches' = [fetches EXCEPT ![v].cals = @ \ {c}]
        PROVE  FetchesOK'
    <3>1. PICK g : g = [f EXCEPT !.cals = @ \ {c}]
        OBVIOUS
    <3>2. fetches' = [fetches EXCEPT ![v] = g]
        BY <2>1, <3>1
    <3>3. FetchOK(v, g)
        BY <1>1, <1>2, <3>1 DEF FetchOK, FetchType
    <3> QED
        BY <1>2, <3>2, <3>3, FetchReplaced
  <2>2. ASSUME fetches' = [fetches EXCEPT ![v].left = Buckets[v]]
        PROVE  FetchesOK'
    <3>1. PICK g : g = [f EXCEPT !.left = Buckets[v]]
        OBVIOUS
    <3>2. fetches' = [fetches EXCEPT ![v] = g]
        BY <2>2, <3>1
    <3>3. Buckets[v] \in Seq(Quarters)
        BY BucketsOfView
    <3>4. FetchOK(v, g)
        BY <1>1, <1>2, <3>1, <3>3 DEF FetchOK, FetchType
    <3> QED
        BY <1>2, <3>2, <3>4, FetchReplaced
  <2> QED
      BY <1>1, <2>1, <2>2
<1>4. LoadsOK' /\ ShownOK' /\ JobOK' /\ BoundsOK'
    BY <1>1 DEF Shape, LoadsOK, LoadOK, ShownOK, JobOK, BoundsOK, boundVars, windowVars
<1> QED
    BY <1>1, <1>3, <1>4 DEF Shape, windowVars, historyVars

LEMMA AfterBucketOK ==
    ASSUME NEW v \in Views, NEW f \in FetchType, FetchOK(v, f), f.running, f.left # <<>>,
           NEW ok \in BOOLEAN, NEW w \in SUBSET AllNeeded, w \subseteq Needed(v),
           NEW g, g = AfterBucket(f, ok, w)
    PROVE  FetchOK(v, g)
<1>1. /\ g \in FetchType
      /\ (g.running <=> f.running) /\ (g.forced <=> f.forced)
      /\ g.left = Tail(f.left)
      /\ g.left = <<>> => /\ g.cals = f.cals \ {First(f.cals)}
                          /\ g.success
                          /\ g.all => f.all /\ f.success /\ ok
      /\ g.left # <<>> => /\ g.cals = f.cals
                          /\ g.success => f.success /\ ok
                          /\ g.all => f.all
      /\ g.wrote = f.wrote \cup w
    BY AfterBucketIs
<1>2. f.left \in Seq(Quarters)
    BY DEF FetchType
<1>3. ToSet(Tail(f.left)) \subseteq ToSet(f.left)
    BY <1>2, TailIs
<1>4. g.left # <<>> => g.cals # {}
    BY <1>1 DEF FetchOK
<1>5. g.cals \subseteq f.cals
    BY <1>1
<1> QED
    BY <1>1, <1>3, <1>4, <1>5 DEF FetchOK

(* What the thread of v asks for next is a quarter that v needs. *)
LEMMA NextQuarter ==
    ASSUME NEW v \in Views, NEW f, FetchOK(v, f), f.left # <<>>
    PROVE  /\ First(f.cals) \in f.cals
           /\ Head(f.left) \in ToSet(f.left)
           /\ <<First(f.cals), Head(f.left)>> \in Needed(v)
<1>1. f.cals \in SUBSET Cals /\ f.cals # {} /\ f.cals \subseteq v.cals /\ f.left \in Seq(Quarters)
    BY DEF FetchOK, FetchType
<1>2. First(f.cals) \in f.cals
    BY <1>1, FirstIsLeast
<1>3. Head(f.left) \in ToSet(f.left) /\ ToSet(f.left) \subseteq ToSet(Buckets[v])
    BY <1>1, TailIs DEF FetchOK
<1>4. Needed(v) = v.cals \X ToSet(Buckets[v])
    BY NeededIs
<1> QED
    BY <1>1, <1>2, <1>3, <1>4

LEMMA ShapeFetchBucket ==
    ASSUME Shape, NEW v \in Views, FetchBucket(v)
    PROVE  Shape'
<1>0. PICK f : f = fetches[v]
    OBVIOUS
<1>1. FetchesOK /\ FetchOK(v, f) /\ f.running /\ f.left # <<>>
    BY <1>0 DEF Shape, FetchesOK, FetchBucket, Fetching
<1>2. PICK p : p = <<First(f.cals), Head(f.left)>> /\ p \in Needed(v) /\ p \in AllNeeded
    BY <1>1, NextQuarter, NeededIs
<1>3. /\ \/ /\ Store(p)
            /\ fetches' = [fetches EXCEPT ![v] = AfterBucket(f, TRUE, {p})]
            /\ UNCHANGED faults
         \/ /\ p[1] \in Unreadable \/ faults < MaxFaults
            /\ faults' = IF p[1] \in Unreadable THEN faults ELSE faults + 1
            /\ fetches' = [fetches EXCEPT ![v] = AfterBucket(f, FALSE, {})]
            /\ UNCHANGED <<stored, loads, shown>>
      /\ awaited' = awaited \ {p}
      /\ UNCHANGED <<view, coveredKeys, job, moves, reloads, jobs, unseen>>
    BY <1>0, <1>2 DEF FetchBucket
<1>4. f \in FetchType /\ {p} \in SUBSET AllNeeded /\ {} \in SUBSET AllNeeded
      /\ {p} \subseteq Needed(v) /\ {} \subseteq Needed(v)
    BY <1>1, <1>2 DEF FetchOK
<1>5. FetchesOK'
  <2>1. PICK ok \in BOOLEAN, w \in SUBSET AllNeeded :
            w \subseteq Needed(v) /\ fetches' = [fetches EXCEPT ![v] = AfterBucket(f, ok, w)]
      BY <1>3, <1>4
  <2>2. PICK g : g = AfterBucket(f, ok, w)
      OBVIOUS
  <2>3. FetchOK(v, g)
      BY <1>1, <1>4, <2>1, <2>2, AfterBucketOK
  <2> QED
      BY <1>1, <2>1, <2>2, <2>3, FetchReplaced
<1>6. LoadsOK' /\ ShownOK' /\ stored' \subseteq AllNeeded
  <2>1. CASE Store(p)
      BY <2>1, <1>2, <1>3, StoreShape DEF Shape
  <2>2. CASE UNCHANGED <<stored, loads, shown>>
      BY <2>2, <1>3 DEF Shape, LoadsOK, LoadOK, ShownOK
  <2> QED
      BY <1>3, <2>1, <2>2
<1>7. BoundsOK'
  <2>1. /\ UNCHANGED <<moves, reloads, jobs>>
        /\ faults' = faults \/ (faults < MaxFaults /\ faults' = faults + 1)
      BY <1>3
  <2>2. MaxFaults \in Nat
      BY BoundsAssumption
  <2> QED
      BY <2>1, <2>2 DEF Shape, BoundsOK
<1>8. JobOK'
    BY <1>3 DEF Shape, JobOK
<1> QED
    BY <1>3, <1>5, <1>6, <1>7, <1>8 DEF Shape

(* A coverage thread that has thrown. *)
LEMMA ThrownIs ==
    ASSUME FetchesOK, NEW v \in Views, Fetching(v),
           fetches' = [fetches EXCEPT ![v].error = TRUE, ![v].all = FALSE,
                                      ![v].cals = {}, ![v].left = <<>>, ![v].success = TRUE]
    PROVE  \E g : /\ fetches' = [fetches EXCEPT ![v] = g]
                  /\ FetchOK(v, g)
                  /\ g.running /\ g.error /\ ~g.all
                  /\ g.cals = {} /\ g.left = <<>> /\ g.success /\ g.wrote = fetches[v].wrote
<1> DEFINE f0 == fetches[v]
           f1 == [f0 EXCEPT !.error = TRUE]
           f2 == [f1 EXCEPT !.all = FALSE]
           f3 == [f2 EXCEPT !.cals = {}]
           f4 == [f3 EXCEPT !.left = <<>>]
           f5 == [f4 EXCEPT !.success = TRUE]
<1>1. f0 \in FetchType /\ f0.running /\ f0.wrote \subseteq Needed(v)
    BY DEF FetchesOK, FetchOK, Fetching
<1>2. f1 \in FetchType /\ f1.running /\ f1.error /\ f1.wrote = f0.wrote
    BY <1>1 DEF FetchType
<1>3. fetches' = [fetches EXCEPT ![v] = f5]
    BY DEF FetchesOK
<1> HIDE DEF f1
<1>4. f2 \in FetchType /\ f2.running /\ f2.error /\ ~f2.all /\ f2.wrote = f0.wrote
    BY <1>2 DEF FetchType
<1> HIDE DEF f2
<1>5. /\ f3 \in FetchType /\ f3.running /\ f3.error /\ ~f3.all /\ f3.wrote = f0.wrote
      /\ f3.cals = {}
    BY <1>4 DEF FetchType
<1> HIDE DEF f3
<1>6. /\ f4 \in FetchType /\ f4.running /\ f4.error /\ ~f4.all /\ f4.wrote = f0.wrote
      /\ f4.cals = {} /\ f4.left = <<>>
  <2>1. <<>> \in Seq(Quarters)
      OBVIOUS
  <2> QED
      BY <1>5, <2>1 DEF FetchType
<1> HIDE DEF f4
<1>7. /\ f5 \in FetchType /\ f5.running /\ f5.error /\ ~f5.all /\ f5.wrote = f0.wrote
      /\ f5.cals = {} /\ f5.left = <<>> /\ f5.success
    BY <1>6 DEF FetchType
<1> HIDE DEF f5
<1>8. FetchOK(v, f5)
  <2>1. ToSet(<<>>) = {}
      BY DEF ToSet
  <2> QED
      BY <1>1, <1>7, <2>1 DEF FetchOK
<1> QED
    BY <1>3, <1>7, <1>8

LEMMA ShapeCoverageThrows ==
    ASSUME Shape, NEW v \in Views, CoverageThrows(v)
    PROVE  Shape'
<1>1. /\ Fetching(v) /\ faults < MaxFaults /\ faults' = faults + 1 /\ awaited' = {}
      /\ fetches' = [fetches EXCEPT ![v].error = TRUE, ![v].all = FALSE,
                                    ![v].cals = {}, ![v].left = <<>>, ![v].success = TRUE]
      /\ UNCHANGED <<windowVars, coveredKeys, job, stored, moves, reloads, jobs, unseen>>
    BY DEF CoverageThrows
<1>2. FetchesOK'
  <2>1. PICK g : fetches' = [fetches EXCEPT ![v] = g] /\ FetchOK(v, g)
      BY <1>1, ThrownIs DEF Shape
  <2> QED
      BY <2>1, FetchReplaced DEF Shape
<1>3. LoadsOK' /\ ShownOK' /\ JobOK'
    BY <1>1 DEF Shape, LoadsOK, LoadOK, ShownOK, JobOK, windowVars
<1>4. BoundsOK'
    BY <1>1, BoundsAssumption DEF Shape, BoundsOK
<1> QED
    BY <1>1, <1>2, <1>3, <1>4 DEF Shape, windowVars

LEMMA ShapeCoverageResult ==
    ASSUME Shape, NEW v \in Views, CoverageResult(v)
    PROVE  Shape'
<1>1. /\ fetches' = [fetches EXCEPT ![v] = NoFetch]
      /\ coveredKeys' = IF fetches[v].all THEN coveredKeys \cup {v} ELSE coveredKeys
      /\ \/ RefreshEvents(view, FALSE, {})
         \/ /\ unseen' = unseen \cup fetches[v].wrote
            /\ UNCHANGED <<loads, awaited>>
      /\ UNCHANGED <<view, shown, job, stored, boundVars>>
    BY DEF CoverageResult
<1>2. FetchesOK'
    BY <1>1, NoFetchOK, FetchReplaced DEF Shape
<1>3. LoadsOK' /\ unseen' \subseteq AllNeeded /\ awaited' \subseteq AllNeeded
  <2>1. CASE RefreshEvents(view, FALSE, {})
      BY <2>1, <1>1, RefreshShape DEF Shape
  <2>2. CASE /\ unseen' = unseen \cup fetches[v].wrote
             /\ UNCHANGED <<loads, awaited>>
    <3>1. fetches[v].wrote \subseteq AllNeeded
        BY NeededIs DEF Shape, FetchesOK, FetchOK
    <3> QED
        BY <2>2, <3>1, <1>1 DEF Shape, LoadsOK, LoadOK
  <2> QED
      BY <1>1, <2>1, <2>2
<1>4. ShownOK' /\ JobOK' /\ BoundsOK'
    BY <1>1 DEF Shape, ShownOK, JobOK, BoundsOK, boundVars
<1> QED
    BY <1>1, <1>2, <1>3, <1>4 DEF Shape

LEMMA ShapeJobStarts ==
    ASSUME Shape, JobStarts
    PROVE  Shape'
<1>1. /\ jobs < MaxJobs /\ jobs' = jobs + 1
      /\ job' = [running |-> TRUE, left |-> Cals \X ToSet(Buckets[view]), wrote |-> {}]
      /\ UNCHANGED <<windowVars, coveredKeys, fetches, stored, moves, reloads, faults, historyVars>>
    BY DEF JobStarts
<1>2. Cals \X ToSet(Buckets[view]) \in SUBSET AllNeeded
    BY DEF AllNeeded, Shape
<1>3. JobOK'
    BY <1>1, <1>2 DEF JobOK
<1>4. BoundsOK'
    BY <1>1, BoundsAssumption DEF Shape, BoundsOK
<1>5. LoadsOK' /\ ShownOK' /\ FetchesOK'
    BY <1>1 DEF Shape, LoadsOK, LoadOK, ShownOK, FetchesOK, windowVars
<1> QED
    BY <1>1, <1>3, <1>4, <1>5 DEF Shape, windowVars, historyVars

(* A pass after a quarter. *)
LEMMA JobAdvances ==
    ASSUME JobOK, job.running, NEW left \in SUBSET AllNeeded, NEW wrote \in SUBSET AllNeeded,
           \/ job' = [job EXCEPT !.left = left, !.wrote = wrote]
           \/ job' = [job EXCEPT !.left = left] /\ wrote = job.wrote
    PROVE  JobOK' /\ job'.running /\ job'.left = left /\ job'.wrote = wrote
<1>1. job \in [running : BOOLEAN, left : SUBSET AllNeeded, wrote : SUBSET AllNeeded]
    BY DEF JobOK
<1>2. CASE job' = [job EXCEPT !.left = left] /\ wrote = job.wrote
    BY <1>1, <1>2 DEF JobOK
<1>3. CASE job' = [job EXCEPT !.left = left, !.wrote = wrote]
  <2>1. PICK j : j = [job EXCEPT !.left = left]
      OBVIOUS
  <2>2. /\ j \in [running : BOOLEAN, left : SUBSET AllNeeded, wrote : SUBSET AllNeeded]
        /\ j.running /\ j.left = left
      BY <1>1, <2>1
  <2>3. job' = [j EXCEPT !.wrote = wrote]
      BY <1>3, <2>1
  <2> QED
      BY <2>2, <2>3 DEF JobOK
<1> QED
    BY <1>2, <1>3

LEMMA ShapeJobFetches ==
    ASSUME Shape, JobFetches
    PROVE  Shape'
<1>1. PICK p \in job.left :
          /\ \/ /\ Store(p)
                /\ job' = [job EXCEPT !.left = @ \ {p}, !.wrote = @ \cup {p}]
                /\ UNCHANGED faults
             \/ /\ p[1] \in Unreadable \/ faults < MaxFaults
                /\ faults' = IF p[1] \in Unreadable THEN faults ELSE faults + 1
                /\ job' = [job EXCEPT !.left = @ \ {p}]
                /\ UNCHANGED <<stored, loads, shown>>
          /\ UNCHANGED <<view, coveredKeys, fetches, moves, reloads, jobs, historyVars>>
    BY DEF JobFetches
<1>2. /\ job.running /\ p \in AllNeeded
      /\ job \in [running : BOOLEAN, left : SUBSET AllNeeded, wrote : SUBSET AllNeeded]
    BY DEF JobFetches, Shape, JobOK
<1>3. LoadsOK' /\ ShownOK' /\ stored' \subseteq AllNeeded
  <2>1. CASE Store(p)
      BY <2>1, <1>1, <1>2, StoreShape DEF Shape
  <2>2. CASE UNCHANGED <<stored, loads, shown>>
      BY <2>2, <1>1 DEF Shape, LoadsOK, LoadOK, ShownOK
  <2> QED
      BY <1>1, <2>1, <2>2
<1>4. JobOK'
  <2>1. PICK left \in SUBSET AllNeeded, wrote \in SUBSET AllNeeded :
            \/ job' = [job EXCEPT !.left = left, !.wrote = wrote]
            \/ job' = [job EXCEPT !.left = left] /\ wrote = job.wrote
    <3>1. /\ job.left \ {p} \in SUBSET AllNeeded
          /\ job.wrote \cup {p} \in SUBSET AllNeeded /\ job.wrote \in SUBSET AllNeeded
        BY <1>2
    <3>2. CASE job' = [job EXCEPT !.left = @ \ {p}, !.wrote = @ \cup {p}]
      <4>1. job' = [job EXCEPT !.left = job.left \ {p}, !.wrote = job.wrote \cup {p}]
          BY <3>2, <1>2
      <4> QED
          BY <3>1, <4>1
    <3>3. CASE job' = [job EXCEPT !.left = @ \ {p}]
        BY <3>1, <3>3
    <3> QED
        BY <1>1, <3>2, <3>3
  <2> QED
      BY <1>2, <2>1, JobAdvances DEF Shape
<1>5. BoundsOK'
  <2>1. /\ UNCHANGED <<moves, reloads, jobs>>
        /\ faults' = faults \/ (faults < MaxFaults /\ faults' = faults + 1)
      BY <1>1
  <2>2. MaxFaults \in Nat
      BY BoundsAssumption
  <2> QED
      BY <2>1, <2>2 DEF Shape, BoundsOK
<1>6. FetchesOK'
    BY <1>1 DEF Shape, FetchesOK
<1> QED
    BY <1>1, <1>3, <1>4, <1>5, <1>6 DEF Shape, historyVars

LEMMA ShapeJobThrows ==
    ASSUME Shape, JobThrows
    PROVE  Shape'
<1>1. /\ faults < MaxFaults /\ faults' = faults + 1 /\ job' = NoJob
      /\ unseen' = unseen \cup job.wrote
      /\ UNCHANGED <<windowVars, coveredKeys, fetches, stored, moves, reloads, jobs, awaited>>
    BY DEF JobThrows
<1>2. JobOK' /\ unseen' \subseteq AllNeeded
    BY <1>1 DEF Shape, JobOK, NoJob
<1>3. LoadsOK' /\ ShownOK' /\ FetchesOK'
    BY <1>1 DEF Shape, LoadsOK, LoadOK, ShownOK, FetchesOK, windowVars
<1>4. BoundsOK'
    BY <1>1, BoundsAssumption DEF Shape, BoundsOK
<1> QED
    BY <1>1, <1>2, <1>3, <1>4 DEF Shape, windowVars

LEMMA ShapeHandleResult ==
    ASSUME Shape, HandleEventUploadResult
    PROVE  Shape'
<1>1. /\ job' = NoJob /\ RefreshEvents(view, FALSE, {})
      /\ UNCHANGED <<view, shown, coveredKeys, fetches, stored, boundVars>>
    BY DEF HandleEventUploadResult
<1>2. LoadsOK' /\ unseen' \subseteq AllNeeded /\ awaited' \subseteq AllNeeded
    BY <1>1, RefreshShape DEF Shape
<1>3. JobOK'
    BY <1>1 DEF JobOK, NoJob
<1>4. ShownOK' /\ FetchesOK' /\ BoundsOK'
    BY <1>1 DEF Shape, ShownOK, FetchesOK, BoundsOK, boundVars
<1> QED
    BY <1>1, <1>2, <1>3, <1>4 DEF Shape

LEMMA ShapeStuttering ==
    ASSUME Shape, UNCHANGED vars
    PROVE  Shape'
BY DEF Shape, vars, windowVars, boundVars, historyVars, LoadsOK, LoadOK, ShownOK, FetchesOK,
       JobOK, BoundsOK

LEMMA ShapeStep ==
    ASSUME Shape, [Next]_vars
    PROVE  Shape'
<1>1. ASSUME NEW v \in Views, ShowRange(v) PROVE Shape'
    BY <1>1, ShapeShowRange
<1>2. ASSUME NEW l \in loads, LoadNext(l) PROVE Shape'
    BY <1>2, ShapeLoadReads, ShapeLoadResult, ShapeLoadFailed DEF LoadNext
<1>3. ASSUME NEW v \in Views, CoverageNext(v) PROVE Shape'
    BY <1>3, ShapeNextCalendar, ShapeFetchBucket, ShapeCoverageThrows, ShapeCoverageResult
       DEF CoverageNext
<1>4. ASSUME JobNext PROVE Shape'
    BY <1>4, ShapeJobFetches, ShapeJobThrows, ShapeHandleResult DEF JobNext
<1> QED
    BY <1>1, <1>2, <1>3, <1>4, ShapeOnToday, ShapeJobStarts, ShapeStuttering DEF Next

(* In every reachable state the state is well formed. *)
THEOREM ShapeInductive == Spec => []Shape
<1>1. Shape /\ [Next]_vars => Shape'
    BY ShapeStep
<1> QED
    BY ShapeInit, <1>1, PTL DEF Spec

(* In every reachable state every variable has its type, and at most one thread
   of RefreshEvents is current: eventLoadGeneration_ outdates all the others. *)
THEOREM TypeCorrect == Spec => []TypeOK
<1>1. Shape => TypeOK
  <2> SUFFICES ASSUME Shape PROVE TypeOK
      OBVIOUS
  <2>1. \A l \in loads :
           /\ l.view \in Views
           /\ l.forced \in BOOLEAN /\ l.current \in BOOLEAN
           /\ l.left \subseteq l.view.cals
           /\ l.seen \subseteq Needed(l.view)
           /\ l.current => l.view = view
      BY DEF Shape, LoadsOK, LoadOK, LoadType
  <2>2. Cardinality({l \in loads : l.current}) <= 1
    <3>1. CASE {l \in loads : l.current} = {}
        BY <3>1, FS_EmptySet
    <3>2. CASE {l \in loads : l.current} # {}
      <4>1. PICK m \in loads : {l \in loads : l.current} = {m}
          BY <3>2 DEF Shape, LoadsOK
      <4> QED
          BY <4>1, FS_Singleton
    <3> QED
        BY <3>1, <3>2
  <2>3. shown.view \in Views /\ shown.seen \subseteq Needed(shown.view)
      BY DEF Shape, ShownOK
  <2>4. \A v \in Views :
           /\ fetches[v].running \in BOOLEAN
           /\ fetches[v].cals \subseteq v.cals
           /\ fetches[v].wrote \subseteq Needed(v)
           /\ fetches[v].left # <<>> => fetches[v].cals # {}
      BY DEF Shape, FetchesOK, FetchOK, FetchType
  <2>5. job.running \in BOOLEAN /\ job.left \cup job.wrote \subseteq AllNeeded
      BY DEF Shape, JobOK
  <2> QED
      BY <2>1, <2>2, <2>3, <2>4, <2>5 DEF Shape, BoundsOK, TypeOK
<1> QED
    BY ShapeInductive, <1>1, PTL

-----------------------------------------------------------------------------
(***************************************************************************)
(* The window is not left behind what the threads have stored.              *)
(***************************************************************************)

LEMMA WroteGrows ==
    ASSUME NEW extra, \A v \in Views : fetches[v].wrote \subseteq fetches'[v].wrote \cup extra,
           job.wrote \subseteq job'.wrote \cup extra
    PROVE  Wrote \subseteq Wrote' \cup extra
BY DEF Wrote

(* No load starts or ends, and nothing is read or stored. *)
LEMMA SeenKept ==
    ASSUME Shape, SeenInv, Wrote \subseteq Wrote' \cup unseen',
           unseen \subseteq unseen', unseen' \subseteq AllNeeded,
           UNCHANGED <<windowVars, stored>>
    PROVE  SeenInv'
<1>1. view' = view /\ loads' = loads /\ shown' = shown /\ stored' = stored
    BY DEF windowVars
<1>2. ASSUME NEW l \in loads, l.current, NEW p \in stored \cap Needed(view)
      PROVE  p[1] \in l.left \/ p \in l.seen \/ p \in unseen' \/ p \in Wrote'
    BY <1>2 DEF SeenInv
<1>3. ASSUME \A l \in loads : ~l.current
      PROVE  /\ shown.view = view \/ unseen' = AllNeeded
             /\ \A p \in stored \cap Needed(view) :
                    p \in shown.seen \/ p \in unseen' \/ p \in Wrote'
    BY <1>3 DEF SeenInv
<1> QED
    BY <1>1, <1>2, <1>3 DEF SeenInv

(* A refresh begins to read everything anew. *)
LEMMA SeenRefreshed ==
    ASSUME Shape, NEW v \in Views, NEW forced \in BOOLEAN, NEW asked \in SUBSET AllNeeded,
           RefreshEvents(v, forced, asked), view' = v
    PROVE  SeenInv'
<1>1. /\ Load(v, forced) \in loads'
      /\ \A l \in loads' : l.current => l = Load(v, forced)
    BY RefreshShape
<1>2. Load(v, forced).current /\ Load(v, forced).left = v.cals
    BY LoadIsOK
<1>3. \A p \in Needed(v) : p[1] \in v.cals
    BY NeededIs
<1> QED
    BY <1>1, <1>2, <1>3 DEF SeenInv

(* What is stored counts as written by a thread whose result is still to come. *)
LEMMA SeenStored ==
    ASSUME Shape, SeenInv, NEW p \in AllNeeded, Store(p),
           view' = view, unseen' = unseen, Wrote \subseteq Wrote', p \in Wrote'
    PROVE  SeenInv'
<1>1. /\ stored' = stored \cup {p}
      /\ \A l \in loads' : \E m \in loads :
             /\ l.view = m.view /\ l.forced = m.forced /\ l.current = m.current
             /\ l.left = m.left /\ l.seen = m.seen \ {p}
      /\ \A m \in loads : \E l \in loads' :
             /\ l.view = m.view /\ l.forced = m.forced /\ l.current = m.current
             /\ l.left = m.left /\ l.seen = m.seen \ {p}
      /\ shown'.view = shown.view /\ shown'.seen = shown.seen \ {p}
    BY StoreShape DEF Shape
<1>2. ASSUME NEW l \in loads', l.current, NEW q \in stored' \cap Needed(view)
      PROVE  q[1] \in l.left \/ q \in l.seen \/ q \in unseen' \/ q \in Wrote'
  <2>1. PICK m \in loads : /\ m.current = l.current
                           /\ l.left = m.left /\ l.seen = m.seen \ {p}
      BY <1>1
  <2>2. CASE q = p
      BY <2>2
  <2>3. CASE q # p
    <3>1. q \in stored \cap Needed(view)
        BY <1>1, <2>3
    <3>2. q[1] \in m.left \/ q \in m.seen \/ q \in unseen \/ q \in Wrote
        BY <1>2, <2>1, <3>1 DEF SeenInv
    <3> QED
        BY <2>1, <2>3, <3>2
  <2> QED
      BY <2>2, <2>3
<1>3. ASSUME \A l \in loads' : ~l.current
      PROVE  /\ shown'.view = view \/ unseen' = AllNeeded
             /\ \A q \in stored' \cap Needed(view) :
                    q \in shown'.seen \/ q \in unseen' \/ q \in Wrote'
  <2>1. \A m \in loads : ~m.current
      BY <1>1, <1>3
  <2>2. shown.view = view \/ unseen = AllNeeded
      BY <2>1 DEF SeenInv
  <2>3. \A q \in stored \cap Needed(view) : q \in shown.seen \/ q \in unseen \/ q \in Wrote
      BY <2>1 DEF SeenInv
  <2> QED
      BY <1>1, <2>2, <2>3
<1> QED
    BY <1>2, <1>3 DEF SeenInv

LEMMA SeenInit == Init => SeenInv
<1> SUFFICES ASSUME Init PROVE SeenInv
    OBVIOUS
<1>1. stored = {} /\ loads = {Load(TodayView, FALSE)}
    BY DEF Init
<1>2. Load(TodayView, FALSE).current
    BY ViewsAssumption, LoadIsOK
<1> QED
    BY <1>1, <1>2 DEF SeenInv

LEMMA SeenLoadReads ==
    ASSUME Shape, SeenInv, NEW l \in loads, LoadReads(l)
    PROVE  SeenInv'
<1>1. /\ l.left # {}
      /\ UNCHANGED <<view, shown, coveredKeys, fetches, job, stored, boundVars, historyVars>>
    BY DEF LoadReads
<1>2. PICK m : /\ loads' = (loads \ {l}) \cup {m}
               /\ m.current = l.current /\ m.left = l.left \ {First(l.left)}
               /\ m.seen = l.seen \cup {p \in stored \cap Needed(l.view) : p[1] = First(l.left)}
  <2> DEFINE c == First(l.left)
             n == [l EXCEPT !.left = @ \ {c},
                            !.seen = @ \cup {p \in stored \cap Needed(l.view) : p[1] = c}]
  <2>1. loads' = (loads \ {l}) \cup {n}
      BY DEF LoadReads
  <2>2. /\ n.current = l.current /\ n.left = l.left \ {c}
        /\ n.seen = l.seen \cup {p \in stored \cap Needed(l.view) : p[1] = c}
      BY <1>1, ReadIs
  <2> HIDE DEF n
  <2> QED
      BY <2>1, <2>2
<1>3. Wrote' = Wrote /\ unseen' = unseen
    BY <1>1 DEF Wrote, historyVars
<1>4. ASSUME NEW k \in loads', k.current, NEW p \in stored \cap Needed(view)
      PROVE  p[1] \in k.left \/ p \in k.seen \/ p \in unseen \/ p \in Wrote
  <2>1. CASE k = m
    <3>1. l.current /\ l.view = view
        BY <2>1, <1>2, <1>4 DEF Shape, LoadsOK, LoadOK
    <3>2. p[1] \in l.left \/ p \in l.seen \/ p \in unseen \/ p \in Wrote
        BY <3>1 DEF SeenInv
    <3> QED
        BY <2>1, <3>1, <3>2, <1>2
  <2>2. CASE k # m
    <3>1. k \in loads
        BY <2>2, <1>2
    <3> QED
        BY <3>1, <1>4 DEF SeenInv
  <2> QED
      BY <2>1, <2>2
<1>5. ASSUME \A k \in loads' : ~k.current
      PROVE  \A k \in loads : ~k.current
    BY <1>2, <1>5
<1> QED
    BY <1>1, <1>3, <1>4, <1>5 DEF SeenInv

LEMMA SeenLoadResult ==
    ASSUME Shape, SeenInv, NEW l \in loads, LoadResult(l)
    PROVE  SeenInv'
<1>1. /\ loads' = loads \ {l} /\ l.left = {}
      /\ UNCHANGED <<view, coveredKeys, job, stored, boundVars, unseen>>
      /\ \/ ~l.current /\ UNCHANGED <<shown, fetches, awaited>>
         \/ /\ l.current
            /\ shown' = [view |-> l.view, seen |-> l.seen]
            /\ EnsureVisibleRangeCoverage(l.view, l.forced)
    BY DEF LoadResult
<1>2. CASE ~l.current /\ UNCHANGED <<shown, fetches, awaited>>
  <2>1. Wrote' = Wrote
      BY <1>1, <1>2 DEF Wrote
  <2> QED
      BY <1>1, <1>2, <2>1 DEF SeenInv
<1>3. CASE /\ l.current
           /\ shown' = [view |-> l.view, seen |-> l.seen]
           /\ EnsureVisibleRangeCoverage(l.view, l.forced)
  <2>1. l.view = view /\ l.view \in Views /\ l.forced \in BOOLEAN
      BY <1>3 DEF Shape, LoadsOK, LoadOK, LoadType
  <2>2. \A k \in loads' : ~k.current
      BY <1>1, <1>3 DEF Shape, LoadsOK
  <2>3. Wrote \subseteq Wrote' \cup {}
    <3>1. \A w \in Views : fetches[w].wrote \subseteq fetches'[w].wrote \cup {}
      <4>1. \A w \in Views : fetches'[w] = fetches[w] \/ ~Fetching(w)
          BY <1>3, <2>1, EnsureShape DEF Shape
      <4>2. \A w \in Views : ~Fetching(w) => fetches[w].wrote = {}
          BY DEF Shape, FetchesOK, FetchOK, Fetching, NoFetch
      <4> QED
          BY <4>1, <4>2
    <3> QED
        BY <1>1, <3>1, WroteGrows
  <2>4. \A p \in stored \cap Needed(view) : p \in l.seen \/ p \in unseen \/ p \in Wrote
      BY <1>1, <1>3 DEF SeenInv
  <2> QED
      BY <1>1, <1>3, <2>1, <2>2, <2>3, <2>4 DEF SeenInv
<1> QED
    BY <1>1, <1>2, <1>3

LEMMA SeenLoadFailed ==
    ASSUME Shape, SeenInv, NEW l \in loads, LoadFailed(l)
    PROVE  SeenInv'
<1>1. /\ loads' = loads \ {l} /\ l.current /\ unseen' = AllNeeded
      /\ UNCHANGED <<view, shown, coveredKeys, fetches, job, stored, moves, reloads, jobs>>
    BY DEF LoadFailed
<1>2. \A k \in loads' : ~k.current
    BY <1>1 DEF Shape, LoadsOK
<1>3. stored \subseteq AllNeeded
    BY DEF Shape
<1> QED
    BY <1>1, <1>2, <1>3 DEF SeenInv

LEMMA SeenFetchBucket ==
    ASSUME Shape, SeenInv, NEW v \in Views, FetchBucket(v)
    PROVE  SeenInv'
<1>0. PICK f : f = fetches[v]
    OBVIOUS
<1>1. FetchesOK /\ FetchOK(v, f) /\ f \in FetchType /\ f.left # <<>> /\ f.running
    BY <1>0 DEF Shape, FetchesOK, FetchOK, FetchBucket, Fetching
<1>2. PICK p : p = <<First(f.cals), Head(f.left)>> /\ p \in Needed(v) /\ p \in AllNeeded
    BY <1>1, NextQuarter, NeededIs
<1>3. /\ \/ /\ Store(p)
            /\ fetches' = [fetches EXCEPT ![v] = AfterBucket(f, TRUE, {p})]
         \/ /\ fetches' = [fetches EXCEPT ![v] = AfterBucket(f, FALSE, {})]
            /\ UNCHANGED <<stored, loads, shown>>
      /\ UNCHANGED <<view, coveredKeys, job, moves, reloads, jobs, unseen>>
    BY <1>0, <1>2 DEF FetchBucket
<1>4. ASSUME NEW ok \in BOOLEAN, NEW w \in SUBSET AllNeeded, w \subseteq Needed(v),
             fetches' = [fetches EXCEPT ![v] = AfterBucket(f, ok, w)]
      PROVE  Wrote \subseteq Wrote' /\ w \subseteq Wrote'
  <2>1. PICK g : g = AfterBucket(f, ok, w)
      OBVIOUS
  <2>2. g.wrote = f.wrote \cup w
      BY <1>1, <2>1, AfterBucketIs
  <2>3. FetchOK(v, g)
      BY <1>1, <1>4, <2>1, AfterBucketOK
  <2>4. fetches'[v] = g /\ \A x \in Views : x # v => fetches'[x] = fetches[x]
      BY <1>1, <1>4, <2>1, <2>3, FetchReplaced
  <2>5. \A x \in Views : fetches[x].wrote \subseteq fetches'[x].wrote \cup {}
      BY <1>0, <2>2, <2>4
  <2>6. Wrote \subseteq Wrote' \cup {}
      BY <1>3, <2>5, WroteGrows
  <2> QED
      BY <2>2, <2>4, <2>6 DEF Wrote
<1>5. CASE Store(p) /\ fetches' = [fetches EXCEPT ![v] = AfterBucket(f, TRUE, {p})]
  <2>1. {p} \in SUBSET AllNeeded /\ {p} \subseteq Needed(v) /\ TRUE \in BOOLEAN
      BY <1>2
  <2>2. Wrote \subseteq Wrote' /\ p \in Wrote'
      BY <1>4, <1>5, <2>1
  <2> QED
      BY <1>2, <1>3, <1>5, <2>2, SeenStored
<1>6. CASE /\ fetches' = [fetches EXCEPT ![v] = AfterBucket(f, FALSE, {})]
           /\ UNCHANGED <<stored, loads, shown>>
  <2>1. {} \in SUBSET AllNeeded /\ {} \subseteq Needed(v) /\ FALSE \in BOOLEAN
      OBVIOUS
  <2>2. Wrote \subseteq Wrote'
      BY <1>4, <1>6, <2>1
  <2>3. Wrote \subseteq Wrote' \cup unseen' /\ unseen \subseteq unseen' /\ unseen' \subseteq AllNeeded
      BY <1>3, <2>2 DEF Shape
  <2>4. UNCHANGED <<windowVars, stored>>
      BY <1>3, <1>6 DEF windowVars
  <2> QED
      BY <2>3, <2>4, SeenKept
<1> QED
    BY <1>3, <1>5, <1>6

LEMMA SeenNextCalendar ==
    ASSUME Shape, SeenInv, NEW v \in Views, NextCalendar(v)
    PROVE  SeenInv'
<1>1. /\ \/ fetches' = [fetches EXCEPT ![v].cals = @ \ {First(fetches[v].cals)}]
         \/ fetches' = [fetches EXCEPT ![v].left = Buckets[v]]
      /\ UNCHANGED <<windowVars, coveredKeys, job, stored, boundVars, historyVars>>
    BY DEF NextCalendar
<1>2. ASSUME NEW x \in Views
      PROVE  fetches[x].wrote \subseteq fetches'[x].wrote \cup {}
  <2>1. /\ fetches = [w \in Views |-> fetches[w]]
        /\ fetches[v] \in FetchType
      BY DEF Shape, FetchesOK, FetchOK
  <2>2. CASE fetches' = [fetches EXCEPT ![v].cals = @ \ {First(fetches[v].cals)}]
      BY <2>1, <2>2 DEF FetchType
  <2>3. CASE fetches' = [fetches EXCEPT ![v].left = Buckets[v]]
      BY <2>1, <2>3 DEF FetchType
  <2> QED
      BY <1>1, <2>2, <2>3
<1>3. Wrote \subseteq Wrote' \cup {}
    BY <1>1, <1>2, WroteGrows
<1>4. unseen' = unseen /\ UNCHANGED <<windowVars, stored>>
    BY <1>1 DEF historyVars
<1> QED
    BY <1>3, <1>4, SeenKept DEF Shape

LEMMA SeenCoverageThrows ==
    ASSUME Shape, SeenInv, NEW v \in Views, CoverageThrows(v)
    PROVE  SeenInv'
<1>1. /\ Fetching(v)
      /\ fetches' = [fetches EXCEPT ![v].error = TRUE, ![v].all = FALSE,
                                    ![v].cals = {}, ![v].left = <<>>, ![v].success = TRUE]
      /\ UNCHANGED <<windowVars, coveredKeys, job, stored, moves, reloads, jobs, unseen>>
    BY DEF CoverageThrows
<1>2. PICK g : /\ fetches' = [fetches EXCEPT ![v] = g]
               /\ FetchOK(v, g) /\ g.wrote = fetches[v].wrote
    BY <1>1, ThrownIs DEF Shape
<1>3. \A x \in Views : fetches[x].wrote \subseteq fetches'[x].wrote \cup {}
  <2>1. fetches'[v] = g /\ \A x \in Views : x # v => fetches'[x] = fetches[x]
      BY <1>2, FetchReplaced DEF Shape
  <2> QED
      BY <1>2, <2>1
<1>4. Wrote \subseteq Wrote' \cup {}
    BY <1>1, <1>3, WroteGrows
<1>5. UNCHANGED <<windowVars, stored>> /\ unseen' = unseen
    BY <1>1
<1> QED
    BY <1>4, <1>5, SeenKept DEF Shape

LEMMA SeenCoverageResult ==
    ASSUME Shape, SeenInv, NEW v \in Views, CoverageResult(v)
    PROVE  SeenInv'
<1>1. /\ fetches' = [fetches EXCEPT ![v] = NoFetch]
      /\ \/ RefreshEvents(view, FALSE, {})
         \/ /\ unseen' = unseen \cup fetches[v].wrote
            /\ UNCHANGED <<loads, awaited>>
      /\ UNCHANGED <<view, shown, job, stored, boundVars>>
    BY DEF CoverageResult
<1>2. CASE RefreshEvents(view, FALSE, {})
    BY <1>1, <1>2, SeenRefreshed DEF Shape
<1>3. CASE /\ unseen' = unseen \cup fetches[v].wrote
           /\ UNCHANGED <<loads, awaited>>
  <2>1. fetches[v].wrote \subseteq AllNeeded
      BY NeededIs DEF Shape, FetchesOK, FetchOK
  <2>2. \A x \in Views : x # v => fetches'[x] = fetches[x]
      BY <1>1, NoFetchOK, FetchReplaced DEF Shape
  <2>3. \A x \in Views : fetches[x].wrote \subseteq fetches'[x].wrote \cup unseen'
      BY <1>3, <2>2
  <2>4. Wrote \subseteq Wrote' \cup unseen'
      BY <1>1, <2>3, WroteGrows
  <2>5. UNCHANGED <<windowVars, stored>>
      BY <1>1, <1>3 DEF windowVars
  <2> QED
      BY <1>3, <2>1, <2>4, <2>5, SeenKept DEF Shape
<1> QED
    BY <1>1, <1>2, <1>3

LEMMA SeenJobStarts ==
    ASSUME Shape, SeenInv, JobStarts
    PROVE  SeenInv'
<1>1. /\ ~job.running
      /\ UNCHANGED <<windowVars, coveredKeys, fetches, stored, moves, reloads, faults, historyVars>>
    BY DEF JobStarts
<1>2. job.wrote = {}
    BY <1>1 DEF Shape, JobOK, NoJob
<1>3. Wrote \subseteq Wrote' \cup {}
    BY <1>1, <1>2, WroteGrows
<1>4. unseen' = unseen /\ UNCHANGED <<windowVars, stored>>
    BY <1>1 DEF historyVars
<1> QED
    BY <1>3, <1>4, SeenKept DEF Shape

LEMMA SeenJobFetches ==
    ASSUME Shape, SeenInv, JobFetches
    PROVE  SeenInv'
<1>1. PICK p \in job.left :
          /\ \/ /\ Store(p)
                /\ job' = [job EXCEPT !.left = @ \ {p}, !.wrote = @ \cup {p}]
             \/ /\ job' = [job EXCEPT !.left = @ \ {p}]
                /\ UNCHANGED <<stored, loads, shown>>
          /\ UNCHANGED <<view, coveredKeys, fetches, moves, reloads, jobs, historyVars>>
    BY DEF JobFetches
<1>2. /\ job.running /\ p \in AllNeeded
      /\ job \in [running : BOOLEAN, left : SUBSET AllNeeded, wrote : SUBSET AllNeeded]
    BY DEF JobFetches, Shape, JobOK
<1>3. unseen' = unseen
    BY <1>1 DEF historyVars
<1>4. CASE Store(p) /\ job' = [job EXCEPT !.left = @ \ {p}, !.wrote = @ \cup {p}]
  <2>1. job'.wrote = job.wrote \cup {p}
    <3>1. job' = [job EXCEPT !.left = job.left \ {p}, !.wrote = job.wrote \cup {p}]
        BY <1>2, <1>4
    <3>2. /\ job.left \ {p} \in SUBSET AllNeeded
          /\ job.wrote \cup {p} \in SUBSET AllNeeded
        BY <1>2
    <3> QED
        BY <1>2, <3>1, <3>2, JobAdvances DEF Shape
  <2>2. Wrote \subseteq Wrote' \cup {}
      BY <1>1, <2>1, WroteGrows
  <2>3. p \in Wrote'
      BY <2>1 DEF Wrote
  <2> QED
      BY <1>1, <1>2, <1>3, <1>4, <2>2, <2>3, SeenStored
<1>5. CASE job' = [job EXCEPT !.left = @ \ {p}] /\ UNCHANGED <<stored, loads, shown>>
  <2>1. job'.wrote = job.wrote
      BY <1>2, <1>5
  <2>2. Wrote \subseteq Wrote' \cup {}
      BY <1>1, <2>1, WroteGrows
  <2>3. UNCHANGED <<windowVars, stored>>
      BY <1>1, <1>5 DEF windowVars
  <2> QED
      BY <1>3, <2>2, <2>3, SeenKept DEF Shape
<1> QED
    BY <1>1, <1>4, <1>5

LEMMA SeenJobThrows ==
    ASSUME Shape, SeenInv, JobThrows
    PROVE  SeenInv'
<1>1. /\ unseen' = unseen \cup job.wrote
      /\ UNCHANGED <<windowVars, coveredKeys, fetches, stored, moves, reloads, jobs, awaited>>
    BY DEF JobThrows
<1>2. job.wrote \subseteq AllNeeded
    BY DEF Shape, JobOK
<1>3. Wrote \subseteq Wrote' \cup unseen'
    BY <1>1, WroteGrows
<1>4. UNCHANGED <<windowVars, stored>>
    BY <1>1
<1> QED
    BY <1>1, <1>2, <1>3, <1>4, SeenKept DEF Shape

LEMMA SeenStep ==
    ASSUME Shape, SeenInv, [Next]_vars
    PROVE  SeenInv'
<1>1. ASSUME NEW v \in Views, ShowRange(v) PROVE SeenInv'
    BY <1>1, SeenRefreshed DEF ShowRange
<1>2. ASSUME OnToday PROVE SeenInv'
  <2>1. TodayView \in Views /\ Needed(TodayView) \in SUBSET AllNeeded
      BY ViewsAssumption, NeededIs
  <2> QED
      BY <1>2, <2>1, SeenRefreshed DEF OnToday
<1>3. ASSUME NEW l \in loads, LoadNext(l) PROVE SeenInv'
    BY <1>3, SeenLoadReads, SeenLoadResult, SeenLoadFailed DEF LoadNext
<1>4. ASSUME NEW v \in Views, CoverageNext(v) PROVE SeenInv'
    BY <1>4, SeenNextCalendar, SeenFetchBucket, SeenCoverageThrows, SeenCoverageResult
       DEF CoverageNext
<1>5. ASSUME JobNext PROVE SeenInv'
  <2>1. ASSUME HandleEventUploadResult PROVE SeenInv'
      BY <2>1, SeenRefreshed DEF HandleEventUploadResult, Shape
  <2> QED
      BY <1>5, <2>1, SeenJobFetches, SeenJobThrows DEF JobNext
<1>6. ASSUME UNCHANGED vars PROVE SeenInv'
  <2>1. Wrote' = Wrote /\ unseen' = unseen /\ UNCHANGED <<windowVars, stored>>
      BY <1>6 DEF vars, Wrote, historyVars
  <2> QED
      BY <2>1, SeenKept DEF Shape
<1> QED
    BY <1>1, <1>2, <1>3, <1>4, <1>5, <1>6, SeenJobStarts DEF Next

(* When no thread is left, the window shows its own range as the threads stored
   it last: a result that was dropped as outdated, or read before a thread
   stored a quarter, has been replaced by a later refresh, unless a thread
   failed after it had stored something, or a read failed.                   *)
THEOREM ShownIsStoredHolds == Spec => []ShownIsStored
<1>1. Shape /\ SeenInv => ShownIsStored
  <2> SUFFICES ASSUME Shape, SeenInv, AtRest
               PROVE  /\ shown.view = view \/ unseen = AllNeeded
                      /\ stored \cap Needed(view) \subseteq shown.seen \cup unseen
      BY DEF ShownIsStored
  <2>1. \A v \in Views : fetches[v].wrote = {}
      BY DEF AtRest, Shape, FetchesOK, FetchOK, Fetching, NoFetch
  <2>2. job.wrote = {}
      BY DEF AtRest, Shape, JobOK, NoJob
  <2>3. Wrote = {}
      BY <2>1, <2>2 DEF Wrote
  <2> QED
      BY <2>3 DEF AtRest, SeenInv
<1>2. Shape /\ SeenInv /\ [Next]_vars => (Shape /\ SeenInv)'
    BY ShapeStep, SeenStep
<1> QED
    BY ShapeInit, SeenInit, <1>1, <1>2, PTL DEF Spec

-----------------------------------------------------------------------------
(***************************************************************************)
(* What the Today button asks for is fetched.                               *)
(***************************************************************************)

LEMMA AwaitedInit == Init => AwaitedInv
BY DEF Init, AwaitedInv

(* A refresh that keeps the threads going: what an overtaken load was to ask for
   is not awaited any more.                                                 *)
LEMMA AwaitedRefreshed ==
    ASSUME Shape, AwaitedInv, NEW v \in Views, NEW forced \in BOOLEAN,
           NEW asked \in SUBSET AllNeeded, asked = {} \/ (forced /\ asked \subseteq Needed(v)),
           RefreshEvents(v, forced, asked), view' = v,
           \A w \in Views, p \in awaited : ToFetch(w, fetches[w], p) => ToFetch(w, fetches'[w], p)
    PROVE  AwaitedInv'
<1>1. Load(v, forced) \in loads'
    BY RefreshShape
<1>2. /\ Load(v, forced).current /\ Load(v, forced).view = v
      /\ (forced => Load(v, forced).forced)
    BY LoadIsOK
<1>3. awaited' = IF \E l \in loads : l.current /\ l.forced THEN asked ELSE awaited \cup asked
    BY DEF RefreshEvents
<1>4. ASSUME NEW p \in awaited'
      PROVE  \/ \E l \in loads' : l.current /\ l.forced /\ p \in Needed(l.view)
             \/ \E w \in Views : ToFetch(w, fetches'[w], p)
  <2>1. CASE p \in asked
      BY <2>1, <1>1, <1>2
  <2>2. CASE p \notin asked
    <3>1. p \in awaited /\ ~\E l \in loads : l.current /\ l.forced
        BY <2>2, <1>3, <1>4
    <3>2. PICK w \in Views : ToFetch(w, fetches[w], p)
        BY <3>1 DEF AwaitedInv
    <3> QED
        BY <3>1, <3>2
  <2> QED
      BY <2>1, <2>2
<1> QED
    BY <1>4 DEF AwaitedInv

(* The loads that are current and forced stay, and so do the threads. *)
LEMMA AwaitedKept ==
    ASSUME AwaitedInv, awaited' \subseteq awaited,
           \A m \in loads : m.current => \E l \in loads' :
               l.view = m.view /\ l.current = m.current /\ l.forced = m.forced,
           \A w \in Views, p \in awaited' : ToFetch(w, fetches[w], p) => ToFetch(w, fetches'[w], p)
    PROVE  AwaitedInv'
<1>1. ASSUME NEW p \in awaited'
      PROVE  \/ \E l \in loads' : l.current /\ l.forced /\ p \in Needed(l.view)
             \/ \E w \in Views : ToFetch(w, fetches'[w], p)
  <2>1. CASE \E l \in loads : l.current /\ l.forced /\ p \in Needed(l.view)
    <3>1. PICK m \in loads : m.current /\ m.forced /\ p \in Needed(m.view)
        BY <2>1
    <3>2. PICK l \in loads' : l.view = m.view /\ l.current = m.current /\ l.forced = m.forced
        BY <3>1
    <3> QED
        BY <3>1, <3>2
  <2>2. CASE \E w \in Views : ToFetch(w, fetches[w], p)
      BY <2>2
  <2> QED
      BY <2>1, <2>2 DEF AwaitedInv
<1> QED
    BY <1>1 DEF AwaitedInv

LEMMA AwaitedLoadReads ==
    ASSUME Shape, AwaitedInv, NEW l \in loads, LoadReads(l)
    PROVE  AwaitedInv'
<1>1. /\ l.left # {} /\ fetches' = fetches /\ awaited' = awaited
    BY DEF LoadReads, historyVars
<1>2. PICK m : /\ loads' = (loads \ {l}) \cup {m}
               /\ m.current = l.current /\ m.forced = l.forced /\ m.view = l.view
  <2> DEFINE c == First(l.left)
             n == [l EXCEPT !.left = @ \ {c},
                            !.seen = @ \cup {p \in stored \cap Needed(l.view) : p[1] = c}]
  <2>1. loads' = (loads \ {l}) \cup {n}
      BY DEF LoadReads
  <2>2. n.current = l.current /\ n.forced = l.forced /\ n.view = l.view
      BY <1>1, ReadIs
  <2> HIDE DEF n
  <2> QED
      BY <2>1, <2>2
<1>3. \A k \in loads : k.current => \E j \in loads' :
          j.view = k.view /\ j.current = k.current /\ j.forced = k.forced
    BY <1>2
<1> QED
    BY <1>1, <1>3, AwaitedKept

LEMMA AwaitedLoadResult ==
    ASSUME Shape, AwaitedInv, NEW l \in loads, LoadResult(l)
    PROVE  AwaitedInv'
<1>1. /\ loads' = loads \ {l}
      /\ \/ ~l.current /\ UNCHANGED <<shown, fetches, awaited>>
         \/ /\ l.current
            /\ EnsureVisibleRangeCoverage(l.view, l.forced)
            /\ awaited' = IF l.forced /\ Fetching(l.view) THEN {} ELSE awaited
    BY DEF LoadResult
<1>2. CASE ~l.current /\ UNCHANGED <<shown, fetches, awaited>>
  <2>1. \A k \in loads : k.current => \E j \in loads' :
            j.view = k.view /\ j.current = k.current /\ j.forced = k.forced
      BY <1>1, <1>2
  <2> QED
      BY <1>2, <2>1, AwaitedKept
<1>3. CASE /\ l.current
           /\ EnsureVisibleRangeCoverage(l.view, l.forced)
           /\ awaited' = IF l.forced /\ Fetching(l.view) THEN {} ELSE awaited
  <2>1. PICK v \in Views : v = l.view
      BY DEF Shape, LoadsOK, LoadOK, LoadType
  <2>2. l.forced \in BOOLEAN
      BY DEF Shape, LoadsOK, LoadOK, LoadType
  <2>3. /\ \A w \in Views : fetches'[w] = fetches[w] \/ ~Fetching(w)
        /\ l.forced => \/ Fetching(v)
                       \/ /\ fetches'[v].running /\ fetches'[v].forced
                          /\ fetches'[v].cals = v.cals /\ fetches'[v].left = <<>>
    <3>1. EnsureVisibleRangeCoverage(v, l.forced)
        BY <1>3, <2>1
    <3> QED
        BY <2>2, <3>1, EnsureShape DEF Shape
  <2>4. \A w \in Views, p \in awaited : ToFetch(w, fetches[w], p) => ToFetch(w, fetches'[w], p)
      BY <2>3 DEF ToFetch, Fetching
  <2>5. \A m \in loads : m.current => m = l
      BY <1>3 DEF Shape, LoadsOK
  <2>6. CASE l.forced /\ Fetching(l.view)
      BY <1>3, <2>6 DEF AwaitedInv
  <2>7. CASE ~(l.forced /\ Fetching(l.view))
    <3>1. awaited' = awaited
        BY <1>3, <2>7
    <3>2. ASSUME NEW p \in awaited
          PROVE  \E w \in Views : ToFetch(w, fetches'[w], p)
      <4>1. CASE \E w \in Views : ToFetch(w, fetches[w], p)
          BY <4>1, <2>4
      <4>2. CASE \E m \in loads : m.current /\ m.forced /\ p \in Needed(m.view)
        <5>1. l.forced /\ p \in Needed(v) /\ ~Fetching(v)
            BY <4>2, <2>1, <2>5, <2>7
        <5>2. /\ fetches'[v].running /\ fetches'[v].forced
              /\ fetches'[v].cals = v.cals /\ fetches'[v].left = <<>>
            BY <5>1, <2>3
        <5>3. p[1] \in v.cals /\ p[2] \in ToSet(Buckets[v])
            BY <5>1, NeededIs
        <5> QED
            BY <5>2, <5>3 DEF ToFetch
      <4> QED
          BY <4>1, <4>2 DEF AwaitedInv
    <3> QED
        BY <3>1, <3>2 DEF AwaitedInv
  <2> QED
      BY <2>6, <2>7
<1> QED
    BY <1>1, <1>2, <1>3

(* The thread goes on to its next calendar; a forced one skips none. *)
LEMMA AwaitedNextCalendar ==
    ASSUME Shape, AwaitedInv, NEW v \in Views, NextCalendar(v)
    PROVE  AwaitedInv'
<1>1. /\ fetches[v].left = <<>> /\ fetches[v].cals # {}
      /\ \/ /\ Skipped(First(fetches[v].cals), v)
            /\ fetches' = [fetches EXCEPT ![v].cals = @ \ {First(fetches[v].cals)}]
         \/ fetches' = [fetches EXCEPT ![v].left = Buckets[v]]
      /\ loads' = loads /\ awaited' = awaited
    BY DEF NextCalendar, windowVars, historyVars
<1>2. fetches = [w \in Views |-> fetches[w]] /\ fetches[v] \in FetchType
    BY DEF Shape, FetchesOK, FetchOK
<1>3. \A w \in Views, p \in awaited : ToFetch(w, fetches[w], p) => ToFetch(w, fetches'[w], p)
  <2>1. CASE /\ Skipped(First(fetches[v].cals), v)
             /\ fetches' = [fetches EXCEPT ![v].cals = @ \ {First(fetches[v].cals)}]
    <3>1. ~fetches[v].forced
        BY <2>1 DEF Skipped
    <3>2. \A w \in Views : w # v => fetches'[w] = fetches[w]
        BY <2>1, <1>2
    <3> QED
        BY <3>1, <3>2 DEF ToFetch
  <2>2. CASE fetches' = [fetches EXCEPT ![v].left = Buckets[v]]
    <3>1. PICK g : g = [fetches[v] EXCEPT !.left = Buckets[v]]
        OBVIOUS
    <3>2. /\ g.running = fetches[v].running /\ g.forced = fetches[v].forced
          /\ g.cals = fetches[v].cals /\ g.left = Buckets[v]
        BY <1>2, <3>1 DEF FetchType
    <3>3. fetches'[v] = g /\ \A w \in Views : w # v => fetches'[w] = fetches[w]
        BY <2>2, <1>2, <3>1
    <3>4. \A p \in awaited : ToFetch(v, fetches[v], p) => ToFetch(v, g, p)
        BY <1>1, <3>2 DEF ToFetch
    <3> QED
        BY <3>3, <3>4
  <2> QED
      BY <1>1, <2>1, <2>2
<1> QED
    BY <1>1, <1>3, AwaitedKept

(* A quarter has been fetched or given up; the others are still to come. *)
LEMMA AwaitedFetchBucket ==
    ASSUME Shape, AwaitedInv, NEW v \in Views, FetchBucket(v)
    PROVE  AwaitedInv'
<1>0. PICK f : f = fetches[v]
    OBVIOUS
<1>1. FetchesOK /\ FetchOK(v, f) /\ f \in FetchType /\ f.left # <<>> /\ f.running
    BY <1>0 DEF Shape, FetchesOK, FetchOK, FetchBucket, Fetching
<1>2. PICK p : p = <<First(f.cals), Head(f.left)>> /\ p \in Needed(v) /\ p \in AllNeeded
    BY <1>1, NextQuarter, NeededIs
<1>3. /\ \/ /\ Store(p)
            /\ fetches' = [fetches EXCEPT ![v] = AfterBucket(f, TRUE, {p})]
         \/ /\ fetches' = [fetches EXCEPT ![v] = AfterBucket(f, FALSE, {})]
            /\ UNCHANGED <<stored, loads, shown>>
      /\ view' = view
      /\ awaited' = awaited \ {p}
    BY <1>0, <1>2 DEF FetchBucket
<1>4. \A m \in loads : \E l \in loads' :
          l.view = m.view /\ l.current = m.current /\ l.forced = m.forced
  <2>1. CASE Store(p)
      BY <2>1, <1>2, <1>3, StoreShape DEF Shape
  <2>2. CASE UNCHANGED <<stored, loads, shown>>
      BY <2>2
  <2> QED
      BY <1>3, <2>1, <2>2
<1>5. PICK ok \in BOOLEAN, w \in SUBSET AllNeeded :
          w \subseteq Needed(v) /\ fetches' = [fetches EXCEPT ![v] = AfterBucket(f, ok, w)]
  <2>1. {p} \in SUBSET AllNeeded /\ {} \in SUBSET AllNeeded
        /\ {p} \subseteq Needed(v) /\ {} \subseteq Needed(v)
      BY <1>2
  <2> QED
      BY <1>3, <2>1
<1>6. PICK g : g = AfterBucket(f, ok, w)
    OBVIOUS
<1>7. /\ (g.running <=> f.running) /\ (g.forced <=> f.forced)
      /\ g.left = Tail(f.left)
      /\ g.left = <<>> => g.cals = f.cals \ {First(f.cals)}
      /\ g.left # <<>> => g.cals = f.cals
    BY <1>1, <1>6, AfterBucketIs
<1>8. FetchOK(v, g)
    BY <1>1, <1>5, <1>6, AfterBucketOK
<1>9. fetches'[v] = g /\ \A x \in Views : x # v => fetches'[x] = fetches[x]
    BY <1>1, <1>5, <1>6, <1>8, FetchReplaced
<1>10. /\ ToSet(f.left) \subseteq ToSet(g.left) \cup {Head(f.left)}
       /\ ToSet(f.left) \subseteq ToSet(Buckets[v])
  <2>1. f.left \in Seq(Quarters)
      BY <1>1 DEF FetchType
  <2> QED
      BY <1>1, <1>7, <2>1, TailIs DEF FetchOK
<1>11. ASSUME NEW q \in awaited', ToFetch(v, f, q)
       PROVE  ToFetch(v, g, q)
  <2>1. q # p /\ q = <<q[1], q[2]>>
      BY <1>3, AllNeededIs DEF Shape
  <2>2. /\ q[1] \in f.cals
        /\ q[1] = First(f.cals) => q[2] \in ToSet(f.left)
        /\ q[1] # First(f.cals) => q[2] \in ToSet(Buckets[v])
        /\ g.running /\ g.forced
      BY <1>1, <1>7, <1>11 DEF ToFetch
  <2>3. q[1] = First(f.cals) => q[2] \in ToSet(g.left)
      BY <1>2, <1>10, <2>1, <2>2
  <2>4. ToSet(<<>>) = {}
      BY DEF ToSet
  <2>5. CASE g.left = <<>>
    <3>1. q[1] # First(f.cals)
        BY <2>3, <2>4, <2>5
    <3> QED
        BY <3>1, <2>2, <2>5, <1>7 DEF ToFetch
  <2>6. CASE g.left # <<>>
      BY <2>2, <2>3, <2>6, <1>7 DEF ToFetch
  <2> QED
      BY <2>5, <2>6
<1>12. \A x \in Views, q \in awaited' : ToFetch(x, fetches[x], q) => ToFetch(x, fetches'[x], q)
    BY <1>0, <1>9, <1>11
<1> QED
    BY <1>3, <1>4, <1>12, AwaitedKept

LEMMA AwaitedStep ==
    ASSUME Shape, AwaitedInv, [Next]_vars
    PROVE  AwaitedInv'
<1>1. ASSUME NEW v \in Views, ShowRange(v) PROVE AwaitedInv'
  <2>1. {} \in SUBSET AllNeeded
      OBVIOUS
  <2> QED
      BY <1>1, <2>1, AwaitedRefreshed DEF ShowRange
<1>2. ASSUME OnToday PROVE AwaitedInv'
  <2>1. TodayView \in Views /\ Needed(TodayView) \in SUBSET AllNeeded
      BY ViewsAssumption, NeededIs
  <2> QED
      BY <1>2, <2>1, AwaitedRefreshed DEF OnToday
<1>3. ASSUME NEW l \in loads, LoadNext(l) PROVE AwaitedInv'
  <2>1. ASSUME LoadFailed(l) PROVE AwaitedInv'
      BY <2>1 DEF LoadFailed, AwaitedInv
  <2> QED
      BY <1>3, <2>1, AwaitedLoadReads, AwaitedLoadResult DEF LoadNext
<1>4. ASSUME NEW v \in Views, CoverageNext(v) PROVE AwaitedInv'
  <2>1. ASSUME CoverageThrows(v) PROVE AwaitedInv'
      BY <2>1 DEF CoverageThrows, AwaitedInv
  <2>2. ASSUME CoverageResult(v) PROVE AwaitedInv'
    <3>1. /\ fetches[v].cals = {}
          /\ fetches' = [fetches EXCEPT ![v] = NoFetch]
          /\ \/ RefreshEvents(view, FALSE, {})
             \/ UNCHANGED <<loads, awaited>>
          /\ view' = view
        BY <2>2 DEF CoverageResult
    <3>2. \A x \in Views : x # v => fetches'[x] = fetches[x]
        BY <3>1, NoFetchOK, FetchReplaced DEF Shape
    <3>3. \A x \in Views, p \in awaited :
              ToFetch(x, fetches[x], p) => ToFetch(x, fetches'[x], p)
        BY <3>1, <3>2 DEF ToFetch
    <3>4. CASE RefreshEvents(view, FALSE, {})
      <4>1. {} \in SUBSET AllNeeded /\ view \in Views
          BY DEF Shape
      <4> QED
          BY <3>1, <3>3, <3>4, <4>1, AwaitedRefreshed
    <3>5. CASE UNCHANGED <<loads, awaited>>
      <4>1. \A m \in loads : m.current => \E l \in loads' :
                l.view = m.view /\ l.current = m.current /\ l.forced = m.forced
          BY <3>5
      <4> QED
          BY <3>3, <3>5, <4>1, AwaitedKept
    <3> QED
        BY <3>1, <3>4, <3>5
  <2> QED
      BY <1>4, <2>1, <2>2, AwaitedNextCalendar, AwaitedFetchBucket DEF CoverageNext
<1>5. ASSUME JobStarts \/ JobThrows PROVE AwaitedInv'
  <2>1. UNCHANGED <<loads, fetches, awaited>>
      BY <1>5 DEF JobStarts, JobThrows, windowVars, historyVars
  <2> QED
      BY <2>1 DEF AwaitedInv
<1>6. ASSUME JobFetches PROVE AwaitedInv'
  <2>1. PICK p \in job.left : Store(p) \/ UNCHANGED <<stored, loads, shown>>
      BY <1>6 DEF JobFetches
  <2>2. /\ p \in AllNeeded /\ view' = view /\ fetches' = fetches /\ awaited' = awaited
      BY <1>6 DEF JobFetches, historyVars, Shape, JobOK
  <2>3. \A m \in loads : \E l \in loads' :
            l.view = m.view /\ l.current = m.current /\ l.forced = m.forced
    <3>1. CASE Store(p)
        BY <3>1, <2>2, StoreShape DEF Shape
    <3>2. CASE UNCHANGED <<stored, loads, shown>>
        BY <3>2
    <3> QED
        BY <2>1, <3>1, <3>2
  <2> QED
      BY <2>2, <2>3, AwaitedKept
<1>7. ASSUME HandleEventUploadResult PROVE AwaitedInv'
  <2>1. {} \in SUBSET AllNeeded /\ view \in Views
      BY DEF Shape
  <2> QED
      BY <1>7, <2>1, AwaitedRefreshed DEF HandleEventUploadResult
<1>8. ASSUME UNCHANGED vars PROVE AwaitedInv'
    BY <1>8 DEF AwaitedInv, vars, windowVars, historyVars
<1> QED
    BY <1>1, <1>2, <1>3, <1>4, <1>5, <1>6, <1>7, <1>8 DEF Next, JobNext

(* Whatever the Today button asked to be fetched again has been asked of the
   server, or another refresh has taken its place: no thread skips it.       *)
THEOREM ReloadHappensHolds == Spec => []ReloadHappens
<1>1. Shape /\ AwaitedInv => ReloadHappens
    BY DEF ReloadHappens, AtRest, AwaitedInv, ToFetch, Fetching
<1>2. Shape /\ AwaitedInv /\ [Next]_vars => (Shape /\ AwaitedInv)'
    BY ShapeStep, AwaitedStep
<1> QED
    BY ShapeInit, AwaitedInit, <1>1, <1>2, PTL DEF Spec

-----------------------------------------------------------------------------
(***************************************************************************)
(* What is never asked for again has been stored.                           *)
(***************************************************************************)

(* Nothing is ever taken out of the database. *)
LEMMA StoredGrows ==
    ASSUME Shape, [Next]_vars
    PROVE  stored \subseteq stored'
<1>1. ASSUME NEW p, Store(p) PROVE stored \subseteq stored'
    BY <1>1 DEF Store
<1>2. ASSUME NEW v \in Views, CoverageNext(v) PROVE stored \subseteq stored'
  <2>1. CASE FetchBucket(v)
      BY <2>1, <1>1 DEF FetchBucket
  <2>2. CASE NextCalendar(v) \/ CoverageThrows(v) \/ CoverageResult(v)
      BY <2>2 DEF NextCalendar, CoverageThrows, CoverageResult
  <2> QED
      BY <1>2, <2>1, <2>2 DEF CoverageNext
<1>3. ASSUME JobFetches PROVE stored \subseteq stored'
    BY <1>3, <1>1 DEF JobFetches
<1> QED
    BY <1>2, <1>3 DEF Next, JobNext, LoadNext, ShowRange, OnToday, LoadReads, LoadResult,
       LoadFailed, JobStarts, JobThrows, HandleEventUploadResult, vars

LEMMA DoneKept ==
    ASSUME NEW v \in Views, NEW f, FetchDone(v, f), stored \subseteq stored'
    PROVE  FetchDone(v, f)'
BY DEF FetchDone

(* It is enough to look at the thread that takes a step. *)
LEMMA FetchInvKept ==
    ASSUME FetchInv, stored \subseteq stored', NEW v \in Views, NEW g,
           fetches'[v] = g, \A w \in Views : w # v => fetches'[w] = fetches[w],
           FetchDone(v, g)'
    PROVE  FetchInv'
<1>1. ASSUME NEW w \in Views, w # v
      PROVE  FetchDone(w, fetches[w])'
  <2>1. PICK f : f = fetches[w]
      OBVIOUS
  <2>2. FetchDone(w, f)
      BY <2>1 DEF FetchInv
  <2>3. FetchDone(w, f)'
      BY <2>2, DoneKept
  <2>4. fetches'[w] = f
      BY <1>1, <2>1
  <2> QED
      BY <2>3, <2>4
<1>2. FetchDone(v, fetches[v])'
    OBVIOUS
<1> QED
    BY <1>1, <1>2 DEF FetchInv

LEMMA FetchInvSame ==
    ASSUME FetchInv, stored \subseteq stored', fetches' = fetches
    PROVE  FetchInv'
<1>1. ASSUME NEW w \in Views
      PROVE  FetchDone(w, fetches[w])'
  <2>1. PICK f : f = fetches[w]
      OBVIOUS
  <2>2. FetchDone(w, f)
      BY <2>1 DEF FetchInv
  <2>3. FetchDone(w, f)'
      BY <2>2, DoneKept
  <2>4. fetches'[w] = f
      BY <2>1
  <2> QED
      BY <2>3, <2>4
<1> QED
    BY <1>1 DEF FetchInv

LEMMA NoFetchDone ==
    ASSUME NEW v \in Views
    PROVE  FetchDone(v, NoFetch)
BY DEF FetchDone, NoFetch

LEMMA FetchInvInit == Init => FetchInv
BY NoFetchDone DEF Init, FetchInv

(* A thread starts with all the calendars of its view before it. *)
LEMMA FetchInvLoadResult ==
    ASSUME Shape, FetchInv, NEW l \in loads, LoadResult(l)
    PROVE  FetchInv'
<1>1. /\ stored' = stored
      /\ \/ fetches' = fetches
         \/ EnsureVisibleRangeCoverage(l.view, l.forced)
    BY DEF LoadResult
<1>2. CASE fetches' = fetches
    BY <1>1, <1>2, FetchInvSame
<1>3. CASE EnsureVisibleRangeCoverage(l.view, l.forced)
  <2>1. PICK v \in Views : v = l.view
      BY DEF Shape, LoadsOK, LoadOK, LoadType
  <2>2. l.forced \in BOOLEAN /\ EnsureVisibleRangeCoverage(v, l.forced)
      BY <2>1, <1>3 DEF Shape, LoadsOK, LoadOK, LoadType
  <2>3. \A w \in Views : fetches'[w] = fetches[w] \/
            (/\ w = v
             /\ fetches'[v].cals = v.cals /\ fetches'[v].left = <<>> /\ fetches'[v].success)
      BY <2>2, EnsureShape DEF Shape
  <2>4. PICK g : g = fetches'[v]
      OBVIOUS
  <2>5. FetchDone(v, g)'
    <3>1. CASE fetches'[v] = fetches[v]
      <4>1. FetchDone(v, g)
          BY <2>4, <3>1 DEF FetchInv
      <4> QED
          BY <4>1, <1>1, DoneKept
    <3>2. CASE g.cals = v.cals /\ g.left = <<>> /\ g.success
        BY <3>2 DEF FetchDone
    <3> QED
        BY <2>3, <2>4, <3>1, <3>2
  <2> QED
      BY <1>1, <2>3, <2>4, <2>5, FetchInvKept
<1> QED
    BY <1>1, <1>2, <1>3

(* A calendar is skipped when its rows cover the range, and then it has all its
   quarters; else they are fetched, and none of them has failed yet.          *)
LEMMA FetchInvNextCalendar ==
    ASSUME Shape, FetchInv, NEW v \in Views, NextCalendar(v)
    PROVE  FetchInv'
<1>0. PICK f : f = fetches[v]
    OBVIOUS
<1>1. /\ f.left = <<>> /\ f.cals # {} /\ stored' = stored
      /\ \/ /\ Skipped(First(f.cals), v)
            /\ fetches' = [fetches EXCEPT ![v].cals = @ \ {First(f.cals)}]
         \/ fetches' = [fetches EXCEPT ![v].left = Buckets[v]]
    BY <1>0 DEF NextCalendar
<1>2. /\ fetches = [w \in Views |-> fetches[w]] /\ f \in FetchType /\ FetchDone(v, f)
      /\ stored \subseteq AllNeeded
    BY <1>0 DEF Shape, FetchesOK, FetchOK, FetchInv
<1>3. First(f.cals) \in Cals
    BY <1>1, <1>2, FirstIsLeast DEF FetchType
<1>4. CASE /\ Skipped(First(f.cals), v)
           /\ fetches' = [fetches EXCEPT ![v].cals = @ \ {First(f.cals)}]
  <2>1. {First(f.cals)} \X ToSet(Buckets[v]) \subseteq stored
      BY <1>2, <1>3, <1>4, CoveredHasAll DEF Skipped
  <2>2. PICK g : g = [f EXCEPT !.cals = f.cals \ {First(f.cals)}]
      OBVIOUS
  <2>3. /\ g.cals = f.cals \ {First(f.cals)} /\ g.left = f.left
        /\ g.running = f.running /\ g.all = f.all /\ g.success = f.success
      BY <1>2, <2>2 DEF FetchType
  <2>4. fetches'[v] = g /\ \A w \in Views : w # v => fetches'[w] = fetches[w]
      BY <1>0, <1>2, <1>4, <2>2
  <2>5. FetchDone(v, g)
      BY <1>1, <1>2, <2>1, <2>3 DEF FetchDone
  <2>6. FetchDone(v, g)'
      BY <1>1, <2>5, DoneKept
  <2> QED
      BY <1>1, <2>4, <2>6, FetchInvKept
<1>5. CASE fetches' = [fetches EXCEPT ![v].left = Buckets[v]]
  <2>1. PICK g : g = [f EXCEPT !.left = Buckets[v]]
      OBVIOUS
  <2>2. /\ g.cals = f.cals /\ g.left = Buckets[v]
        /\ g.running = f.running /\ g.all = f.all /\ g.success = f.success
      BY <1>2, <2>1 DEF FetchType
  <2>3. fetches'[v] = g /\ \A w \in Views : w # v => fetches'[w] = fetches[w]
      BY <1>0, <1>2, <1>5, <2>1
  <2>4. FetchDone(v, g)
      BY <1>1, <1>2, <2>2, BucketsOfView DEF FetchDone
  <2>5. FetchDone(v, g)'
      BY <1>1, <2>4, DoneKept
  <2> QED
      BY <1>1, <2>3, <2>5, FetchInvKept
<1> QED
    BY <1>1, <1>4, <1>5

(* A quarter that has been fetched is stored; after one that has failed, the
   calendar does not succeed, and at its last quarter neither does the thread. *)
LEMMA FetchInvFetchBucket ==
    ASSUME Shape, FetchInv, NEW v \in Views, FetchBucket(v)
    PROVE  FetchInv'
<1>0. PICK f : f = fetches[v]
    OBVIOUS
<1>1. /\ FetchesOK /\ FetchOK(v, f) /\ f \in FetchType /\ f.left # <<>> /\ f.running
      /\ FetchDone(v, f)
    BY <1>0 DEF Shape, FetchesOK, FetchOK, FetchBucket, Fetching, FetchInv
<1>2. PICK p : p = <<First(f.cals), Head(f.left)>> /\ p \in Needed(v) /\ p \in AllNeeded
    BY <1>1, NextQuarter, NeededIs
<1>3. PICK ok \in BOOLEAN, w \in SUBSET AllNeeded :
          /\ w \subseteq Needed(v)
          /\ fetches' = [fetches EXCEPT ![v] = AfterBucket(f, ok, w)]
          /\ stored \subseteq stored'
          /\ ok => p \in stored'
  <2>1. \/ /\ Store(p)
           /\ fetches' = [fetches EXCEPT ![v] = AfterBucket(f, TRUE, {p})]
        \/ /\ fetches' = [fetches EXCEPT ![v] = AfterBucket(f, FALSE, {})]
           /\ stored' = stored
      BY <1>0, <1>2 DEF FetchBucket
  <2>2. {p} \in SUBSET AllNeeded /\ {} \in SUBSET AllNeeded
        /\ {p} \subseteq Needed(v) /\ {} \subseteq Needed(v)
      BY <1>2
  <2>3. CASE /\ Store(p)
             /\ fetches' = [fetches EXCEPT ![v] = AfterBucket(f, TRUE, {p})]
    <3>1. stored \subseteq stored' /\ p \in stored'
        BY <2>3 DEF Store
    <3> QED
        BY <2>2, <2>3, <3>1
  <2>4. CASE /\ fetches' = [fetches EXCEPT ![v] = AfterBucket(f, FALSE, {})]
             /\ stored' = stored
      BY <2>2, <2>4
  <2> QED
      BY <2>1, <2>3, <2>4
<1>4. PICK g : g = AfterBucket(f, ok, w)
    OBVIOUS
<1>5. /\ (g.running <=> f.running)
      /\ g.left = Tail(f.left)
      /\ g.left = <<>> => /\ g.cals = f.cals \ {First(f.cals)}
                          /\ g.success
                          /\ g.all => f.all /\ f.success /\ ok
      /\ g.left # <<>> => /\ g.cals = f.cals
                          /\ g.success => f.success /\ ok
                          /\ g.all => f.all
    BY <1>1, <1>4, AfterBucketIs
<1>6. FetchOK(v, g)
    BY <1>1, <1>3, <1>4, AfterBucketOK
<1>7. fetches'[v] = g /\ \A x \in Views : x # v => fetches'[x] = fetches[x]
    BY <1>1, <1>3, <1>4, <1>6, FetchReplaced
<1>8. /\ ToSet(f.left) \subseteq ToSet(g.left) \cup {Head(f.left)}
      /\ ToSet(<<>>) = {}
  <2>1. f.left \in Seq(Quarters)
      BY <1>1 DEF FetchType
  <2>2. ToSet(f.left) \subseteq ToSet(g.left) \cup {Head(f.left)}
      BY <1>1, <1>5, <2>1, TailIs
  <2>3. ToSet(<<>>) = {}
      BY DEF ToSet
  <2> QED
      BY <2>2, <2>3
<1>9. f.success /\ ok =>
          \A b \in ToSet(Buckets[v]) : b \in ToSet(g.left) \/ <<First(f.cals), b>> \in stored'
  <2>1. ASSUME f.success, ok, NEW b \in ToSet(Buckets[v])
        PROVE  b \in ToSet(g.left) \/ <<First(f.cals), b>> \in stored'
    <3>1. b \in ToSet(f.left) \/ <<First(f.cals), b>> \in stored
        BY <1>1, <2>1 DEF FetchDone
    <3> QED
        BY <3>1, <2>1, <1>2, <1>3, <1>8
  <2> QED
      BY <2>1
<1>10. FetchDone(v, g)'
  <2>1. CASE g.left = <<>>
    <3>1. ASSUME g.all, NEW c \in v.cals \ g.cals
          PROVE  {c} \X ToSet(Buckets[v]) \subseteq stored'
      <4>1. f.all /\ f.success /\ ok /\ g.cals = f.cals \ {First(f.cals)}
          BY <2>1, <3>1, <1>5
      <4>2. CASE c = First(f.cals)
        <5>1. \A b \in ToSet(Buckets[v]) : <<c, b>> \in stored'
            BY <4>1, <4>2, <1>8, <1>9, <2>1
        <5> QED
            BY <5>1
      <4>3. CASE c # First(f.cals)
        <5>1. {c} \X ToSet(Buckets[v]) \subseteq stored
            BY <4>1, <4>3, <3>1, <1>1 DEF FetchDone
        <5> QED
            BY <5>1, <1>3
      <4> QED
          BY <4>2, <4>3
    <3> QED
        BY <2>1, <3>1, <1>5 DEF FetchDone
  <2>2. CASE g.left # <<>>
    <3>1. g.cals = f.cals /\ (g.success => f.success /\ ok) /\ (g.all => f.all)
        BY <2>2, <1>5
    <3>2. ASSUME g.all, NEW c \in v.cals \ g.cals
          PROVE  {c} \X ToSet(Buckets[v]) \subseteq stored'
      <4>1. {c} \X ToSet(Buckets[v]) \subseteq stored
          BY <3>1, <3>2, <1>1 DEF FetchDone
      <4> QED
          BY <4>1, <1>3
    <3> QED
        BY <2>2, <3>1, <3>2, <1>9 DEF FetchDone
  <2> QED
      BY <2>1, <2>2
<1> QED
    BY <1>3, <1>7, <1>10, FetchInvKept

LEMMA FetchInvCoverageThrows ==
    ASSUME Shape, FetchInv, NEW v \in Views, CoverageThrows(v)
    PROVE  FetchInv'
<1>1. /\ Fetching(v) /\ stored' = stored
      /\ fetches' = [fetches EXCEPT ![v].error = TRUE, ![v].all = FALSE,
                                    ![v].cals = {}, ![v].left = <<>>, ![v].success = TRUE]
    BY DEF CoverageThrows
<1>2. PICK g : /\ fetches' = [fetches EXCEPT ![v] = g] /\ FetchOK(v, g)
               /\ ~g.all /\ g.left = <<>> /\ g.success
    BY <1>1, ThrownIs DEF Shape
<1>3. fetches'[v] = g /\ \A w \in Views : w # v => fetches'[w] = fetches[w]
    BY <1>2, FetchReplaced DEF Shape
<1>4. FetchDone(v, g)'
    BY <1>2 DEF FetchDone
<1> QED
    BY <1>1, <1>3, <1>4, FetchInvKept

LEMMA FetchInvCoverageResult ==
    ASSUME Shape, FetchInv, NEW v \in Views, CoverageResult(v)
    PROVE  FetchInv'
<1>1. stored' = stored /\ fetches' = [fetches EXCEPT ![v] = NoFetch]
    BY DEF CoverageResult
<1>2. PICK g : g = NoFetch
    OBVIOUS
<1>3. fetches'[v] = g /\ \A w \in Views : w # v => fetches'[w] = fetches[w]
    BY <1>1, <1>2, NoFetchOK, FetchReplaced DEF Shape
<1>4. FetchDone(v, g)'
  <2>1. FetchDone(v, g)
      BY <1>2, NoFetchDone
  <2> QED
      BY <1>1, <2>1, DoneKept
<1> QED
    BY <1>1, <1>3, <1>4, FetchInvKept

LEMMA FetchInvStep ==
    ASSUME Shape, FetchInv, [Next]_vars
    PROVE  FetchInv'
<1>1. ASSUME fetches' = fetches PROVE FetchInv'
    BY <1>1, StoredGrows, FetchInvSame
<1>2. ASSUME NEW l \in loads, LoadNext(l) PROVE FetchInv'
    BY <1>1, <1>2, FetchInvLoadResult DEF LoadNext, LoadReads, LoadFailed
<1>3. ASSUME NEW v \in Views, CoverageNext(v) PROVE FetchInv'
    BY <1>3, FetchInvNextCalendar, FetchInvFetchBucket, FetchInvCoverageThrows,
       FetchInvCoverageResult DEF CoverageNext
<1>4. ASSUME (\E v \in Views : ShowRange(v)) \/ OnToday \/ JobStarts \/ JobNext
             \/ UNCHANGED vars
      PROVE  FetchInv'
    BY <1>1, <1>4 DEF ShowRange, OnToday, JobStarts, JobNext, JobFetches, JobThrows,
       HandleEventUploadResult, vars
<1> QED
    BY <1>2, <1>3, <1>4 DEF Next

LEMMA CoveredStep ==
    ASSUME Shape, FetchInv, CoveredIsStored, [Next]_vars
    PROVE  CoveredIsStored'
<1>1. stored \subseteq stored'
    BY StoredGrows
<1>2. ASSUME coveredKeys' = coveredKeys PROVE CoveredIsStored'
    BY <1>1, <1>2 DEF CoveredIsStored, Needed, NeededBy
<1>3. ASSUME NEW v \in Views, CoverageResult(v) PROVE CoveredIsStored'
  <2>1. /\ fetches[v].running /\ fetches[v].cals = {}
        /\ coveredKeys' = IF fetches[v].all THEN coveredKeys \cup {v} ELSE coveredKeys
      BY <1>3 DEF CoverageResult, Fetching
  <2>2. fetches[v].all => Needed(v) \subseteq stored
    <3>1. FetchDone(v, fetches[v])
        BY DEF FetchInv
    <3>2. fetches[v].all => \A c \in v.cals : {c} \X ToSet(Buckets[v]) \subseteq stored
        BY <2>1, <3>1 DEF FetchDone
    <3> QED
        BY <3>2, NeededIs
  <2>3. \A w \in coveredKeys' : Needed(w) \subseteq stored
      BY <2>1, <2>2 DEF CoveredIsStored
  <2> QED
      BY <1>1, <2>3 DEF CoveredIsStored, Needed, NeededBy
<1>4. ASSUME NEW v \in Views, CoverageNext(v) PROVE CoveredIsStored'
    BY <1>2, <1>3, <1>4 DEF CoverageNext, NextCalendar, FetchBucket, CoverageThrows
<1>5. ASSUME \/ \E v \in Views : ShowRange(v)
             \/ OnToday
             \/ \E l \in loads : LoadNext(l)
             \/ JobStarts
             \/ JobNext
             \/ UNCHANGED vars
      PROVE  CoveredIsStored'
    BY <1>2, <1>5 DEF ShowRange, OnToday, LoadNext, LoadReads, LoadResult, LoadFailed,
       JobStarts, JobNext, JobFetches, JobThrows, HandleEventUploadResult, vars
<1> QED
    BY <1>4, <1>5 DEF Next

(* A range that the window will not ask for again (coveredRangeKeys_) is in the
   database for every calendar on show: all of its quarters were fetched without
   an error, by this thread or by those whose rows made it skip the calendar.  *)
THEOREM CoveredIsStoredHolds == Spec => []CoveredIsStored
<1>1. Init => CoveredIsStored
    BY DEF Init, CoveredIsStored
<1>2. Shape /\ FetchInv /\ CoveredIsStored /\ [Next]_vars => (Shape /\ FetchInv /\ CoveredIsStored)'
    BY ShapeStep, FetchInvStep, CoveredStep
<1> QED
    BY ShapeInit, FetchInvInit, <1>1, <1>2, PTL DEF Spec

(* isRangeCovered answers exactly for the ranges of which every moment lies in a
   stored row: the rows it follows touch each other, and it sees every gap.   *)
THEOREM CoverageExactHolds == Spec => []CoverageExact
<1>1. Shape => CoverageExact
  <2> SUFFICES ASSUME Shape, NEW c \in Cals, NEW v \in Views
               PROVE  /\ {c} \X ToSet(Buckets[v]) \subseteq stored
                             => IsRangeCovered(c, v.from, v.to)
                      /\ IsRangeCovered(c, v.from, v.to) <=>
                             \A t \in v.from..(v.to - 1) :
                                 \E p \in stored : p[1] = c /\ t \in p[2][1]..(p[2][2] - 1)
      BY DEF CoverageExact
  <2>1. stored \subseteq AllNeeded
      BY DEF Shape
  <2>2. {c} \X ToSet(Buckets[v]) \subseteq stored => IsRangeCovered(c, v.from, v.to)
      BY <2>1, CoveredHasAll
  <2> QED
      BY <2>1, <2>2, CoveredExactly
<1> QED
    BY ShapeInductive, <1>1, PTL
=============================================================================
