-------------------------- MODULE UserStatesProofs --------------------------
(***************************************************************************)
(* How far a user's series can overshoot MaxSeriesPerUser, for any number  *)
(* of pushers, flushers and metrics; what the inverted index does to its   *)
(* lists; and that a new state is of an object that nobody uses.           *)
(***************************************************************************)
EXTENDS UserInvariants, FiniteSetTheorems, TLAPS

(* A leaf is a first-order one, unless it says that it needs arithmetic.   *)
USE ZenonT(30)

-----------------------------------------------------------------------------
(* The lists of the inverted index. *)

Sorted(fps) == fps \in Seq(Nat) /\ \A i, j \in 1..Len(fps) : i < j => fps[i] < fps[j]

(* sort.Search on a sorted list: what is smaller comes before the place    *)
(* found.                                                                  *)
LEMMA SearchSplits ==
  ASSUME NEW fps, Sorted(fps), NEW fp \in Nat
  PROVE  /\ search(fps, fp) \in 1..(Len(fps) + 1)
         /\ \A j \in 1..Len(fps) : fps[j] < fp <=> j < search(fps, fp)
<1> DEFINE n == Len(fps)
           D == {j \in 1..n : fps[j] < fp}
           c == Cardinality(D)
<1>1. n \in Nat /\ DOMAIN fps = 1..n /\ \A j \in 1..n : fps[j] \in Nat
  BY SMTT(20) DEF Sorted
<1>2. search(fps, fp) = c + 1
  BY <1>1 DEF search
<1>3. ASSUME NEW j \in D PROVE 1..j \subseteq D
  BY <1>1, SMTT(20) DEF Sorted
<1>4. D \subseteq 1..n
  OBVIOUS
<1>5. ASSUME NEW k \in Nat PROVE IsFiniteSet(1..k) /\ Cardinality(1..k) = k
  <2>1. IsFiniteSet(1..k) /\ Cardinality(1..k) = IF 1 > k THEN 0 ELSE k - 1 + 1
    BY FS_Interval, SMTT(20)
  <2> QED
    BY <2>1, SMTT(20)
<1>6. IsFiniteSet(D) /\ c \in Nat /\ c <= n
  <2> HIDE DEF D
  <2>1. IsFiniteSet(1..n) /\ Cardinality(1..n) = n
    BY <1>1, <1>5
  <2>2. IsFiniteSet(D) /\ Cardinality(D) <= Cardinality(1..n)
    BY <1>4, <2>1, FS_Subset
  <2> QED
    BY <2>1, <2>2, FS_CardinalityType
<1>7. ASSUME NEW j \in 1..n PROVE j \in D <=> j <= c
  <2> HIDE DEF D
  <2>1. ASSUME j \in D PROVE j <= c
    <3>1. IsFiniteSet(1..j) /\ Cardinality(1..j) = j
      BY <1>1, <1>5, SMTT(20)
    <3>2. Cardinality(1..j) <= Cardinality(D)
      BY <1>3, <1>6, <2>1, FS_Subset
    <3> QED
      BY <3>1, <3>2
  <2>2. ASSUME j \notin D PROVE ~(j <= c)
    <3>1. ASSUME NEW i \in D PROVE i \in 1..(j - 1)
      <4>1. i \in 1..n /\ ~(j \in 1..i)
        BY <1>3, <1>4, <2>2, <3>1
      <4> QED
        BY <1>1, <4>1, SMTT(20)
    <3>2. j - 1 \in Nat
      BY <1>1, SMTT(20)
    <3>3. IsFiniteSet(1..(j - 1)) /\ Cardinality(1..(j - 1)) = j - 1
      BY <1>5, <3>2
    <3>4. D \subseteq 1..(j - 1)
      BY <3>1
    <3>5. Cardinality(D) <= Cardinality(1..(j - 1))
      BY <3>3, <3>4, FS_Subset
    <3> QED
      BY <1>6, <3>2, <3>3, <3>5, SMTT(20)
  <2> QED
    BY <2>1, <2>2
<1>8. \A j \in 1..n : fps[j] < fp <=> j <= c
  BY <1>7 DEF D
<1> HIDE DEF c, D
<1> QED
  BY <1>1, <1>2, <1>6, <1>8, SMTT(20)

(* The list from some place on.                                            *)
LEMMA ListFrom ==
  ASSUME NEW fps \in Seq(Nat), NEW i \in 1..(Len(fps) + 1)
  PROVE  LET b == SubSeq(fps, i, Len(fps))
         IN b \in Seq(Nat) /\ Len(b) = Len(fps) + 1 - i /\ \A j \in i..Len(fps) : b[j - i + 1] = fps[j]
<1> DEFINE n == Len(fps)
           b == SubSeq(fps, i, n)
<1>1. n \in Nat /\ i \in Nat /\ i >= 1 /\ i <= n + 1 /\ \A j \in 1..n : fps[j] \in Nat
  BY SMTT(20)
<1>2. Len(b) = n + 1 - i
  BY <1>1, SMTT(20)
<1>3. ASSUME NEW j \in i..n PROVE b[j - i + 1] = fps[j]
  <2>1. j - i + 1 \in 1..(n - i + 1) /\ i + (j - i + 1) - 1 = j
    BY <1>1, SMTT(20)
  <2> QED
    BY <1>1, <2>1, SMTT(20)
<1>4. b \in Seq(Nat)
  BY <1>1, SMTT(20)
<1> QED
  BY <1>2, <1>3, <1>4

(* The part of a list below a position.                                    *)
LEMMA ListTo ==
  ASSUME NEW fps \in Seq(Nat), NEW i \in 1..(Len(fps) + 1)
  PROVE  LET a == SubSeq(fps, 1, i - 1)
         IN a \in Seq(Nat) /\ Len(a) = i - 1 /\ \A j \in 1..(i - 1) : a[j] = fps[j]
BY SMTT(20)

(* Two lists, one after the other.                                         *)
LEMMA ListJoin ==
  ASSUME NEW a \in Seq(Nat), NEW b \in Seq(Nat)
  PROVE  /\ a \o b \in Seq(Nat) /\ Len(a \o b) = Len(a) + Len(b)
         /\ \A j \in 1..Len(a) : (a \o b)[j] = a[j]
         /\ \A j \in 1..Len(b) : (a \o b)[Len(a) + j] = b[j]
BY SMTT(20)

(* add puts a new fingerprint in its place.                                *)
LEMMA AddInserts ==
  ASSUME NEW fps, Sorted(fps), NEW fp \in Nat, fp \notin ToSet(fps)
  PROVE  LET g == Around(fps, search(fps, fp), 0, <<fp>>) IN Sorted(g) /\ ToSet(g) = ToSet(fps) \cup {fp}
<1> DEFINE n == Len(fps)
           g == Around(fps, search(fps, fp), 0, <<fp>>)
<1>1. n \in Nat /\ fps \in Seq(Nat) /\ DOMAIN fps = 1..n /\ \A j \in 1..n : fps[j] \in Nat
  BY SMTT(20) DEF Sorted
<1>2. PICK i \in 1..(n + 1) : i = search(fps, fp) /\ \A j \in 1..n : fps[j] < fp <=> j < i
  BY SearchSplits
<1>3. \A j \in 1..n : fps[j] # fp
  BY <1>1 DEF ToSet
<1>4. /\ g \in Seq(Nat) /\ Len(g) = n + 1 /\ g[i] = fp
      /\ \A k \in 1..(i - 1) : g[k] = fps[k]
      /\ \A k \in i..n : g[k + 1] = fps[k]
  <2> DEFINE a == SubSeq(fps, 1, i - 1)
             b == SubSeq(fps, i, n)
             h == a \o <<fp>>
  <2>1. a \in Seq(Nat) /\ Len(a) = i - 1 /\ \A k \in 1..(i - 1) : a[k] = fps[k]
    BY <1>1, <1>2, ListTo
  <2>2. b \in Seq(Nat) /\ Len(b) = n + 1 - i /\ \A k \in i..n : b[k - i + 1] = fps[k]
    BY <1>1, <1>2, ListFrom
  <2>3. g = h \o b
    <3>1. i + 0 = i
      BY <1>2, SMTT(20)
    <3> QED
      BY <1>2, <3>1 DEF Around
  <2> HIDE DEF a, b
  <2>4. <<fp>> \in Seq(Nat) /\ Len(<<fp>>) = 1 /\ <<fp>>[1] = fp
    BY SMTT(20)
  <2>5. h \in Seq(Nat) /\ Len(h) = i /\ h[i] = fp /\ \A k \in 1..(i - 1) : h[k] = fps[k]
    <3>1. /\ h \in Seq(Nat) /\ Len(h) = Len(a) + Len(<<fp>>)
          /\ \A k \in 1..Len(a) : h[k] = a[k]
          /\ h[Len(a) + 1] = fp
      <4>1. /\ h \in Seq(Nat) /\ Len(h) = Len(a) + Len(<<fp>>)
            /\ \A k \in 1..Len(a) : h[k] = a[k]
            /\ \A k \in 1..Len(<<fp>>) : h[Len(a) + k] = <<fp>>[k]
        BY <2>1, <2>4, ListJoin
      <4>2. 1 \in 1..Len(<<fp>>)
        BY ONLY <2>4, SMTT(20)
      <4> HIDE DEF h
      <4> QED
        BY <2>4, <4>1, <4>2
    <3> HIDE DEF h
    <3> QED
      BY <1>2, <2>1, <2>4, <3>1, SMTT(20)
  <2> HIDE DEF h, g
  <2>6. /\ g \in Seq(Nat) /\ Len(g) = Len(h) + Len(b)
        /\ \A k \in 1..Len(h) : g[k] = h[k]
        /\ \A k \in 1..Len(b) : g[Len(h) + k] = b[k]
    BY <2>2, <2>3, <2>5, ListJoin
  <2>7. ASSUME NEW k \in i..n PROVE g[k + 1] = fps[k]
    <3>a. Len(b) = n + 1 - i /\ Len(h) = i
      BY <2>2, <2>5
    <3>b. k - i + 1 \in 1..(n + 1 - i) /\ i + (k - i + 1) = k + 1
      <4>1. n \in Nat /\ i \in 1..(n + 1) /\ k \in i..n
        BY <1>1
      <4> HIDE DEF n
      <4> QED
        BY <4>1, SMTT(20)
    <3>1. k - i + 1 \in 1..Len(b) /\ Len(h) + (k - i + 1) = k + 1
      BY <3>a, <3>b
    <3>2. PICK x \in 1..Len(b) : x = k - i + 1 /\ Len(h) + x = k + 1
      BY <3>1
    <3>3. g[Len(h) + x] = b[x]
      BY <2>6
    <3>4. g[k + 1] = b[k - i + 1]
      BY <3>2, <3>3
    <3> QED
      BY <2>2, <3>4
  <2>8. Len(g) = n + 1
    BY <1>1, <1>2, <2>2, <2>5, <2>6, SMTT(20)
  <2>9. g[i] = fp /\ \A k \in 1..(i - 1) : g[k] = fps[k]
    <3>1. n \in Nat /\ i \in 1..(n + 1)
      BY <1>1
    <3>2. i \in 1..i /\ \A k \in 1..(i - 1) : k \in 1..i
      <4> HIDE DEF n
      <4> QED
        BY <3>1, SMTT(20)
    <3>3. \A k \in 1..i : g[k] = h[k]
      BY <2>5, <2>6
    <3> QED
      BY <2>5, <3>2, <3>3
  <2> QED
    BY <2>6, <2>7, <2>8, <2>9
<1> HIDE DEF g
<1>5. Sorted(g)
  <2> SUFFICES ASSUME NEW j \in 1..(n + 1), NEW k \in 1..(n + 1), j < k PROVE g[j] < g[k]
    BY <1>4 DEF Sorted
  <2>1. \A x, y \in 1..n : x < y => fps[x] < fps[y]
    BY DEF Sorted
  <2>2. CASE k <= i
    <3>a. j \in 1..(i - 1) /\ j \in 1..n /\ j < i
      BY <1>1, <1>2, <2>2, SMTT(20)
    <3>1. g[j] = fps[j] /\ fps[j] < fp
      BY <1>2, <1>4, <3>a
    <3>2. CASE k = i
      BY <1>4, <3>1, <3>2
    <3>3. CASE k # i
      <4>1. k \in 1..(i - 1) /\ k \in 1..n
        BY <1>1, <1>2, <2>2, <3>3, SMTT(20)
      <4>2. g[k] = fps[k]
        BY <1>4, <4>1
      <4> QED
        BY <2>1, <3>a, <3>1, <4>1, <4>2
    <3> QED
      BY <3>2, <3>3
  <2>3. CASE ~(k <= i)
    <3>1. k - 1 \in i..n /\ k - 1 \in 1..n /\ k - 1 + 1 = k /\ ~(k - 1 < i)
      BY <1>1, <1>2, <2>3, SMTT(20)
    <3>2. g[k] = fps[k - 1] /\ ~(fps[k - 1] < fp) /\ fps[k - 1] # fp /\ fps[k - 1] \in Nat
      BY <1>1, <1>2, <1>3, <1>4, <3>1
    <3>3. fp < g[k]
      BY <3>2, SMTT(20)
    <3>4. CASE j = i
      BY <1>4, <3>3, <3>4
    <3>5. CASE j < i
      <4>1. j \in 1..(i - 1) /\ j \in 1..n /\ j < k - 1
        BY <1>1, <1>2, <3>1, <3>5, SMTT(20)
      <4>2. g[j] = fps[j]
        BY <1>4, <4>1
      <4> QED
        BY <2>1, <3>1, <3>2, <4>1, <4>2
    <3>6. CASE j > i
      <4>1. j - 1 \in i..n /\ j - 1 \in 1..n /\ j - 1 + 1 = j /\ j - 1 < k - 1
        BY <1>1, <1>2, <3>6, SMTT(20)
      <4>2. g[j] = fps[j - 1]
        BY <1>4, <4>1
      <4> QED
        BY <2>1, <3>1, <3>2, <4>1, <4>2
    <3> QED
      BY <1>2, <3>4, <3>5, <3>6, SMTT(20)
  <2> QED
    BY <2>2, <2>3
<1>6. ToSet(g) = ToSet(fps) \cup {fp}
  <2>1. DOMAIN g = 1..(n + 1) /\ i \in 1..(n + 1)
    BY <1>2, <1>4, SMTT(20)
  <2>2. ASSUME NEW k \in 1..(n + 1) PROVE k = i \/ \E j \in 1..n : g[k] = fps[j]
    <3>1. CASE k < i
      <4>1. k \in 1..(i - 1) /\ k \in 1..n
        BY <1>1, <1>2, <3>1, SMTT(20)
      <4> QED
        BY <1>4, <4>1
    <3>2. CASE k > i
      <4>1. k - 1 \in i..n /\ k - 1 \in 1..n /\ k - 1 + 1 = k
        BY <1>1, <1>2, <3>2, SMTT(20)
      <4> QED
        BY <1>4, <4>1
    <3> QED
      BY <1>2, <3>1, <3>2, SMTT(20)
  <2>3. ASSUME NEW j \in 1..n PROVE \E k \in 1..(n + 1) : g[k] = fps[j]
    <3>1. CASE j < i
      <4>1. j \in 1..(i - 1) /\ j \in 1..(n + 1)
        BY <1>1, <1>2, <3>1, SMTT(20)
      <4> QED
        BY <1>4, <4>1
    <3>2. CASE ~(j < i)
      <4>1. j \in i..n /\ j + 1 \in 1..(n + 1)
        BY <1>1, <1>2, <3>2, SMTT(20)
      <4> QED
        BY <1>4, <4>1
    <3> QED
      BY <3>1, <3>2
  <2>4. ToSet(fps) = {fps[j] : j \in 1..n} /\ ToSet(g) = {g[k] : k \in 1..(n + 1)}
    BY <1>1, <2>1 DEF ToSet
  <2>5. ASSUME NEW x \in ToSet(g) PROVE x \in ToSet(fps) \cup {fp}
    <3>1. PICK k \in 1..(n + 1) : x = g[k]
      BY <2>4
    <3>2. g[i] = fp
      BY <1>4
    <3> QED
      BY <2>2, <2>4, <3>1, <3>2
  <2>6. ASSUME NEW x \in ToSet(fps) PROVE x \in ToSet(g)
    BY <2>3, <2>4
  <2>7. fp \in ToSet(g)
    BY <1>4, <2>1, <2>4
  <2> QED
    BY <2>5, <2>6, <2>7
<1> QED
  BY <1>5, <1>6 DEF g

(* delete takes out the fingerprint, if it is there.                       *)
LEMMA DeleteRemoves ==
  ASSUME NEW fps, Sorted(fps), NEW fp \in ToSet(fps)
  PROVE  LET g == Around(fps, search(fps, fp), 1, << >>) IN Sorted(g) /\ ToSet(g) = ToSet(fps) \ {fp}
<1> DEFINE n == Len(fps)
           g == Around(fps, search(fps, fp), 1, << >>)
<1>1. n \in Nat /\ fps \in Seq(Nat) /\ DOMAIN fps = 1..n /\ \A j \in 1..n : fps[j] \in Nat
  BY SMTT(20) DEF Sorted
<1>a. \A x, y \in 1..n : x < y => fps[x] < fps[y]
  BY DEF Sorted
<1>2. PICK i \in 1..n : i = search(fps, fp) /\ fps[i] = fp
  <2>1. PICK j \in 1..n : fps[j] = fp
    BY <1>1 DEF ToSet
  <2>2. PICK i \in 1..(n + 1) : i = search(fps, fp) /\ \A k \in 1..n : fps[k] < fp <=> k < i
    BY <1>1, <2>1, SearchSplits
  <2>3. ~(j < i)
    BY <1>1, <2>1, <2>2, SMTT(20)
  <2>4. i \in 1..n
    BY <1>1, <2>2, <2>3, SMTT(20)
  <2>5. ~(i < j)
    <3> SUFFICES ASSUME i < j PROVE FALSE
      OBVIOUS
    <3>1. fps[i] < fp
      BY <1>a, <2>1, <2>4
    <3> QED
      BY <2>2, <2>4, <3>1, SMTT(20)
  <2>6. i = j
    BY <2>1, <2>3, <2>4, <2>5, SMTT(20)
  <2> QED
    BY <2>1, <2>2, <2>6
<1>3. /\ g \in Seq(Nat) /\ Len(g) = n - 1
      /\ \A k \in 1..(i - 1) : g[k] = fps[k]
      /\ \A k \in (i + 1)..n : g[k - 1] = fps[k]
  <2> DEFINE a == SubSeq(fps, 1, i - 1)
             b == SubSeq(fps, i + 1, n)
  <2>1. a \in Seq(Nat) /\ Len(a) = i - 1 /\ \A k \in 1..(i - 1) : a[k] = fps[k]
    BY <1>1, <1>2, ListTo, SMTT(20)
  <2>2. b \in Seq(Nat) /\ Len(b) = n + 1 - (i + 1) /\ \A k \in (i + 1)..n : b[k - (i + 1) + 1] = fps[k]
    <3>1. i + 1 \in 1..(n + 1)
      BY <1>1, <1>2, SMTT(20)
    <3> HIDE DEF n
    <3> QED
      BY <1>1, <3>1, ListFrom DEF n
  <2> HIDE DEF a, b
  <2>3. g = a \o b
    <3>1. g = a \o << >> \o b
      BY <1>2 DEF Around, a, b
    <3>2. a \o << >> = a
      BY <2>1, SMTT(20)
    <3> QED
      BY <3>1, <3>2
  <2> HIDE DEF g
  <2>4. /\ g \in Seq(Nat) /\ Len(g) = Len(a) + Len(b)
        /\ \A k \in 1..Len(a) : g[k] = a[k]
        /\ \A k \in 1..Len(b) : g[Len(a) + k] = b[k]
    BY <2>1, <2>2, <2>3, ListJoin
  <2>5. ASSUME NEW k \in (i + 1)..n PROVE g[k - 1] = fps[k]
    <3>a. Len(b) = n + 1 - (i + 1) /\ Len(a) = i - 1
      BY <2>1, <2>2
    <3>b. k - (i + 1) + 1 \in 1..(n + 1 - (i + 1)) /\ i - 1 + (k - (i + 1) + 1) = k - 1
      <4>1. n \in Nat /\ i \in 1..n /\ k \in (i + 1)..n
        BY <1>1
      <4> HIDE DEF n
      <4> QED
        BY <4>1, SMTT(20)
    <3>1. k - (i + 1) + 1 \in 1..Len(b) /\ Len(a) + (k - (i + 1) + 1) = k - 1
      BY <3>a, <3>b
    <3>2. g[k - 1] = b[k - (i + 1) + 1]
      BY <2>4, <3>1
    <3> QED
      BY <2>2, <3>2
  <2>6. Len(g) = n - 1
    <3>1. n \in Nat /\ i \in 1..n
      BY <1>1
    <3>2. Len(g) = i - 1 + (n + 1 - (i + 1))
      BY <2>1, <2>2, <2>4
    <3> HIDE DEF n
    <3> QED
      BY <3>1, <3>2, SMTT(20)
  <2> QED
    BY <2>1, <2>4, <2>5, <2>6
<1> HIDE DEF g
(* A place of the new list has that of the old one, in the same order.     *)
<1>4. ASSUME NEW k \in 1..(n - 1)
      PROVE  \/ k < i /\ k \in 1..n /\ g[k] = fps[k]
             \/ k >= i /\ k + 1 \in 1..n /\ g[k] = fps[k + 1]
  <2>1. CASE k < i
    <3>1. k \in 1..(i - 1) /\ k \in 1..n
      BY <1>1, <1>2, <2>1, SMTT(20)
    <3> QED
      BY <1>3, <2>1, <3>1
  <2>2. CASE k >= i
    <3>1. k + 1 \in (i + 1)..n /\ k + 1 \in 1..n /\ k + 1 - 1 = k
      BY <1>1, <1>2, <2>2, SMTT(20)
    <3> QED
      BY <1>3, <2>2, <3>1, SMTT(20)
  <2> QED
    BY <1>2, <2>1, <2>2, SMTT(20)
<1>5. Sorted(g)
  <2> SUFFICES ASSUME NEW j \in 1..(n - 1), NEW k \in 1..(n - 1), j < k PROVE g[j] < g[k]
    BY <1>3 DEF Sorted
  <2>1. \/ j < i /\ j \in 1..n /\ g[j] = fps[j]
        \/ j >= i /\ j + 1 \in 1..n /\ g[j] = fps[j + 1]
    BY <1>4
  <2>2. \/ k < i /\ k \in 1..n /\ g[k] = fps[k]
        \/ k >= i /\ k + 1 \in 1..n /\ g[k] = fps[k + 1]
    BY <1>4
  <2>3. j < k + 1 /\ j + 1 < k + 1 /\ ~(j >= i /\ k < i)
    BY <1>2, SMTT(20)
  <2> QED
    BY <1>a, <2>1, <2>2, <2>3
<1>6. ToSet(g) = ToSet(fps) \ {fp}
  <2>1. DOMAIN g = 1..(n - 1)
    BY <1>3, SMTT(20)
  <2>2. ASSUME NEW j \in 1..n, j # i PROVE fps[j] # fp
    <3>1. j < i \/ i < j
      BY <1>2, <2>2, SMTT(20)
    <3>2. fps[j] < fps[i] \/ fps[i] < fps[j]
      BY <1>a, <1>2, <3>1
    <3> QED
      BY <1>1, <1>2, <3>2, SMTT(20)
  <2>3. ASSUME NEW k \in 1..(n - 1) PROVE \E j \in 1..n : g[k] = fps[j] /\ j # i
    <3>1. k # i \/ k + 1 # i
      BY <1>2, SMTT(20)
    <3>2. k >= i => k + 1 # i
      BY <1>2, SMTT(20)
    <3>3. k < i => k # i
      BY <1>2, SMTT(20)
    <3> QED
      BY <1>4, <3>2, <3>3
  <2>4. ASSUME NEW j \in 1..n, j # i PROVE \E k \in 1..(n - 1) : g[k] = fps[j]
    <3>1. CASE j < i
      <4>1. j \in 1..(i - 1) /\ j \in 1..(n - 1)
        BY <1>1, <1>2, <3>1, SMTT(20)
      <4> QED
        BY <1>3, <4>1
    <3>2. CASE j > i
      <4>1. j \in (i + 1)..n /\ j - 1 \in 1..(n - 1)
        BY <1>1, <1>2, <3>2, SMTT(20)
      <4> QED
        BY <1>3, <4>1
    <3> QED
      BY <1>2, <2>4, <3>1, <3>2, SMTT(20)
  <2>5. ToSet(fps) = {fps[j] : j \in 1..n} /\ ToSet(g) = {g[k] : k \in 1..(n - 1)}
    BY <1>1, <2>1 DEF ToSet
  <2>6. ASSUME NEW x \in ToSet(g) PROVE x \in ToSet(fps) \ {fp}
    BY <2>2, <2>3, <2>5
  <2>7. ASSUME NEW x \in ToSet(fps) \ {fp} PROVE x \in ToSet(g)
    BY <1>2, <2>4, <2>5
  <2> QED
    BY <2>6, <2>7
<1> QED
  BY <1>5, <1>6 DEF g

Listed(idx, l) == ToSet(ValueAt(idx, l, << >>))
SortedIndex(idx) == \A l \in DOMAIN idx : Sorted(idx[l])

(* A label nobody has lists no fingerprint.                                *)
LEMMA EmptyList == Sorted(<< >>) /\ ToSet(<< >>) = {}
BY SMTT(20) DEF Sorted, ToSet

(* add lists a new fingerprint under each of its labels.                   *)
LEMMA AddLists ==
  ASSUME NEW idx, SortedIndex(idx), NEW m, NEW fp \in Nat, NEW l, l \in Pairs[m] => fp \notin Listed(idx, l)
  PROVE  LET a == add(idx, m, fp)
         IN /\ l \in DOMAIN a => Sorted(a[l])
            /\ Listed(a, l) = IF l \in Pairs[m] THEN Listed(idx, l) \cup {fp} ELSE Listed(idx, l)
<1> DEFINE fps == ValueAt(idx, l, << >>)
           a == add(idx, m, fp)
<1>1. Sorted(fps) /\ Listed(idx, l) = ToSet(fps)
  BY EmptyList DEF ValueAt, SortedIndex, Listed
<1>2. DOMAIN a = DOMAIN idx \cup Pairs[m]
  BY DEF add
<1>3. l \in DOMAIN a => a[l] = IF l \in Pairs[m] THEN Around(fps, search(fps, fp), 0, <<fp>>) ELSE fps
  BY DEF add
<1>4. l \notin DOMAIN a => l \notin DOMAIN idx /\ l \notin Pairs[m]
  BY <1>2
<1> HIDE DEF a
<1>5. CASE l \in Pairs[m]
  <2> DEFINE g == Around(fps, search(fps, fp), 0, <<fp>>)
  <2>1. fp \notin ToSet(fps)
    BY <1>1, <1>5
  <2> HIDE DEF fps
  <2>2. Sorted(g) /\ ToSet(g) = ToSet(fps) \cup {fp}
    BY <1>1, <2>1, AddInserts
  <2>3. l \in DOMAIN a /\ a[l] = g
    BY <1>2, <1>3, <1>5
  <2> HIDE DEF g
  <2>4. Listed(a, l) = ToSet(g)
    BY <2>3 DEF Listed, ValueAt
  <2> QED
    BY <1>1, <1>5, <2>2, <2>3, <2>4 DEF a
<1>6. CASE l \notin Pairs[m]
  <2>1. l \in DOMAIN a <=> l \in DOMAIN idx
    BY <1>2, <1>6
  <2>2. l \in DOMAIN a => a[l] = fps
    BY <1>3, <1>6
  <2>3. Listed(a, l) = Listed(idx, l)
    BY <2>1, <2>2 DEF Listed, ValueAt
  <2> QED
    BY <1>1, <1>6, <2>2, <2>3 DEF a
<1> QED
  BY <1>5, <1>6

(* delete takes a fingerprint that is listed under each of its labels out  *)
(* of these lists.                                                         *)
LEMMA DeleteLists ==
  ASSUME NEW idx, SortedIndex(idx), NEW m, NEW fp, NEW l, l \in Pairs[m] => fp \in Listed(idx, l)
  PROVE  LET d == delete(idx, m, fp)
         IN /\ l \in DOMAIN d => Sorted(d[l])
            /\ Listed(d, l) = IF l \in Pairs[m] THEN Listed(idx, l) \ {fp} ELSE Listed(idx, l)
<1> DEFINE d == delete(idx, m, fp)
           g == IF l \in Pairs[m] THEN Around(idx[l], search(idx[l], fp), 1, << >>) ELSE idx[l]
<1>1. (l \in DOMAIN d <=> l \in DOMAIN idx /\ g # << >>) /\ (l \in DOMAIN d => d[l] = g)
  BY DEF delete
<1>2. l \in DOMAIN idx => Listed(idx, l) = ToSet(idx[l]) /\ Sorted(idx[l])
  BY DEF Listed, ValueAt, SortedIndex
<1>3. l \notin DOMAIN idx => Listed(idx, l) = {} /\ l \notin Pairs[m]
  BY EmptyList DEF Listed, ValueAt
<1> HIDE DEF d
<1>4. CASE l \in DOMAIN idx
  <2>1. Sorted(g) /\ ToSet(g) = IF l \in Pairs[m] THEN Listed(idx, l) \ {fp} ELSE Listed(idx, l)
    <3>1. CASE l \in Pairs[m]
      <4>1. fp \in ToSet(idx[l]) /\ Sorted(idx[l]) /\ Listed(idx, l) = ToSet(idx[l])
        BY <1>2, <1>4, <3>1
      <4> QED
        BY <3>1, <4>1, DeleteRemoves
    <3>2. CASE l \notin Pairs[m]
      BY <1>2, <1>4, <3>2
    <3> QED
      BY <3>1, <3>2
  <2> HIDE DEF g
  <2>2. Listed(d, l) = ToSet(g)
    BY <1>1, <1>4, EmptyList DEF Listed, ValueAt
  <2> QED
    BY <1>1, <2>1, <2>2 DEF d
<1>5. CASE l \notin DOMAIN idx
  <2>1. l \notin DOMAIN d
    BY <1>1, <1>5
  <2>2. Listed(d, l) = {}
    BY <2>1, EmptyList DEF Listed, ValueAt
  <2> QED
    BY <1>3, <1>5, <2>1, <2>2 DEF d
<1> QED
  BY <1>4, <1>5

-----------------------------------------------------------------------------
(* The limit. *)

BoundInv == Shape /\ \A s \in Objects : Bounded(s)

(* Pending pushers are pushers.                                            *)
LEMMA PendingFinite ==
  ASSUME NEW s
  PROVE  /\ IsFiniteSet(Pending(s)) /\ Cardinality(Pending(s)) \in Nat
         /\ Cardinality(Pending(s)) <= Cardinality(Pushers)
         /\ Cardinality(Pushers) \in Nat
<1>1. Pending(s) \subseteq Pushers
  BY DEF Pending
<1> QED
  BY <1>1, UserStatesAssumption, FS_Subset, FS_CardinalityType

(* The initial states.                                                     *)
LEMMA BoundInit == Init => BoundInv
<1> SUFFICES ASSUME Init PROVE BoundInv
  OBVIOUS
<1>1. Shape
  BY UserStatesAssumption DEF Init, Shape, IsState, StateNames, IsPush, PushNames, NewState, NoPush
<1>2. ASSUME NEW s \in Objects PROVE Bounded(s)
  <2>1. DOMAIN Series(s) = {}
    BY SMTT(20) DEF Init, Series, NewState, Empty
  <2>2. Pending(s) = {}
    BY DEF Init, Pending, NoPush
  <2> QED
    BY <2>1, <2>2, <1>1, FS_EmptySet, PendingFinite, SMTT(20) DEF Bounded, Shape
<1> QED
  BY <1>1, <1>2 DEF BoundInv

-----------------------------------------------------------------------------
(* Most steps add neither a series nor a pending pusher.                   *)
Quiet ==
  /\ Shape'
  /\ \A s \in Objects : DOMAIN Series(s)' \subseteq DOMAIN Series(s) /\ Pending(s)' \subseteq Pending(s)

-----------------------------------------------------------------------------
(* Every step of the ingester keeps the bound on series and pending pushers*)
(* (all the functions of user_state.go and their callers).                 *)
LEMMA BoundStep == BoundInv /\ [Next]_vars => BoundInv'
(* A step in which no series and no pending pusher of a state is added.    *)
<1>NoGrowth.
    ASSUME NEW s, Bounded(s), MaxSeriesPerUser \in Nat \ {0}, MaxSeriesPerUser' = MaxSeriesPerUser,
           DOMAIN Series(s)' \subseteq DOMAIN Series(s), Pending(s)' \subseteq Pending(s)
    PROVE  Bounded(s)'
  <2> USE <1>NoGrowth
  <2>1. /\ IsFiniteSet(DOMAIN Series(s)') /\ Cardinality(DOMAIN Series(s)') \in Nat
        /\ Cardinality(DOMAIN Series(s)) \in Nat
        /\ Cardinality(DOMAIN Series(s)') <= Cardinality(DOMAIN Series(s))
    BY FS_Subset, FS_CardinalityType DEF Bounded
  <2>2. /\ Cardinality(Pending(s)') \in Nat /\ Cardinality(Pending(s)) \in Nat
        /\ Cardinality(Pending(s)') <= Cardinality(Pending(s))
    BY PendingFinite, FS_Subset, FS_CardinalityType
  <2> QED
    BY <2>1, <2>2, PendingFinite, SMTT(20) DEF Bounded
<1>QuietKeeps. ASSUME BoundInv, MaxSeriesPerUser' = MaxSeriesPerUser, Quiet PROVE BoundInv'
  <2> USE <1>QuietKeeps
  <2>1. ASSUME NEW s \in Objects PROVE Bounded(s)'
    BY <1>NoGrowth DEF BoundInv, Quiet, Shape
  <2> QED
    BY <2>1 DEF BoundInv, Quiet, Objects
(* Heap and pushers as they were.                                          *)
<1>Unchanged.
    ASSUME BoundInv, MaxSeriesPerUser' = MaxSeriesPerUser, heap' = heap, pusher' = pusher
    PROVE  Quiet
  BY <1>Unchanged DEF BoundInv, Quiet, Shape, Pending, Series, Objects
(* A userState is replaced by one without new series.                      *)
<1>HeapShrinks.
    ASSUME BoundInv, MaxSeriesPerUser' = MaxSeriesPerUser, NEW s, NEW u,
           heap' = [heap EXCEPT ![s] = u], pusher' = pusher,
           s \in Objects => IsState(u) /\ DOMAIN u.fpToSeries \subseteq DOMAIN heap[s].fpToSeries
    PROVE  Quiet
  BY <1>HeapShrinks DEF BoundInv, Quiet, Shape, Pending, Series, Objects
(* A pusher goes on to where it is not pending.                            *)
<1>PusherLeaves.
    ASSUME BoundInv, MaxSeriesPerUser' = MaxSeriesPerUser, NEW p, NEW x,
           pusher' = [pusher EXCEPT ![p] = x], IsPush(x), x.pc \notin {"metric", "put"},
           heap' = [s \in Objects |-> heap'[s]],
           \A s \in Objects : IsState(heap'[s]) /\ DOMAIN heap'[s].fpToSeries \subseteq DOMAIN heap[s].fpToSeries
    PROVE  Quiet
  <2> USE <1>PusherLeaves
  <2>1. Shape'
    BY DEF BoundInv, Shape, Objects
  <2>2. ASSUME NEW s \in Objects PROVE Pending(s)' \subseteq Pending(s)
    BY DEF Pending, BoundInv, Shape
  <2>3. ASSUME NEW s \in Objects PROVE DOMAIN Series(s)' \subseteq DOMAIN Series(s)
    BY DEF Series
  <2> QED
    BY <2>1, <2>2, <2>3 DEF Quiet
(* Changes of some fields.                                                 *)
<1>PushFields.
    ASSUME NEW x, IsPush(x), NEW a, NEW b
    PROVE  /\ IsPush([x EXCEPT !.pc = a]) /\ [x EXCEPT !.pc = a].pc = a
           /\ [x EXCEPT !.pc = a].state = x.state
           /\ IsPush([x EXCEPT !.pc = a, !.state = b]) /\ [x EXCEPT !.pc = a, !.state = b].pc = a
           /\ IsPush([x EXCEPT !.pc = a, !.fp = b]) /\ [x EXCEPT !.pc = a, !.fp = b].pc = a
  BY <1>PushFields DEF IsPush, PushNames
<1>StateFields.
    ASSUME NEW u, IsState(u), NEW a, NEW b
    PROVE  /\ IsState([u EXCEPT !.highestMappedFP = a, !.mappings = b])
           /\ [u EXCEPT !.highestMappedFP = a, !.mappings = b].fpToSeries = u.fpToSeries
           /\ IsState([u EXCEPT !.mappings = a, !.highestMappedFP = b])
           /\ [u EXCEPT !.mappings = a, !.highestMappedFP = b].fpToSeries = u.fpToSeries
           /\ IsState([u EXCEPT !.seriesInMetric = a]) /\ [u EXCEPT !.seriesInMetric = a].fpToSeries = u.fpToSeries
           /\ IsState([u EXCEPT !.index = a]) /\ [u EXCEPT !.index = a].fpToSeries = u.fpToSeries
           /\ IsState([u EXCEPT !.fpToSeries = a]) /\ [u EXCEPT !.fpToSeries = a].fpToSeries = a
  BY <1>StateFields DEF IsState, StateNames
(* The steps of a Push.                                                    *)
<1>GetOrCreateSeriesKeeps.
    ASSUME BoundInv, MaxSeriesPerUser' = MaxSeriesPerUser,
           NEW p \in Pushers, NEW m \in Metrics, getOrCreateSeries(p, m)
    PROVE  Quiet
  <2> USE <1>GetOrCreateSeriesKeeps
  <2>1. /\ heap' = [s \in Objects |-> heap'[s]]
        /\ \A s \in Objects : IsState(heap'[s]) /\ DOMAIN heap'[s].fpToSeries \subseteq DOMAIN heap[s].fpToSeries
    BY DEF getOrCreateSeries, BoundInv, Shape
  <2> DEFINE X(pc, st) == [pc |-> pc, sample |-> pushes', metric |-> m, state |-> st, fp |-> FastFingerprint[m]]
  <2>2. \/ pusher' = [pusher EXCEPT ![p] = X("raw", states)]
        \/ pusher' = [pusher EXCEPT ![p] = X("create", 0)]
    BY DEF getOrCreateSeries
  <2>3. ASSUME NEW pc, NEW st PROVE IsPush(X(pc, st)) /\ X(pc, st).pc = pc
    BY DEF IsPush, PushNames
  <2>4. X("raw", states).pc \notin {"metric", "put"} /\ X("create", 0).pc \notin {"metric", "put"}
    OBVIOUS
  <2>5. CASE pusher' = [pusher EXCEPT ![p] = X("raw", states)]
    <3> DEFINE x == X("raw", states)
    <3>1. pusher' = [pusher EXCEPT ![p] = x] /\ IsPush(x) /\ x.pc \notin {"metric", "put"}
      BY <2>5, <2>3, <2>4
    <3> HIDE DEF x
    <3> QED
      BY <2>1, <3>1, <1>PusherLeaves
  <2>6. CASE pusher' = [pusher EXCEPT ![p] = X("create", 0)]
    <3> DEFINE x == X("create", 0)
    <3>1. pusher' = [pusher EXCEPT ![p] = x] /\ IsPush(x) /\ x.pc \notin {"metric", "put"}
      BY <2>6, <2>3, <2>4
    <3> HIDE DEF x
    <3> QED
      BY <2>1, <3>1, <1>PusherLeaves
  <2> QED
    BY <2>2, <2>5, <2>6
(* The heap after unlockedGetOrCreate.                                     *)
<1>NewHeap.
    ASSUME BoundInv, unlockedGetOrCreate
    PROVE  /\ heap' = [s \in Objects |-> heap'[s]]
           /\ \A s \in Objects : IsState(heap'[s]) /\ DOMAIN heap'[s].fpToSeries \subseteq DOMAIN heap[s].fpToSeries
  <2> USE <1>NewHeap
  <2>1. CASE states # 0
    BY <2>1 DEF unlockedGetOrCreate, BoundInv, Shape
  <2>2. CASE states = 0
    <3>1. heap' = [heap EXCEPT ![New] = NewState]
      BY <2>2 DEF unlockedGetOrCreate
    <3>2. IsState(NewState) /\ DOMAIN NewState.fpToSeries = {}
      BY SMTT(20) DEF IsState, StateNames, NewState, Empty
    <3> QED
      BY <3>1, <3>2 DEF BoundInv, Shape
  <2> QED
    BY <2>1, <2>2
<1>CreateStateKeeps.
    ASSUME BoundInv, MaxSeriesPerUser' = MaxSeriesPerUser, NEW p \in Pushers, createState(p)
    PROVE  Quiet
  <2> USE <1>CreateStateKeeps
  <2> DEFINE x == [pusher[p] EXCEPT !.pc = "raw", !.state = states']
  <2>1. pusher' = [pusher EXCEPT ![p] = x]
    BY DEF createState, BoundInv, Shape, IsPush, PushNames
  <2>2. IsPush(x) /\ x.pc = "raw"
    <3>1. IsPush(pusher[p])
      BY DEF BoundInv, Shape
    <3> QED
      BY <3>1 DEF IsPush, PushNames
  <2>3. unlockedGetOrCreate
    BY DEF createState
  <2> QED
    BY <2>1, <2>2, <2>3, <1>NewHeap, <1>PusherLeaves
(* maybeAddMapping changes the mappings only.                              *)
<1>AddMappingFields.
    ASSUME NEW u, IsState(u), NEW m
    PROVE  /\ IsState(addMapping(u, m)) /\ addMapping(u, m).fpToSeries = u.fpToSeries
           /\ addMapping(u, m).index = u.index /\ addMapping(u, m).seriesInMetric = u.seriesInMetric
  <2> USE <1>AddMappingFields
  <2> DEFINE fp == u.highestMappedFP + 1
             w == With(u.mappings, FastFingerprint[m], With(Mapped(u, m), m, fp))
             v == [u EXCEPT !.highestMappedFP = fp, !.mappings = w]
  <2>1. addMapping(u, m) = v \/ addMapping(u, m) = u
    BY DEF addMapping
  <2> HIDE DEF fp, w
  <2>2. IsState(v) /\ v.fpToSeries = u.fpToSeries /\ v.index = u.index /\ v.seriesInMetric = u.seriesInMetric
    BY DEF IsState, StateNames
  <2> HIDE DEF v
  <2> QED
    BY <2>1, <2>2
<1>LockRawKeeps.
    ASSUME BoundInv, MaxSeriesPerUser' = MaxSeriesPerUser, NEW p \in Pushers, lockRaw(p)
    PROVE  Quiet
  <2> USE <1>LockRawKeeps
  <2> DEFINE m == pusher[p].metric
             fp == mapFP(State(p), m)
             u == addMapping(State(p), m)
             x == [pusher[p] EXCEPT !.pc = IF fp = FastFingerprint[m] THEN "get" ELSE "fp", !.fp = fp]
  <2>1. heap' = [heap EXCEPT ![pusher[p].state] = u]
    BY DEF lockRaw, Sets
  <2>2. ASSUME pusher[p].state \in Objects PROVE IsState(u) /\ u.fpToSeries = heap[pusher[p].state].fpToSeries
    <3>1. IsState(State(p))
      BY <2>2 DEF State, BoundInv, Shape
    <3> QED
      BY <3>1, <1>AddMappingFields DEF State
  <2> HIDE DEF u
  <2>3. /\ heap' = [s \in Objects |-> heap'[s]]
        /\ \A s \in Objects : IsState(heap'[s]) /\ DOMAIN heap'[s].fpToSeries \subseteq DOMAIN heap[s].fpToSeries
    BY <2>1, <2>2 DEF BoundInv, Shape
  <2>4. pusher' = [pusher EXCEPT ![p] = x]
    BY DEF lockRaw, BoundInv, Shape, IsPush, PushNames
  <2>5. IsPush(x) /\ x.pc \in {"get", "fp"}
    <3>1. IsPush(pusher[p])
      BY SMTT(20) DEF BoundInv, Shape
    <3> HIDE DEF fp
    <3> QED
      BY <3>1 DEF IsPush, PushNames
  <2> QED
    BY <2>3, <2>4, <2>5, <1>PusherLeaves
(* A pusher only goes to another pc.                                       *)
<1>GoesKeeps.
    ASSUME BoundInv, NEW p \in Pushers, NEW pc, Goes(p, pc)
    PROVE  /\ pusher' = [pusher EXCEPT ![p] = [pusher[p] EXCEPT !.pc = pc]]
           /\ IsPush([pusher[p] EXCEPT !.pc = pc]) /\ [pusher[p] EXCEPT !.pc = pc].pc = pc
  BY <1>GoesKeeps, <1>PushFields DEF Goes, BoundInv, Shape
<1>LockFPKeeps.
    ASSUME BoundInv, MaxSeriesPerUser' = MaxSeriesPerUser, NEW p \in Pushers, lockFP(p)
    PROVE  Quiet
  <2> USE <1>LockFPKeeps
  <2>1. heap' = heap /\ Goes(p, "get")
    BY DEF lockFP
  <2>2. heap = [s \in Objects |-> heap[s]] /\ \A s \in Objects : IsState(heap[s])
    BY DEF BoundInv, Shape
  <2> DEFINE x == [pusher[p] EXCEPT !.pc = "get"]
  <2>3. pusher' = [pusher EXCEPT ![p] = x] /\ IsPush(x) /\ x.pc = "get"
    BY <2>1, <1>GoesKeeps
  <2> HIDE DEF x
  <2> QED
    BY <2>1, <2>2, <2>3, <1>PusherLeaves
<1>RefusedKeeps.
    ASSUME BoundInv, MaxSeriesPerUser' = MaxSeriesPerUser, NEW p \in Pushers, Refused(p)
    PROVE  Quiet
  <2> USE <1>RefusedKeeps
  <2>1. heap' = heap /\ pusher' = [pusher EXCEPT ![p] = NoPush]
    BY DEF Refused, Returns
  <2>2. heap = [s \in Objects |-> heap[s]] /\ \A s \in Objects : IsState(heap[s])
    BY SMTT(20) DEF BoundInv, Shape
  <2>3. IsPush(NoPush) /\ NoPush.pc = "idle"
    BY DEF IsPush, PushNames, NoPush
  <2> QED
    BY <2>1, <2>2, <2>3, <1>PusherLeaves
(* The heap as it was, for PusherLeaves.                                   *)
<1>SameHeap.
    ASSUME BoundInv, heap' = heap
    PROVE  /\ heap' = [s \in Objects |-> heap'[s]]
           /\ \A s \in Objects : IsState(heap'[s]) /\ DOMAIN heap'[s].fpToSeries \subseteq DOMAIN heap[s].fpToSeries
  BY <1>SameHeap DEF BoundInv, Shape
(* One object with other fields, and its series as they were or fewer.     *)
<1>OtherHeap.
    ASSUME BoundInv, NEW s, NEW u, Sets(s, u),
           s \in Objects => IsState(u) /\ DOMAIN u.fpToSeries \subseteq DOMAIN heap[s].fpToSeries
    PROVE  /\ heap' = [t \in Objects |-> heap'[t]]
           /\ \A t \in Objects : IsState(heap'[t]) /\ DOMAIN heap'[t].fpToSeries \subseteq DOMAIN heap[t].fpToSeries
  BY <1>OtherHeap DEF BoundInv, Shape, Sets
(* The limit was not reached: the pusher is one of the pending.            *)
<1>LetInKeeps.
    ASSUME BoundInv, MaxSeriesPerUser' = MaxSeriesPerUser, NEW p \in Pushers,
           heap' = heap, Goes(p, "metric"),
           Cardinality(DOMAIN State(p).fpToSeries) < MaxSeriesPerUser
    PROVE  BoundInv'
  <2> USE <1>LetInKeeps
  <2> DEFINE x == [pusher[p] EXCEPT !.pc = "metric"]
  <2>1. pusher' = [pusher EXCEPT ![p] = x] /\ IsPush(x) /\ x.pc = "metric" /\ x.state = pusher[p].state
    <3>1. IsPush(pusher[p])
      BY DEF BoundInv, Shape
    <3> QED
      BY <3>1, <1>GoesKeeps, <1>PushFields
  <2> HIDE DEF x
  <2>2. Shape'
    BY <2>1 DEF BoundInv, Shape, Objects
  <2>3. ASSUME NEW s \in Objects PROVE Bounded(s)'
    <3>1. Series(s)' = Series(s) /\ Bounded(s)
      BY DEF Series, BoundInv
    <3>2. CASE s = pusher[p].state
      <4>1. IsFiniteSet(DOMAIN Series(s)) /\ Cardinality(DOMAIN Series(s)) \in Nat
        BY <3>1, FS_CardinalityType DEF Bounded
      <4>2. Cardinality(DOMAIN Series(s)) < MaxSeriesPerUser
        BY <3>2 DEF Series, State
      <4>3. Cardinality(Pending(s)') \in Nat /\ Cardinality(Pending(s)') <= Cardinality(Pushers)
        <5>1. Pending(s)' \subseteq Pushers
          BY DEF Pending
        <5> QED
          BY <5>1, UserStatesAssumption, FS_Subset, FS_CardinalityType
      <4>4. Cardinality(Pushers) \in Nat /\ MaxSeriesPerUser \in Nat \ {0}
        BY PendingFinite DEF BoundInv, Shape
      <4> QED
        BY <4>1, <4>2, <4>3, <4>4, <3>1, SMTT(20) DEF Bounded
    <3>3. CASE s # pusher[p].state
      <4>1. Pending(s)' \subseteq Pending(s)
        BY <2>1, <3>3 DEF Pending, BoundInv, Shape
      <4> QED
        BY <4>1, <3>1, <1>NoGrowth DEF BoundInv, Shape
    <3> QED
      BY <3>2, <3>3
  <2> QED
    BY <2>2, <2>3 DEF BoundInv, Objects
<1>UnlockedGetKeeps.
    ASSUME BoundInv, MaxSeriesPerUser' = MaxSeriesPerUser, NEW p \in Pushers, unlockedGet(p)
    PROVE  BoundInv'
  <2> USE <1>UnlockedGetKeeps
  <2>1. CASE Goes(p, "append") /\ heap' = heap
    <3> DEFINE x == [pusher[p] EXCEPT !.pc = "append"]
    <3>1. pusher' = [pusher EXCEPT ![p] = x] /\ IsPush(x) /\ x.pc = "append"
      BY <2>1, <1>GoesKeeps
    <3> HIDE DEF x
    <3>2. Quiet
      BY <2>1, <3>1, <1>SameHeap, <1>PusherLeaves
    <3> QED
      BY <3>2, <1>QuietKeeps
  <2>2. CASE Refused(p)
    BY <2>2, <1>RefusedKeeps, <1>QuietKeeps
  <2>3. CASE /\ Goes(p, "metric") /\ heap' = heap
             /\ Cardinality(DOMAIN State(p).fpToSeries) < MaxSeriesPerUser
    BY <2>3, <1>LetInKeeps
  <2> QED
    BY <2>1, <2>2, <2>3 DEF unlockedGet
<1>CanAddSeriesForKeeps.
    ASSUME BoundInv, MaxSeriesPerUser' = MaxSeriesPerUser, NEW p \in Pushers, canAddSeriesFor(p)
    PROVE  Quiet
  <2> USE <1>CanAddSeriesForKeeps
  <2>1. CASE Refused(p)
    BY <2>1, <1>RefusedKeeps
  <2>2. ASSUME NEW c, Sets(pusher[p].state, [State(p) EXCEPT !.seriesInMetric = c]), Goes(p, "put"), At(p, "metric")
        PROVE  Quiet
    <3> DEFINE u == [State(p) EXCEPT !.seriesInMetric = c]
               x == [pusher[p] EXCEPT !.pc = "put"]
    <3>1. pusher[p].state \in Objects => IsState(u) /\ DOMAIN u.fpToSeries = DOMAIN heap[pusher[p].state].fpToSeries
      BY <1>StateFields DEF State, BoundInv, Shape
    <3>2. /\ heap' = [s \in Objects |-> heap'[s]]
          /\ \A s \in Objects : IsState(heap'[s]) /\ DOMAIN heap'[s].fpToSeries \subseteq DOMAIN heap[s].fpToSeries
      BY <2>2, <3>1, <1>OtherHeap
    <3>3. pusher' = [pusher EXCEPT ![p] = x] /\ IsPush(x) /\ x.state = pusher[p].state
      <4>1. IsPush(pusher[p])
        BY SMTT(20) DEF BoundInv, Shape
      <4> QED
        BY <2>2, <4>1, <1>GoesKeeps, <1>PushFields
    <3> HIDE DEF x, u
    <3>4. Shape'
      BY <3>2, <3>3 DEF BoundInv, Shape, Objects
    <3>5. ASSUME NEW s \in Objects PROVE Pending(s)' \subseteq Pending(s)
      BY <2>2, <3>3 DEF Pending, BoundInv, Shape, At
    <3> QED
      BY <3>2, <3>4, <3>5 DEF Quiet, Series
  <2> QED
    BY <2>1, <2>2 DEF canAddSeriesFor
(* The series is put: one series more, and one pending pusher less.        *)
<1>PutSeriesKeeps.
    ASSUME BoundInv, MaxSeriesPerUser' = MaxSeriesPerUser, NEW p \in Pushers, putSeries(p)
    PROVE  BoundInv'
  <2> USE <1>PutSeriesKeeps
  <2> DEFINE st == pusher[p].state
             u == [State(p) EXCEPT !.fpToSeries =
                     With(@, pusher[p].fp, [metric |-> pusher[p].metric, samples |-> {}])]
             x == [pusher[p] EXCEPT !.pc = "index"]
  <2>1. heap' = [heap EXCEPT ![st] = u]
    BY DEF putSeries, Sets
  <2>2. st \in Objects => /\ IsState(u)
                         /\ DOMAIN u.fpToSeries = DOMAIN heap[st].fpToSeries \cup {pusher[p].fp}
    <3> SUFFICES ASSUME st \in Objects
                 PROVE  IsState(u) /\ DOMAIN u.fpToSeries = DOMAIN heap[st].fpToSeries \cup {pusher[p].fp}
      OBVIOUS
    <3>1. IsState(State(p))
      BY DEF State, BoundInv, Shape
    <3> DEFINE w == With(State(p).fpToSeries, pusher[p].fp, [metric |-> pusher[p].metric, samples |-> {}])
    <3>2. DOMAIN w = DOMAIN heap[st].fpToSeries \cup {pusher[p].fp}
      BY DEF With, State
    <3>3. u = [State(p) EXCEPT !.fpToSeries = w]
      OBVIOUS
    <3> HIDE DEF w, u
    <3>4. IsState(u) /\ u.fpToSeries = w
      BY <3>1, <3>3 DEF IsState, StateNames
    <3> QED
      BY <3>2, <3>4
  <2>3. pusher' = [pusher EXCEPT ![p] = x] /\ IsPush(x) /\ x.pc = "index"
    BY <1>GoesKeeps DEF putSeries
  <2> HIDE DEF u, x
  <2>4. Shape'
    BY <2>1, <2>2, <2>3 DEF BoundInv, Shape, Objects
  <2>5. ASSUME NEW s \in Objects PROVE Bounded(s)'
    <3>1. Bounded(s) /\ MaxSeriesPerUser \in Nat \ {0} /\ heap = [t \in Objects |-> heap[t]]
      BY DEF BoundInv, Shape
    <3>2. Pending(s)' = Pending(s) \ {p}
      BY <2>3 DEF Pending, BoundInv, Shape
    <3>3. CASE s # st
      <4>1. Series(s)' = Series(s)
        BY <2>1, <3>1, <3>3 DEF Series
      <4> QED
        BY <4>1, <3>1, <3>2, <1>NoGrowth
    <3>4. CASE s = st
      <4>1. p \in Pending(s)
        BY <3>4 DEF Pending, putSeries, At
      <4>2. Cardinality(Pending(s)') = Cardinality(Pending(s)) - 1
        BY <3>2, <4>1, PendingFinite, FS_RemoveElement
      <4>3. DOMAIN Series(s)' = DOMAIN Series(s) \cup {pusher[p].fp}
        BY <2>1, <2>2, <3>1, <3>4 DEF Series
      <4>4. /\ IsFiniteSet(DOMAIN Series(s)')
            /\ Cardinality(DOMAIN Series(s)) \in Nat /\ Cardinality(DOMAIN Series(s)') \in Nat
            /\ Cardinality(DOMAIN Series(s)') <= Cardinality(DOMAIN Series(s)) + 1
        <5> DEFINE D == DOMAIN Series(s)
                   E == DOMAIN Series(s)'
        <5>1. IsFiniteSet(D) /\ E = D \cup {pusher[p].fp}
          BY <3>1, <4>3 DEF Bounded
        <5> HIDE DEF D, E
        <5>2. IsFiniteSet(E) /\ Cardinality(D) \in Nat /\ Cardinality(E) \in {Cardinality(D), Cardinality(D) + 1}
          BY <5>1, FS_AddElement, FS_CardinalityType
        <5> QED
          BY <5>2, SMTT(20) DEF D, E
      <4> QED
        BY <3>1, <4>2, <4>4, PendingFinite, SMTT(20) DEF Bounded
    <3> QED
      BY <3>3, <3>4
  <2> QED
    BY <2>4, <2>5 DEF BoundInv, Objects
<1>IndexSeriesKeeps.
    ASSUME BoundInv, MaxSeriesPerUser' = MaxSeriesPerUser, NEW p \in Pushers, indexSeries(p)
    PROVE  Quiet
  <2> USE <1>IndexSeriesKeeps
  <2> DEFINE i == add(State(p).index, pusher[p].metric, pusher[p].fp)
             u == [State(p) EXCEPT !.index = i]
             x == [pusher[p] EXCEPT !.pc = "append"]
  <2>1. Sets(pusher[p].state, u)
    BY DEF indexSeries
  <2>2. pusher[p].state \in Objects => IsState(u) /\ DOMAIN u.fpToSeries = DOMAIN heap[pusher[p].state].fpToSeries
    <3> HIDE DEF i
    <3> QED
      BY <1>StateFields DEF State, BoundInv, Shape
  <2>3. pusher' = [pusher EXCEPT ![p] = x] /\ IsPush(x) /\ x.pc = "append"
    BY <1>GoesKeeps DEF indexSeries
  <2> HIDE DEF u, x
  <2> QED
    BY <2>1, <2>2, <2>3, <1>OtherHeap, <1>PusherLeaves
(* The samples of one series change: the series are the same.              *)
<1>SamplesFields.
    ASSUME NEW u, IsState(u), NEW fp, NEW y
    PROVE  LET v == [u EXCEPT !.fpToSeries[fp].samples = y]
           IN IsState(v) /\ DOMAIN v.fpToSeries = DOMAIN u.fpToSeries
  <2> USE <1>SamplesFields
  <2> DEFINE w == [u.fpToSeries EXCEPT ![fp].samples = y]
  <2>1. [u EXCEPT !.fpToSeries[fp].samples = y] = [u EXCEPT !.fpToSeries = w]
    OBVIOUS
  <2>2. DOMAIN w = DOMAIN u.fpToSeries
    OBVIOUS
  <2> HIDE DEF w
  <2> QED
    BY <2>1, <2>2, <1>StateFields
<1>AppendKeeps.
    ASSUME BoundInv, MaxSeriesPerUser' = MaxSeriesPerUser, NEW p \in Pushers, append(p)
    PROVE  Quiet
  <2> USE <1>AppendKeeps
  <2> DEFINE s == pusher[p].state
             fp == pusher[p].fp
             y == State(p).fpToSeries[fp].samples \cup {Sample(p)}
             u == [State(p) EXCEPT !.fpToSeries[fp].samples = y]
  <2>1. Sets(s, u) /\ pusher' = [pusher EXCEPT ![p] = NoPush]
    BY DEF append, Returns
  <2>2. s \in Objects => IsState(u) /\ DOMAIN u.fpToSeries = DOMAIN heap[s].fpToSeries
    <3> HIDE DEF y, fp
    <3> QED
      BY <1>SamplesFields DEF State, BoundInv, Shape
  <2>3. IsPush(NoPush) /\ NoPush.pc = "idle"
    BY SMTT(20) DEF IsPush, PushNames, NoPush
  <2> HIDE DEF u
  <2> QED
    BY <2>1, <2>2, <2>3, <1>OtherHeap, <1>PusherLeaves
(* The steps of the flush, of gc and of a query.                           *)
<1>DropChunksKeeps.
    ASSUME BoundInv, MaxSeriesPerUser' = MaxSeriesPerUser, NEW f \in Flushers, dropChunks(f)
    PROVE  Quiet
  <2> USE <1>DropChunksKeeps
  <2> DEFINE s == flusher[f].state
             fp == flusher[f].fp
             y == Flushed(f).fpToSeries[fp].samples \ flusher[f].taken
             u == [Flushed(f) EXCEPT !.fpToSeries[fp].samples = y]
  <2>1. heap' = [heap EXCEPT ![s] = u] /\ pusher' = pusher
    BY DEF dropChunks, Sets
  <2>2. s \in Objects => IsState(u) /\ DOMAIN u.fpToSeries = DOMAIN heap[s].fpToSeries
    <3> HIDE DEF y, fp
    <3> QED
      BY <1>SamplesFields DEF Flushed, BoundInv, Shape
  <2> HIDE DEF u
  <2> QED
    BY <2>1, <2>2, <1>HeapShrinks
<1>RemoveSeriesKeeps.
    ASSUME BoundInv, MaxSeriesPerUser' = MaxSeriesPerUser, NEW f \in Flushers,
           delSeries(f) \/ unindexSeries(f) \/ uncountSeries(f)
    PROVE  Quiet
  <2> USE <1>RemoveSeriesKeeps
  <2> DEFINE s == flusher[f].state
             u == Flushed(f)
  <2>1. pusher' = pusher
    BY DEF delSeries, unindexSeries, uncountSeries
  <2>2. s \in Objects => IsState(u) /\ u = heap[s]
    BY DEF Flushed, BoundInv, Shape
  <2>3. CASE delSeries(f)
    <3> DEFINE a == Without(u.fpToSeries, flusher[f].fp)
               v == [u EXCEPT !.fpToSeries = a]
    <3>1. heap' = [heap EXCEPT ![s] = v]
      BY <2>3 DEF delSeries, Sets
    <3>2. DOMAIN a \subseteq DOMAIN u.fpToSeries
      BY DEF Without
    <3> HIDE DEF a
    <3>3. s \in Objects => IsState(v) /\ DOMAIN v.fpToSeries \subseteq DOMAIN heap[s].fpToSeries
      BY <2>2, <3>2, <1>StateFields
    <3> HIDE DEF v
    <3> QED
      BY <2>1, <3>1, <3>3, <1>HeapShrinks
  <2>4. CASE unindexSeries(f)
    <3> DEFINE a == delete(u.index, Removed(f), flusher[f].fp)
               v == [u EXCEPT !.index = a]
    <3>1. heap' = [heap EXCEPT ![s] = v]
      BY <2>4 DEF unindexSeries, Sets
    <3> HIDE DEF a, u
    <3>2. s \in Objects => IsState(v) /\ DOMAIN v.fpToSeries = DOMAIN heap[s].fpToSeries
      BY <2>2 DEF IsState, StateNames
    <3> HIDE DEF v
    <3> QED
      BY <2>1, <3>1, <3>2, <1>HeapShrinks
  <2>5. CASE uncountSeries(f)
    <3> DEFINE name == MetricName[Removed(f)]
               n == u.seriesInMetric[name] - 1
               a == IF n = 0 THEN Without(u.seriesInMetric, name) ELSE With(u.seriesInMetric, name, n)
               v == [u EXCEPT !.seriesInMetric = a]
    <3>1. heap' = [heap EXCEPT ![s] = v]
      BY <2>5 DEF uncountSeries, Sets
    <3> HIDE DEF a, u
    <3>2. s \in Objects => IsState(v) /\ DOMAIN v.fpToSeries = DOMAIN heap[s].fpToSeries
      BY <2>2 DEF IsState, StateNames
    <3> HIDE DEF v
    <3> QED
      BY <2>1, <3>1, <3>2, <1>HeapShrinks
  <2> QED
    BY <2>3, <2>4, <2>5
<1>GcKeeps.
    ASSUME BoundInv, MaxSeriesPerUser' = MaxSeriesPerUser, gc
    PROVE  Quiet
  <2> USE <1>GcKeeps
  <2> DEFINE v == [heap[states] EXCEPT !.mappings = Empty, !.highestMappedFP = 0]
  <2>1. heap' = [heap EXCEPT ![states] = v] /\ pusher' = pusher
    BY DEF gc, Sets
  <2>2. ASSUME states \in Objects PROVE IsState(v) /\ v.fpToSeries = heap[states].fpToSeries
    <3>1. IsState(heap[states])
      BY <2>2 DEF BoundInv, Shape
    <3> QED
      BY <3>1 DEF IsState, StateNames
  <2> HIDE DEF v
  <2> QED
    BY <2>1, <2>2, <1>HeapShrinks
<1>GetOrCreateKeeps.
    ASSUME BoundInv, MaxSeriesPerUser' = MaxSeriesPerUser, getOrCreate
    PROVE  Quiet
  <2> USE <1>GetOrCreateKeeps
  <2>1. pusher' = pusher /\ (heap' = heap \/ unlockedGetOrCreate)
    BY DEF getOrCreate
  <2>2. CASE heap' = heap
    BY <2>1, <2>2, <1>Unchanged
  <2>3. CASE unlockedGetOrCreate
    BY <2>1, <2>3, <1>NewHeap DEF Quiet, BoundInv, Shape, Series, Pending, Objects
  <2> QED
    BY <2>1, <2>2, <2>3
<1> SUFFICES ASSUME BoundInv, [Next]_vars PROVE BoundInv'
  OBVIOUS
<1>1. MaxSeriesPerUser' = MaxSeriesPerUser
  BY DEF Next, vars
<1>2. CASE UNCHANGED vars
  BY <1>1, <1>2, <1>Unchanged, <1>QuietKeeps DEF vars
<1>3. ASSUME NEW p \in Pushers, Push(p) PROVE BoundInv'
  BY <1>1, <1>3, <1>QuietKeeps, <1>CreateStateKeeps, <1>LockRawKeeps, <1>LockFPKeeps, <1>UnlockedGetKeeps,
     <1>CanAddSeriesForKeeps, <1>PutSeriesKeeps, <1>IndexSeriesKeeps, <1>AppendKeeps DEF Push
<1>4. ASSUME NEW p \in Pushers, NEW m \in Metrics, getOrCreateSeries(p, m) PROVE BoundInv'
  BY <1>1, <1>4, <1>QuietKeeps, <1>GetOrCreateSeriesKeeps
<1>5. ASSUME NEW f \in Flushers, Flush(f) PROVE BoundInv'
  <2>1. CASE takeChunks(f) \/ flushChunks(f)
    BY <1>1, <2>1, <1>QuietKeeps, <1>Unchanged DEF takeChunks, flushChunks
  <2>2. CASE dropChunks(f)
    BY <1>1, <2>2, <1>QuietKeeps, <1>DropChunksKeeps
  <2>3. CASE delSeries(f) \/ unindexSeries(f) \/ uncountSeries(f)
    BY <1>1, <2>3, <1>QuietKeeps, <1>RemoveSeriesKeeps
  <2> QED
    BY <1>5, <2>1, <2>2, <2>3 DEF Flush
<1>6. ASSUME NEW f \in Flushers, NEW fp, flushUserSeries(f, fp) PROVE BoundInv'
  BY <1>1, <1>6, <1>QuietKeeps, <1>Unchanged DEF flushUserSeries
<1>7. CASE gc
  BY <1>1, <1>7, <1>QuietKeeps, <1>GcKeeps
<1>8. CASE getOrCreate
  BY <1>1, <1>8, <1>QuietKeeps, <1>GetOrCreateKeeps
<1>9. CASE Query
  BY <1>1, <1>9, <1>QuietKeeps, <1>Unchanged DEF Query, lookupSeries, forSeriesMatching, queryReturns
<1> QED
  BY <1>2, <1>3, <1>4, <1>5, <1>6, <1>7, <1>8, <1>9 DEF Next, Step

(* SeriesLimitHolds: whatever the pushers, the flushers, the limits and the*)
(* hash of the metrics, a user never has more series than                  *)
(* MaxSeriesPerUser and one for each other Push under way, although the    *)
(* limit is checked under another lock than the series is put under        *)
(* (user_state.go, unlockedGet).                                           *)
THEOREM SeriesLimitHolds == Spec => []SeriesLimit
<1>1. BoundInv => SeriesLimit
  <2> SUFFICES ASSUME BoundInv, NEW s \in Objects
               PROVE  Cardinality(DOMAIN Series(s)) <= MaxSeriesPerUser - 1 + Cardinality(Pushers)
    BY DEF SeriesLimit
  <2>1. Bounded(s) /\ MaxSeriesPerUser \in Nat
    BY DEF BoundInv, Shape
  <2>2. Cardinality(DOMAIN Series(s)) \in Nat
    BY <2>1, FS_CardinalityType DEF Bounded
  <2> QED
    BY <2>1, <2>2, PendingFinite, SMTT(20) DEF Bounded
<1> QED
  BY <1>1, BoundInit, BoundStep, PTL DEF Spec

-----------------------------------------------------------------------------
(* A new state. *)

(* Who gets a state, and who removes it. *)

(* There are more objects than users of one, so New is one without a user. *)
LEMMA NewIsUnused == NewFree
<1> DEFINE P == {pusher[p] : p \in Pushers}
           F == {flusher[f] : f \in Flushers}
           Q == {query}
           X == Q \cup P \cup F
           U == {x.state : x \in X}
<1>1. IsFiniteSet(P) /\ Cardinality(P) \in Nat /\ Cardinality(P) <= Cardinality(Pushers)
  <2>1. IsFiniteSet(Pushers)
    BY UserStatesAssumption
  <2>2. [p \in Pushers |-> pusher[p]] \in Surjection(Pushers, P)
    BY SMTT(20) DEF Surjection
  <2> QED
    BY <2>1, <2>2, FS_Surjection, FS_CardinalityType
<1>2. IsFiniteSet(F) /\ Cardinality(F) \in Nat /\ Cardinality(F) <= Cardinality(Flushers)
  <2>1. IsFiniteSet(Flushers)
    BY UserStatesAssumption
  <2>2. [f \in Flushers |-> flusher[f]] \in Surjection(Flushers, F)
    BY SMTT(20) DEF Surjection
  <2> QED
    BY <2>1, <2>2, FS_Surjection, FS_CardinalityType, SMTT(20)
<1>3. Cardinality(Pushers) \in Nat /\ Cardinality(Flushers) \in Nat
  BY UserStatesAssumption, FS_CardinalityType
<1>4. IsFiniteSet(Q) /\ Cardinality(Q) = 1
  BY FS_Singleton
<1>5. IsFiniteSet(X) /\ Cardinality(X) \in Nat /\ Cardinality(X) <= 1 + Cardinality(P) + Cardinality(F)
  <2> HIDE DEF P, F, Q
  <2> DEFINE Y == Q \cup P
  <2>1. IsFiniteSet(Y) /\ Cardinality(Y) = Cardinality(Q) + Cardinality(P) - Cardinality(Q \cap P)
    BY <1>1, <1>4, FS_Union
  <2>2. Cardinality(Q \cap P) \in Nat
    BY <1>4, FS_Intersection, FS_CardinalityType
  <2> HIDE DEF Y
  <2>3. IsFiniteSet(Y \cup F) /\ Cardinality(Y \cup F) = Cardinality(Y) + Cardinality(F) - Cardinality(Y \cap F)
    BY <1>2, <2>1, FS_Union
  <2>4. Cardinality(Y \cap F) \in Nat /\ Cardinality(Y) \in Nat
    BY <2>1, FS_Intersection, FS_CardinalityType
  <2>5. X = Y \cup F
    BY DEF Y
  <2> HIDE DEF X
  <2>6. Cardinality(X) \in Nat
    BY <2>3, <2>5, FS_CardinalityType
  <2> QED
    BY <1>1, <1>2, <1>4, <2>1, <2>2, <2>3, <2>4, <2>5, <2>6, SMTT(20)
<1> HIDE DEF X, P, F, Q
<1>6. IsFiniteSet(U) /\ Cardinality(U) \in Nat /\ Cardinality(U) <= Cardinality(X)
  <2> DEFINE g == [x \in X |-> x.state]
  <2>1. g \in Surjection(X, U)
    BY DEF Surjection
  <2> QED
    BY <1>5, <2>1, FS_Surjection, FS_CardinalityType
<1>7. IsFiniteSet(Objects) /\ Cardinality(Objects) = Cardinality(Pushers) + Cardinality(Flushers) + 2
  <2> DEFINE n == Cardinality(Pushers) + Cardinality(Flushers) + 2
  <2>1. n \in Int /\ ~(1 > n) /\ n - 1 + 1 = n /\ Objects = 1..n
    BY <1>3, SMTT(20) DEF Objects
  <2> HIDE DEF n
  <2>2. IsFiniteSet(1..n) /\ Cardinality(1..n) = n
    BY <2>1, FS_Interval, SMTT(20)
  <2> QED
    BY <2>1, <2>2 DEF n
<1> HIDE DEF U
<1>8. ~(Objects \subseteq U)
  <2> SUFFICES ASSUME Objects \subseteq U PROVE FALSE
    OBVIOUS
  <2>1. Cardinality(Objects) <= Cardinality(U)
    BY <1>6, FS_Subset
  <2> QED
    BY <2>1, <1>1, <1>2, <1>3, <1>5, <1>6, <1>7, SMTT(20)
<1>9. \E s \in Objects : \A x \in X : x.state # s
  BY <1>8 DEF U
<1>10. New \in Objects /\ \A x \in X : x.state # New
  BY <1>9 DEF New, X, P, F, Q
<1> QED
  BY <1>10 DEF X, F, NewFree

(* The limit and the free object, for the invariants that rest on them.    *)
LEMMA LimitInit == Init => LimitInv
BY BoundInit, NewIsUnused DEF LimitInv, BoundInv

(* Every step keeps them.                                                  *)
LEMMA LimitStep == LimitInv /\ [Next]_vars => LimitInv'
<1>1. LimitInv => BoundInv
  BY DEF LimitInv, BoundInv
<1>2. BoundInv /\ NewFree => LimitInv
  BY DEF LimitInv, BoundInv
<1> QED
  BY <1>1, <1>2, BoundStep, NewIsUnused, PTL

====
