--------------------------- MODULE AutoId_proofs ---------------------------
(***************************************************************************)
(* Proofs about AutoId, for any width of the integers, any limits and any  *)
(* ids in use, in any order.  The loops over the user list and over the    *)
(* range are recursive functions; what they compute is proved by looking   *)
(* at the first place where it would be wrong.                             *)
(***************************************************************************)
EXTENDS AutoId, WellFoundedInduction, TLAPS

-----------------------------------------------------------------------------
(* Numbers *)

\* A set of natural numbers that is not empty has a least one.
LEMMA LeastNat ==
  ASSUME NEW I, I \subseteq Nat, I # {}
  PROVE  \E i \in I : \A j \in I : i <= j
<1>1. PICK i \in I : \A j \in I : ~ (<<j, i>> \in OpToRel(<, Nat))
  BY WFMin, NatLessThanWellFounded, Zenon
<1>2. \A j \in I : i <= j
  <2> TAKE j \in I
  <2>1. ~ (j < i)
    BY <1>1 DEF OpToRel
  <2> QED
    BY <2>1
<1> QED
  BY <1>2

\* An int that is not negative is the same as an unsigned int; -1 is the largest.
LEMMA UnsignedIs ==
  /\ \A i \in Nat : i < M => Unsigned(i) = i
  /\ Unsigned(-1) = M - 1
<1>1. M \in Nat /\ M > 1
  BY WidthAssumption
<1>2. \A i \in Nat : i < M => i % M = i
  BY <1>1
<1>3. (-1) % M = M - 1
  BY <1>1
<1> QED
  BY <1>2, <1>3 DEF Unsigned

LEMMA LimitsAre ==
  ASSUME NEW wanted
  PROVE  /\ Limits(wanted).min \in Nat /\ Limits(wanted).max \in Nat
         /\ 1 <= Limits(wanted).min /\ Limits(wanted).min <= Limits(wanted).max + 1
         /\ Limits(wanted).max < M /\ Limits(wanted).max <= IdMax
<1>1. IdMin \in Nat /\ IdMax \in Nat /\ M \in Nat /\ 1 <= IdMin /\ IdMin <= IdMax /\ IdMax < M
  BY WidthAssumption
<1>2. Unsigned(IdMin - 1) = IdMin - 1
  BY <1>1, UnsignedIs
<1> QED
  BY <1>1, <1>2 DEF Limits

-----------------------------------------------------------------------------
(* The scan of the range *)

AcceptFrom(h, r) ==
  h = [a \in r.min .. r.max + 1 |-> IF a > r.max THEN Full ELSE IF a \in Used THEN h[a + 1] ELSE a]

\* The free ids from a on
FreeFrom(r, a) == {i \in Free(r) : a <= i}

LEMMA AcceptExists ==
  ASSUME NEW r, r.min \in Nat, r.max \in Nat
  PROVE  \E h : AcceptFrom(h, r)
<1> DEFINE least(a) == CHOOSE i \in FreeFrom(r, a) : \A j \in FreeFrom(r, a) : i <= j
           h == [a \in r.min .. r.max + 1 |-> IF FreeFrom(r, a) = {} THEN Full ELSE least(a)]
<1>1. ASSUME NEW a \in r.min .. r.max + 1
      PROVE  h[a] = IF a > r.max THEN Full ELSE IF a \in Used THEN h[a + 1] ELSE a
  <2>1. CASE a > r.max
    <3>1. FreeFrom(r, a) = {}
      BY <2>1 DEF FreeFrom, Free
    <3> QED
      BY <2>1, <3>1
  <2>2. CASE a <= r.max /\ a \in Used
    <3>1. FreeFrom(r, a) = FreeFrom(r, a + 1)
      BY <2>2 DEF FreeFrom, Free
    <3>2. a + 1 \in r.min .. r.max + 1
      BY <2>2
    <3>3. h[a + 1] = IF FreeFrom(r, a + 1) = {} THEN Full ELSE least(a + 1)
      BY <3>2
    <3>4. h[a] = IF FreeFrom(r, a) = {} THEN Full ELSE least(a)
      OBVIOUS
    <3>5. h[a] = h[a + 1]
      <4> HIDE DEF h
      <4> QED
        BY <3>1, <3>3, <3>4
    <3> HIDE DEF h
    <3> QED
      BY <2>2, <3>5
  <2>3. CASE a <= r.max /\ a \notin Used
    <3>1. a \in FreeFrom(r, a) /\ \A j \in FreeFrom(r, a) : a <= j
      BY <2>3 DEF FreeFrom, Free
    <3>2. \A i \in FreeFrom(r, a) : i \in Int
      BY DEF FreeFrom, Free
    <3>3. least(a) = a
      <4>1. least(a) \in FreeFrom(r, a) /\ \A j \in FreeFrom(r, a) : least(a) <= j
        BY <3>1
      <4> HIDE DEF least
      <4> QED
        BY <3>1, <3>2, <4>1
    <3>4. h[a] = least(a)
      BY <3>1
    <3> HIDE DEF h, least
    <3> QED
      BY <2>3, <3>3, <3>4
  <2> QED
    BY <2>1, <2>2, <2>3
<1>2. h = [a \in r.min .. r.max + 1 |-> h[a]]
  OBVIOUS
<1> HIDE DEF h
<1>3. AcceptFrom(h, r)
  BY <1>1, <1>2 DEF AcceptFrom
<1> QED
  BY <1>3

\* The scan finds the lowest free id, if there is one.
LEMMA ScanIs ==
  ASSUME NEW r, r.min \in Nat, r.max \in Nat, r.min <= r.max + 1
  PROVE  IF Free(r) = {} THEN Scan(r) = Full ELSE Scan(r) \in Free(r) /\ \A i \in Free(r) : Scan(r) <= i
<1> DEFINE h == CHOOSE f : f = [a \in r.min .. r.max + 1 |->
                                  IF a > r.max THEN Full ELSE IF a \in Used THEN f[a + 1] ELSE a]
<1>1. AcceptFrom(h, r)
  BY AcceptExists DEF AcceptFrom
<1>2. Scan(r) = h[r.min]
  BY DEF Scan
<1> HIDE DEF h
<1>3. \A a \in r.min .. r.max + 1 :
        h[a] = IF a > r.max THEN Full ELSE IF a \in Used THEN h[a + 1] ELSE a
  BY <1>1 DEF AcceptFrom
<1> DEFINE good(a) == IF FreeFrom(r, a) = {} THEN h[a] = Full
                      ELSE h[a] \in FreeFrom(r, a) /\ \A i \in FreeFrom(r, a) : h[a] <= i
           bad == {k \in 0 .. r.max + 1 - r.min : ~ good(r.max + 1 - k)}
<1>4. bad = {}
  <2> SUFFICES ASSUME bad # {} PROVE FALSE
    OBVIOUS
  <2>1. bad \subseteq Nat
    OBVIOUS
  <2> HIDE DEF bad
  <2>2. PICK k \in bad : \A j \in bad : k <= j
    BY <2>1, LeastNat
  <2> USE DEF bad
  <2> DEFINE a == r.max + 1 - k
  <2>3. k \in Nat /\ a \in r.min .. r.max + 1 /\ ~ good(a)
    BY <2>2
  <2>4. CASE a > r.max
    <3>1. FreeFrom(r, a) = {}
      BY <2>4 DEF FreeFrom, Free
    <3> QED
      BY <1>3, <2>3, <2>4, <3>1
  <2>5. CASE a <= r.max /\ a \notin Used
    <3>1. a \in FreeFrom(r, a) /\ \A j \in FreeFrom(r, a) : a <= j
      BY <2>3, <2>5 DEF FreeFrom, Free
    <3>2. h[a] = a
      BY <1>3, <2>3, <2>5
    <3> QED
      BY <2>3, <3>1, <3>2
  <2>6. CASE a <= r.max /\ a \in Used
    <3>1. k - 1 \in 0 .. r.max + 1 - r.min /\ r.max + 1 - (k - 1) = a + 1 /\ k - 1 < k
      BY <2>2, <2>3, <2>6
    <3>2. k - 1 \notin bad
      BY <2>2, <3>1
    <3>3. good(a + 1)
      BY <3>1, <3>2
    <3>4. FreeFrom(r, a) = FreeFrom(r, a + 1)
      BY <2>3, <2>6 DEF FreeFrom, Free
    <3>5. h[a] = h[a + 1]
      BY <1>3, <2>3, <2>6
    <3> QED
      BY <2>3, <3>3, <3>4, <3>5
  <2> QED
    BY <2>3, <2>4, <2>5, <2>6
<1>5. good(r.min)
  <2>1. r.max + 1 - r.min \in 0 .. r.max + 1 - r.min /\ r.max + 1 - (r.max + 1 - r.min) = r.min
    OBVIOUS
  <2> QED
    BY <1>4, <2>1
<1>6. FreeFrom(r, r.min) = Free(r)
  BY DEF FreeFrom, Free
<1> QED
  BY <1>2, <1>5, <1>6

-----------------------------------------------------------------------------
(* The search for the highest id *)

HighFor(h, list, r, n) ==
  h = [i \in 0 .. n |->
        IF i = 0 THEN -1
        ELSE IF list[i] \in r.min .. r.max /\ Exceeds(list[i], h[i - 1]) THEN Signed(list[i])
        ELSE h[i - 1]]

LEMMA HighExists == ASSUME NEW list, NEW r, NEW n \in Nat PROVE \E h : HighFor(h, list, r, n)
<1> DEFINE next(i, high) == IF list[i] \in r.min .. r.max /\ Exceeds(list[i], high) THEN Signed(list[i])
                            ELSE high
           bad == {k \in Nat : ~ \E h : HighFor(h, list, r, k)}
<1> SUFFICES ASSUME bad # {} PROVE FALSE
  OBVIOUS
<1>1. PICK k \in bad : \A j \in bad : k <= j
  <2>1. bad \subseteq Nat
    OBVIOUS
  <2> HIDE DEF bad
  <2> QED
    BY <2>1, LeastNat
<1>2. k \in Nat /\ ~ \E h : HighFor(h, list, r, k)
  OBVIOUS
<1>3. k # 0
  <2> SUFFICES ASSUME k = 0 PROVE FALSE
    OBVIOUS
  <2> DEFINE h == [i \in 0 .. 0 |-> -1]
  <2>1. \A i \in 0 .. 0 : i = 0
    OBVIOUS
  <2>2. h = [i \in 0 .. 0 |-> IF i = 0 THEN -1 ELSE next(i, h[i - 1])]
    BY <2>1
  <2>3. HighFor(h, list, r, 0)
    BY <2>2 DEF HighFor
  <2> QED
    BY <1>2, <2>3
<1>4. k - 1 \in Nat /\ k - 1 \notin bad
  BY <1>1, <1>2, <1>3
<1>5. PICK h : HighFor(h, list, r, k - 1)
  BY <1>4
<1>6. \A i \in 0 .. k - 1 : h[i] = IF i = 0 THEN -1 ELSE next(i, h[i - 1])
  BY <1>5 DEF HighFor
<1> HIDE DEF next
<1> DEFINE f == [i \in 0 .. k |-> IF i = k THEN next(k, h[k - 1]) ELSE h[i]]
<1>7. ASSUME NEW i \in 0 .. k
      PROVE  f[i] = IF i = 0 THEN -1 ELSE next(i, f[i - 1])
  <2>1. CASE i = k
    <3>1. k - 1 \in 0 .. k /\ k - 1 # k
      BY <1>2, <1>3
    <3>2. f[k - 1] = h[k - 1]
      BY <3>1
    <3> QED
      BY <1>3, <2>1, <3>2
  <2>2. CASE i # k
    <3>1. i \in 0 .. k - 1
      BY <1>2, <2>2
    <3>2. h[i] = IF i = 0 THEN -1 ELSE next(i, h[i - 1])
      BY <1>6, <3>1
    <3>3. i # 0 => i - 1 \in 0 .. k /\ i - 1 # k
      BY <1>2, <3>1
    <3>4. f[i] = h[i] /\ (i # 0 => f[i - 1] = h[i - 1])
      BY <2>2, <3>3
    <3> QED
      BY <3>2, <3>4
  <2> QED
    BY <2>1, <2>2
<1>8. f = [i \in 0 .. k |-> f[i]]
  OBVIOUS
<1> HIDE DEF f
<1>9. f = [i \in 0 .. k |-> IF i = 0 THEN -1 ELSE next(i, f[i - 1])]
  BY <1>7, <1>8
<1>10. HighFor(f, list, r, k)
  BY <1>9 DEF HighFor, next
<1> QED
  BY <1>2, <1>10

\* The ids of the range among the first n of the list
Taken(list, r, n) == {list[i] : i \in 1 .. n} \cap (r.min .. r.max)

\* The search looks at ids of the range only; in the shadow driver no id is
\* above the -1 it begins with; in mmd it finds the highest one, if the range
\* does not go beyond INT_MAX.
LEMMA HighestIs ==
  ASSUME NEW list \in Seq(Nat), NEW r, r.min \in Nat, r.max \in Nat, r.max < M
  PROVE  /\ Highest(list, r) = -1 \/ \E x \in Taken(list, r, Len(list)) : Highest(list, r) = Signed(x)
         /\ driver = "shadow" => Highest(list, r) = -1
         /\ driver # "shadow" /\ r.max < M \div 2 =>
              \A x \in Taken(list, r, Len(list)) : x <= Highest(list, r)
<1> DEFINE N == Len(list)
           h == CHOOSE f : f = [i \in 0 .. N |->
                  IF i = 0 THEN -1
                  ELSE IF list[i] \in r.min .. r.max /\ Exceeds(list[i], f[i - 1]) THEN Signed(list[i])
                  ELSE f[i - 1]]
<1>1. N \in Nat /\ \A i \in 1 .. N : list[i] \in Nat
  OBVIOUS
<1>2. HighFor(h, list, r, N)
  <2>1. N \in Nat
    BY <1>1
  <2> HIDE DEF N
  <2>2. \E f : HighFor(f, list, r, N)
    BY <2>1, HighExists
  <2> QED
    BY <2>2 DEF HighFor
<1>3. Highest(list, r) = h[N]
  BY DEF Highest
<1> HIDE DEF h, N
<1>4. h[0] = -1
  BY <1>1, <1>2 DEF HighFor
<1>5. \A i \in 1 .. N :
        h[i] = IF list[i] \in r.min .. r.max /\ Exceeds(list[i], h[i - 1]) THEN Signed(list[i])
               ELSE h[i - 1]
  BY <1>1, <1>2 DEF HighFor
<1>6. M \in Nat /\ M % 2 = 0 /\ M \div 2 \in Nat /\ Unsigned(-1) = M - 1
  BY WidthAssumption, UnsignedIs
<1>7. \A x \in Nat : x < M \div 2 => Signed(x) = x
  BY DEF Signed
<1>8. \A x \in Nat : Signed(x) \in Int
  BY <1>6 DEF Signed
<1> DEFINE good(i) ==
             /\ h[i] = -1 \/ \E x \in Taken(list, r, i) : h[i] = Signed(x)
             /\ driver = "shadow" => h[i] = -1
             /\ driver # "shadow" /\ r.max < M \div 2 => \A x \in Taken(list, r, i) : x <= h[i]
           bad == {i \in 0 .. N : ~ good(i)}
<1>9. bad = {}
  <2> SUFFICES ASSUME bad # {} PROVE FALSE
    OBVIOUS
  <2>1. bad \subseteq Nat
    BY <1>1
  <2> HIDE DEF bad
  <2>2. PICK i \in bad : \A j \in bad : i <= j
    BY <2>1, LeastNat
  <2> USE DEF bad
  <2>3. i \in 0 .. N /\ ~ good(i)
    BY <2>2
  <2>4. i # 0
    <3>1. Taken(list, r, 0) = {}
      BY DEF Taken
    <3>2. good(0)
      BY <1>4, <3>1
    <3> QED
      BY <2>3, <3>2
  <2>5. i \in 1 .. N /\ good(i - 1)
    BY <1>1, <2>2, <2>3, <2>4
  <2>6. Taken(list, r, i) = Taken(list, r, i - 1) \cup ({list[i]} \cap (r.min .. r.max))
    <3>1. \A j \in 1 .. i : j \in 1 .. i - 1 \/ j = i
      BY <2>5
    <3>2. i \in 1 .. i /\ \A j \in 1 .. i - 1 : j \in 1 .. i
      BY <2>5
    <3> QED
      BY <3>1, <3>2 DEF Taken
  <2>7. list[i] \in Nat
    BY <1>1, <2>5
  <2>8. \A x \in Taken(list, r, i) : x \in Nat /\ x <= r.max
    BY DEF Taken
  <2>9. h[i - 1] \in Int
    <3>1. \A x \in Taken(list, r, i - 1) : x \in Nat
      BY <2>6, <2>8
    <3> QED
      BY <1>8, <2>5, <3>1
  <2> DEFINE up == list[i] \in r.min .. r.max /\ Exceeds(list[i], h[i - 1])
  <2>10. h[i] = IF up THEN Signed(list[i]) ELSE h[i - 1]
    BY <1>5, <2>5
  <2>11. h[i] = -1 \/ \E x \in Taken(list, r, i) : h[i] = Signed(x)
    BY <2>5, <2>6, <2>10
  <2>12. ASSUME driver = "shadow" PROVE h[i] = -1
    <3>1. h[i - 1] = -1
      BY <2>5, <2>12
    <3>2. ~ up
      BY <1>6, <2>7, <2>12, <3>1 DEF Exceeds
    <3> QED
      BY <2>10, <3>1, <3>2
  <2>13. ASSUME driver # "shadow", r.max < M \div 2, NEW x \in Taken(list, r, i) PROVE x <= h[i]
    <3>1. list[i] \in r.min .. r.max => (up <=> list[i] > h[i - 1]) /\ Signed(list[i]) = list[i]
      BY <1>6, <1>7, <2>7, <2>13 DEF Exceeds
    <3>2. x \in Taken(list, r, i - 1) => x <= h[i - 1]
      BY <2>5, <2>13
    <3>3. x \in Taken(list, r, i - 1) \/ (x = list[i] /\ list[i] \in r.min .. r.max)
      BY <2>6
    <3>4. x \in Nat
      BY <2>8
    <3>5. up => list[i] \in r.min .. r.max
      OBVIOUS
    <3> HIDE DEF up
    <3>6. CASE up
      BY <2>7, <2>9, <2>10, <3>1, <3>2, <3>3, <3>4, <3>5, <3>6
    <3>7. CASE ~ up
      BY <2>7, <2>9, <2>10, <3>1, <3>2, <3>3, <3>4, <3>7
    <3> QED
      BY <3>6, <3>7
  <2> QED
    BY <2>3, <2>11, <2>12, <2>13
<1>10. good(N)
  BY <1>1, <1>9
<1> QED
  BY <1>3, <1>10 DEF N

-----------------------------------------------------------------------------
(* The specification *)

TypeOK == ids \in Seq(Nat) /\ driver \in {"shadow", "mmd"}

\* What automatic_uid() and the like return
LEMMA AutomaticIs ==
  ASSUME TypeOK, NEW wanted \in {AUTOID, AUTOID_SYS}
  PROVE  LET r     == Limits(wanted)
             taken == Used \cap (r.min .. r.max)
             id    == automatic_id(wanted)
         IN  /\ id \in r.min .. r.max \/ (Free(r) = {} /\ id = Full)
             /\ driver = "shadow" =>
                  IF Free(r) = {} THEN id = Full ELSE id \in Free(r) /\ \A i \in Free(r) : id <= i
             /\ driver = "mmd" /\ IdMax < M \div 2 =>
                  /\ IF Free(r) = {} THEN id = Full ELSE id \in Free(r)
                  /\ taken # {} /\ r.max \notin taken => id - 1 \in taken /\ \A i \in taken : i < id
<1> DEFINE r     == Limits(wanted)
           taken == Used \cap (r.min .. r.max)
           id    == automatic_id(wanted)
           high  == Highest(ids, r)
<1>1. /\ r.min \in Nat /\ r.max \in Nat /\ 1 <= r.min /\ r.min <= r.max + 1
      /\ r.max < M /\ r.max <= IdMax
  BY LimitsAre
<1>2. M \in Nat /\ IdMax \in Nat /\ M \div 2 \in Nat /\ M >= 2 * (M \div 2)
  BY WidthAssumption
<1>3. taken = Taken(ids, r, Len(ids))
  <2>1. DOMAIN ids = 1 .. Len(ids)
    BY DEF TypeOK
  <2> QED
    BY <2>1 DEF Taken, Used
<1>4. id = IF high >= 0 /\ high < r.max THEN Unsigned(high + 1) ELSE Scan(r)
  BY DEF automatic_id
<1> HIDE DEF r, taken, id, high
<1>5. /\ high = -1 \/ \E x \in taken : high = Signed(x)
      /\ driver = "shadow" => high = -1
      /\ driver # "shadow" /\ r.max < M \div 2 => \A x \in taken : x <= high
  BY <1>1, <1>3, HighestIs DEF TypeOK, high
<1>6. IF Free(r) = {} THEN Scan(r) = Full ELSE Scan(r) \in Free(r) /\ \A i \in Free(r) : Scan(r) <= i
  BY <1>1, ScanIs
<1>7. \A x \in taken : x \in Nat /\ r.min <= x /\ x <= r.max
  BY <1>1 DEF taken
<1>8. Free(r) = (r.min .. r.max) \ taken
  BY DEF Free, taken
<1>9. \A x \in taken : Signed(x) \in Int /\ (Signed(x) >= 0 => Signed(x) = x)
  BY <1>1, <1>2, <1>7 DEF Signed
<1>10. high \in Int /\ (high >= 0 => high \in taken)
  BY <1>5, <1>9
<1>11. high >= 0 /\ high < r.max => id = high + 1 /\ id \in r.min .. r.max
  <2> SUFFICES ASSUME high >= 0, high < r.max PROVE id = high + 1 /\ id \in r.min .. r.max
    OBVIOUS
  <2>1. high + 1 \in Nat /\ high + 1 < M
    BY <1>1, <1>2, <1>10
  <2>2. Unsigned(high + 1) = high + 1
    BY <2>1, UnsignedIs
  <2>3. r.min <= high
    BY <1>7, <1>10
  <2> QED
    BY <1>1, <1>4, <1>10, <2>2, <2>3
<1>12. ~(high >= 0 /\ high < r.max) => id = Scan(r)
  BY <1>4
<1>13. id \in r.min .. r.max \/ (Free(r) = {} /\ id = Full)
  BY <1>6, <1>8, <1>11, <1>12
<1>14. ASSUME driver = "shadow"
       PROVE  IF Free(r) = {} THEN id = Full ELSE id \in Free(r) /\ \A i \in Free(r) : id <= i
  <2>1. high = -1
    BY <1>5, <1>14
  <2> QED
    BY <1>6, <1>12, <2>1
<1>15. ASSUME driver = "mmd", IdMax < M \div 2
       PROVE  /\ IF Free(r) = {} THEN id = Full ELSE id \in Free(r)
              /\ taken # {} /\ r.max \notin taken => id - 1 \in taken /\ \A i \in taken : i < id
  <2>1. \A x \in taken : x <= high
    BY <1>1, <1>2, <1>5, <1>15
  <2>2. CASE high >= 0 /\ high < r.max
    <3>1. \A x \in taken : x < id
      BY <1>7, <1>10, <1>11, <2>1, <2>2
    <3>2. id \notin taken
      BY <1>7, <3>1
    <3>3. id \in Free(r)
      BY <1>8, <1>11, <2>2, <3>2
    <3>4. id - 1 \in taken
      BY <1>10, <1>11, <2>2
    <3> QED
      BY <3>1, <3>3, <3>4
  <2>3. CASE ~(high >= 0 /\ high < r.max)
    <3>1. taken # {} => r.max \in taken
      <4> SUFFICES ASSUME NEW x \in taken PROVE r.max \in taken
        OBVIOUS
      <4>1. high >= 0
        BY <1>7, <1>10, <2>1
      <4>2. high <= r.max
        BY <1>7, <1>10, <4>1
      <4>3. high = r.max
        BY <1>1, <1>10, <2>3, <4>1, <4>2
      <4> QED
        BY <1>10, <4>1, <4>3
    <3>2. IF Free(r) = {} THEN id = Full ELSE id \in Free(r)
      BY <1>6, <1>12, <2>3
    <3> QED
      BY <3>1, <3>2
  <2> QED
    BY <2>2, <2>3
<1> QED
  BY <1>13, <1>14, <1>15 DEF r, taken, id

LEMMA TypeHolds == Spec => []TypeOK
<1>1. Init => TypeOK
  BY DEF Init, TypeOK
<1>2. TypeOK /\ [Next]_vars => TypeOK'
  <2> SUFFICES ASSUME TypeOK, [Next]_vars PROVE TypeOK'
    OBVIOUS
  <2>1. ASSUME NEW wanted \in Explicit \cup {AUTOID, AUTOID_SYS}, useradd(wanted) PROVE TypeOK'
    <3>1. automatic_id(wanted) \in Nat
      <4>1. CASE wanted \in {AUTOID, AUTOID_SYS}
        <5>1. Limits(wanted).min \in Nat /\ Limits(wanted).max \in Nat
          BY LimitsAre
        <5>2. Full \in Nat
          BY WidthAssumption DEF Full, Unsigned
        <5>3. automatic_id(wanted) \in Limits(wanted).min .. Limits(wanted).max
              \/ automatic_id(wanted) = Full
          BY <4>1, AutomaticIs
        <5> QED
          BY <5>1, <5>2, <5>3
      <4>2. CASE wanted \notin {AUTOID, AUTOID_SYS}
        <5>1. automatic_id(wanted) = wanted
          BY <4>2 DEF automatic_id
        <5> QED
          BY <4>2, <5>1, WidthAssumption
      <4> QED
        BY <4>1, <4>2
    <3> QED
      BY <2>1, <3>1 DEF useradd, TypeOK
  <2>2. ASSUME NEW i \in DOMAIN ids, userdel(i) PROVE TypeOK'
    <3>1. i \in 1 .. Len(ids)
      BY DEF TypeOK
    <3>2. SubSeq(ids, 1, i - 1) \in Seq(Nat) /\ SubSeq(ids, i + 1, Len(ids)) \in Seq(Nat)
      BY <3>1 DEF TypeOK
    <3> QED
      BY <2>2, <3>2 DEF userdel, TypeOK
  <2>3. CASE UNCHANGED vars
    BY <2>3 DEF vars, TypeOK
  <2> QED
    BY <2>1, <2>2, <2>3 DEF Next
<1> QED
  BY <1>1, <1>2, PTL DEF Spec

(* Whatever ids are in use, in whatever order, the id chosen is free and     *)
(* within its limits, or there is none: for any width of an unsigned int.    *)
(* In mmd this needs limits that an int can hold.                            *)
THEOREM ChosenFree == Spec => []ChosenIsFree
<1>1. TypeOK => ChosenIsFree
  BY AutomaticIs DEF TypeOK, ChosenIsFree
<1> QED
  BY <1>1, TypeHolds, PTL

(* shadow chooses the lowest free id, mmd the successor of the highest.      *)
THEOREM WhichIsChosen == Spec => []LowestOrNext
<1>1. TypeOK => LowestOrNext
  BY AutomaticIs DEF TypeOK, LowestOrNext
<1> QED
  BY <1>1, TypeHolds, PTL

(* Every account added with an automatic id has one within the limits, but   *)
(* for the number of the error in mmd where a long is wider than an int.     *)
THEOREM AddedWithinLimits == Spec => []GivenWithinLimits
<1>1. Init => GivenWithinLimits
  <2>1. AUTOID # 0 /\ AUTOID_SYS # 0
    <3>1. M \in Nat /\ M > 4
      BY WidthAssumption
    <3>2. (-1) % M = M - 1 /\ (-2) % M = M - 2
      BY <3>1
    <3> QED
      BY <3>1, <3>2 DEF AUTOID, AUTOID_SYS, Unsigned
  <2> QED
    BY <2>1 DEF Init, GivenWithinLimits
<1>2. TypeOK /\ GivenWithinLimits /\ [Next]_vars => GivenWithinLimits'
  <2> SUFFICES ASSUME TypeOK, GivenWithinLimits, [Next]_vars PROVE GivenWithinLimits'
    OBVIOUS
  <2>1. ASSUME NEW wanted \in Explicit \cup {AUTOID, AUTOID_SYS}, useradd(wanted)
        PROVE  GivenWithinLimits'
    <3>1. given'.wanted = wanted /\ given'.id = automatic_id(wanted) /\ UNCHANGED <<driver, wide>>
      BY <2>1 DEF useradd
    <3>2. ~Refused(automatic_id(wanted))
      BY <2>1 DEF useradd
    <3>3. wanted \in {AUTOID, AUTOID_SYS} =>
            automatic_id(wanted) \in Limits(wanted).min .. Limits(wanted).max \/ automatic_id(wanted) = Full
      BY AutomaticIs
    <3>4. automatic_id(wanted) = Full => driver = "mmd" /\ wide
      BY <3>2 DEF Refused, TypeOK
    <3> QED
      BY <3>1, <3>3, <3>4 DEF GivenWithinLimits, AUTOID, AUTOID_SYS, Limits, Full
  <2>2. ASSUME NEW i \in DOMAIN ids, userdel(i) PROVE GivenWithinLimits'
    BY <2>2 DEF userdel, GivenWithinLimits
  <2>3. CASE UNCHANGED vars
    BY <2>3 DEF vars, GivenWithinLimits
  <2> QED
    BY <2>1, <2>2, <2>3 DEF Next
<1> QED
  BY <1>1, <1>2, TypeHolds, PTL DEF Spec
=============================================================================
