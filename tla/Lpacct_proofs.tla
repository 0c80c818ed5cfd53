---------------------------- MODULE Lpacct_proofs ----------------------------
(***************************************************************************)
(* Proofs about Lpacct and the analyzers in lpacct/drop.c, for any         *)
(* documents, any size of the chunks and any portions in which the pipe    *)
(* delivers an image.                                                      *)
(***************************************************************************)
EXTENDS Lpacct, SequenceTheorems, WellFoundedInduction, TLAPS

-----------------------------------------------------------------------------
(* The integer arithmetic, for every chunk that mpxm_chunk_alloc() leaves    *)
(* room for                                                                  *)

MaxPixels == 65536      \* buffer_size, in pixels of three bytes
UintMod   == 4294967296 \* unsigned int has 32 bits

(* The sums over the red, green and blue bytes of so many pixels, and the    *)
(* weighted sum that rgb_to_gray() makes of them, fit in an unsigned int:    *)
(* pxcost_gray() counts modulo nothing.  The comment there looks at the sums *)
(* only and allows 16843009 pixels; the weighted sum would fit no more than  *)
(* 65793.                                                                    *)
THEOREM GrayFits ==
  ASSUME NEW n \in 0 .. MaxPixels,
         NEW r \in 0 .. 255 * n, NEW g \in 0 .. 255 * n, NEW b \in 0 .. 255 * n
  PROVE  /\ r < UintMod /\ g < UintMod /\ b < UintMod
         /\ 78 * r + 151 * g + 27 * b < UintMod
<1>1. n <= 65536 /\ r <= 255 * n /\ g <= 255 * n /\ b <= 255 * n /\ n \in Int
  BY DEF MaxPixels
<1>2. r <= 16711680 /\ g <= 16711680 /\ b <= 16711680
  BY <1>1
<1> QED BY <1>2 DEF UintMod

(* What pxcost_gray() subtracts for a chunk is never more than the full ink  *)
(* of its pixels: the cost of a page, an unsigned number, does not wrap.     *)
THEOREM GrayBelowFull ==
  ASSUME NEW n \in Nat,
         NEW r \in 0 .. 255 * n, NEW g \in 0 .. 255 * n, NEW b \in 0 .. 255 * n
  PROVE  rgb_to_gray(r, g, b) \in 0 .. 255 * n
<1> DEFINE full == 255 * n
           weighted == 78 * r + 151 * g + 27 * b
<1>1. full \in Nat /\ weighted \in Nat
  OBVIOUS
<1>2. weighted <= 256 * full
  OBVIOUS
<1> HIDE DEF full, weighted
<1>3. weighted \div 256 \in 0 .. full
  BY <1>1, <1>2
<1> QED BY <1>3 DEF rgb_to_gray, full, weighted

(* The rounded distance kdist() is at most 8 exactly when the squares of the *)
(* differences come to at most 24: the integer variant tells gray pixels as  *)
(* the floating point variant in the comment does, ceil(... / 3.0) <= 8.     *)
THEOREM GrayLooking ==
  ASSUME NEW r \in 0 .. 255, NEW g \in 0 .. 255, NEW b \in 0 .. 255
  PROVE  kdist(r, g, b) <= 8 <=> LooksGray(r, g, b)
<1> DEFINE squares == (r - g) * (r - g) + (r - b) * (r - b) + (g - b) * (g - b)
<1>1. squares \in Int
  OBVIOUS
<1> HIDE DEF squares
<1>2. (squares + 2) \div 3 <= 8 <=> squares <= 24
  BY <1>1
<1> QED BY <1>2 DEF kdist, LooksGray, squares

-----------------------------------------------------------------------------
(* Sums *)

\* A set of natural numbers that is not empty has a least one.
LEMMA LeastNat ==
  ASSUME NEW I, I \subseteq Nat, I # {}
  PROVE  \E i \in I : \A j \in I : i <= j
<1>1. PICK i \in I : \A j \in I : ~ (<<j, i>> \in OpToRel(<, Nat))
  BY WFMin, NatLessThanWellFounded, Zenon
<1>2. \A j \in I : i <= j
  <2> TAKE j \in I
  <2>1. ~ (j < i)
    BY <1>1 DEF OpToRel
  <2> QED
    BY <2>1
<1> QED
  BY <1>2

\* h has the sums of the first 0 to n members of s.
Sums(h, s, n) == h = [i \in 0 .. n |-> IF i = 0 THEN 0 ELSE h[i - 1] + s[i]]

LEMMA SumsExist == ASSUME NEW b, NEW n \in Nat PROVE \E h : Sums(h, b, n)
<1> DEFINE next(i, sum) == sum + b[i]
           bad == {k \in Nat : ~ \E h : Sums(h, b, k)}
<1> SUFFICES ASSUME bad # {} PROVE FALSE
  OBVIOUS
<1>1. PICK k \in bad : \A j \in bad : k <= j
  <2>1. bad \subseteq Nat
    OBVIOUS
  <2> HIDE DEF bad
  <2> QED
    BY <2>1, LeastNat
<1>2. k \in Nat /\ ~ \E h : Sums(h, b, k)
  OBVIOUS
<1>3. k # 0
  <2> SUFFICES ASSUME k = 0 PROVE FALSE
    OBVIOUS
  <2> DEFINE h == [i \in 0 .. 0 |-> 0]
  <2>1. \A i \in 0 .. 0 : i = 0
    OBVIOUS
  <2>2. h = [i \in 0 .. 0 |-> IF i = 0 THEN 0 ELSE next(i, h[i - 1])]
    BY <2>1
  <2>3. Sums(h, b, 0)
    BY <2>2 DEF Sums
  <2> QED
    BY <1>2, <2>3
<1>4. k - 1 \in Nat /\ k - 1 \notin bad
  BY <1>1, <1>2, <1>3
<1>5. PICK h : Sums(h, b, k - 1)
  BY <1>4
<1>6. \A i \in 0 .. k - 1 : h[i] = IF i = 0 THEN 0 ELSE next(i, h[i - 1])
  BY <1>5 DEF Sums
<1> HIDE DEF next
<1> DEFINE f == [i \in 0 .. k |-> IF i = k THEN next(k, h[k - 1]) ELSE h[i]]
<1>7. ASSUME NEW i \in 0 .. k
      PROVE  f[i] = IF i = 0 THEN 0 ELSE next(i, f[i - 1])
  <2>1. CASE i = k
    <3>1. k - 1 \in 0 .. k /\ k - 1 # k
      BY <1>2, <1>3
    <3>2. f[k - 1] = h[k - 1]
      BY <3>1
    <3> QED
      BY <1>3, <2>1, <3>2
  <2>2. CASE i # k
    <3>1. i \in 0 .. k - 1
      BY <1>2, <2>2
    <3>2. h[i] = IF i = 0 THEN 0 ELSE next(i, h[i - 1])
      BY <1>6, <3>1
    <3>3. i # 0 => i - 1 \in 0 .. k /\ i - 1 # k
      BY <1>2, <3>1
    <3>4. f[i] = h[i] /\ (i # 0 => f[i - 1] = h[i - 1])
      BY <2>2, <3>3
    <3> QED
      BY <3>2, <3>4
  <2> QED
    BY <2>1, <2>2
<1>8. f = [i \in 0 .. k |-> f[i]]
  OBVIOUS
<1> HIDE DEF f
<1>9. f = [i \in 0 .. k |-> IF i = 0 THEN 0 ELSE next(i, f[i - 1])]
  BY <1>7, <1>8
<1>10. Sums(f, b, k)
  BY <1>9 DEF Sums, next
<1> QED
  BY <1>2, <1>10

LEMMA UpTo ==
  ASSUME NEW n \in Nat, NEW S, 0 \in S, \A i \in 0 .. n - 1 : i \in S => i + 1 \in S
  PROVE  0 .. n \subseteq S
<1> DEFINE bad == {i \in 0 .. n : i \notin S}
<1> SUFFICES ASSUME bad # {} PROVE FALSE
  OBVIOUS
<1>1. PICK k \in bad : \A j \in bad : k <= j
  <2>1. bad \subseteq Nat
    OBVIOUS
  <2> HIDE DEF bad
  <2> QED
    BY <2>1, LeastNat
<1>2. k \in 0 .. n /\ k \notin S /\ k # 0
  OBVIOUS
<1>3. k - 1 \in 0 .. n - 1 /\ k - 1 + 1 = k
  BY <1>2
<1>4. k - 1 \notin bad
  BY <1>1, <1>3
<1>5. k - 1 \in S
  BY <1>3, <1>4
<1> QED
  BY <1>2, <1>3, <1>5

LEMMA SumIs ==
  ASSUME NEW s, Len(s) \in Nat
  PROVE  \E h : Sums(h, s, Len(s)) /\ Sum(s) = h[Len(s)]
<1> DEFINE n == Len(s)
           f == CHOOSE f : f = [i \in 0 .. n |-> IF i = 0 THEN 0 ELSE f[i - 1] + s[i]]
<1>1. PICK h : h = [i \in 0 .. n |-> IF i = 0 THEN 0 ELSE h[i - 1] + s[i]]
  BY SumsExist DEF Sums
<1>2. f = [i \in 0 .. n |-> IF i = 0 THEN 0 ELSE f[i - 1] + s[i]]
  BY <1>1
<1>3. Sum(s) = f[n]
  BY DEF Sum
<1> HIDE DEF f
<1> QED
  BY <1>2, <1>3 DEF Sums

LEMMA SumsSteps ==
  ASSUME NEW h, NEW s, NEW n \in Nat, Sums(h, s, n)
  PROVE  h[0] = 0 /\ \A i \in 0 .. n - 1 : h[i + 1] = h[i] + s[i + 1]
<1>1. h[0] = 0
  BY DEF Sums
<1>2. ASSUME NEW i \in 0 .. n - 1 PROVE h[i + 1] = h[i] + s[i + 1]
  <2>1. i + 1 \in 0 .. n /\ i + 1 # 0 /\ i + 1 - 1 = i
    OBVIOUS
  <2>2. h[i + 1] = IF i + 1 = 0 THEN 0 ELSE h[i + 1 - 1] + s[i + 1]
    BY <2>1 DEF Sums
  <2> QED
    BY <2>1, <2>2
<1> QED
  BY <1>1, <1>2

LEMMA SumsInt ==
  ASSUME NEW h, NEW s, NEW n \in Nat, Sums(h, s, n), \A i \in 1 .. n : s[i] \in Int
  PROVE  \A i \in 0 .. n : h[i] \in Int
<1> DEFINE S == {i \in 0 .. n : h[i] \in Int}
<1>1. 0 \in S
  BY SumsSteps
<1>2. ASSUME NEW i \in 0 .. n - 1, i \in S PROVE i + 1 \in S
  <2>1. i + 1 \in 1 .. n
    OBVIOUS
  <2>2. h[i + 1] = h[i] + s[i + 1]
    BY SumsSteps
  <2> QED
    BY <1>2, <2>1, <2>2
<1> HIDE DEF S
<1>3. 0 .. n \subseteq S
  BY <1>1, <1>2, UpTo
<1> QED
  BY <1>3 DEF S

Adds(h, s, n) ==
  /\ Sum(s) = h[n] /\ h[0] = 0
  /\ \A i \in 0 .. n - 1 : h[i + 1] = h[i] + s[i + 1]
  /\ \A i \in 0 .. n : h[i] \in Int

LEMMA SumSteps ==
  ASSUME NEW s \in Seq(Int), NEW n, n = Len(s)
  PROVE  \E h : Adds(h, s, n)
<1>1. n \in Nat /\ \A i \in 1 .. n : s[i] \in Int
  OBVIOUS
<1>2. PICK h : Sums(h, s, n) /\ Sum(s) = h[n]
  BY <1>1, SumIs
<1>3. h[0] = 0 /\ \A i \in 0 .. n - 1 : h[i + 1] = h[i] + s[i + 1]
  BY <1>1, <1>2, SumsSteps
<1>4. \A i \in 0 .. n : h[i] \in Int
  BY <1>1, <1>2, SumsInt
<1> QED
  BY <1>2, <1>3, <1>4 DEF Adds

LEMMA SumInt ==
  ASSUME NEW s \in Seq(Int)
  PROVE  Sum(s) \in Int
<1>1. Len(s) \in Nat /\ \A i \in 1 .. Len(s) : s[i] \in Int
  OBVIOUS
<1>2. PICK h : Sums(h, s, Len(s)) /\ Sum(s) = h[Len(s)]
  BY <1>1, SumIs
<1>3. h[Len(s)] \in Int
  BY <1>1, <1>2, SumsInt
<1> QED
  BY <1>2, <1>3

LEMMA SumNat ==
  ASSUME NEW s \in Seq(Nat)
  PROVE  Sum(s) \in Nat
<1>1. Len(s) \in Nat /\ \A i \in 1 .. Len(s) : s[i] \in Nat
  OBVIOUS
<1> DEFINE n == Len(s)
<1>2. PICK h : Sums(h, s, n) /\ Sum(s) = h[n]
  BY <1>1, SumIs
<1> DEFINE S == {i \in 0 .. n : h[i] \in Nat}
<1>3. 0 \in S
  BY <1>1, <1>2, SumsSteps
<1>4. ASSUME NEW i \in 0 .. n - 1, i \in S PROVE i + 1 \in S
  <2>1. i + 1 \in 1 .. n
    BY <1>1
  <2>2. h[i + 1] = h[i] + s[i + 1]
    BY <1>1, <1>2, SumsSteps
  <2> QED
    BY <1>1, <1>4, <2>1, <2>2
<1> HIDE DEF S
<1>5. 0 .. n \subseteq S
  BY <1>1, <1>3, <1>4, UpTo
<1> QED
  BY <1>1, <1>2, <1>5 DEF S

LEMMA SumEmpty ==
  ASSUME NEW s, Len(s) = 0
  PROVE  Sum(s) = 0
<1>1. PICK h : Sums(h, s, Len(s)) /\ Sum(s) = h[Len(s)]
  BY SumIs
<1> QED
  BY <1>1, SumsSteps

\* u is s, followed by t.
Pieces(u, s, t) ==
  /\ s \in Seq(Int) /\ t \in Seq(Int) /\ u \in Seq(Int) /\ Len(u) = Len(s) + Len(t)
  /\ \A i \in 1 .. Len(s) : u[i] = s[i]
  /\ \A i \in 1 .. Len(t) : u[Len(s) + i] = t[i]

\* The sum over two pieces is the sum of both.
LEMMA SumSplit ==
  ASSUME NEW s, NEW t, NEW u, Pieces(u, s, t)
  PROVE  Sum(u) = Sum(s) + Sum(t)
<1>0. /\ s \in Seq(Int) /\ t \in Seq(Int) /\ u \in Seq(Int) /\ Len(u) = Len(s) + Len(t)
      /\ \A i \in 1 .. Len(s) : u[i] = s[i]
      /\ \A i \in 1 .. Len(t) : u[Len(s) + i] = t[i]
  BY DEF Pieces
<1> USE <1>0
<1> DEFINE a == Len(s)
           b == Len(t)
<1>1. a \in Nat /\ b \in Nat /\ Len(u) = a + b
  OBVIOUS
<1>2. /\ \A i \in 1 .. a : s[i] \in Int
      /\ \A i \in 1 .. b : t[i] \in Int
      /\ \A i \in 1 .. a + b : u[i] \in Int
  OBVIOUS
<1>3. PICK f : Adds(f, s, a)
  BY SumSteps
<1>4. PICK g : Adds(g, t, b)
  BY SumSteps
<1>5. PICK h : Adds(h, u, a + b)
  BY SumSteps
<1> HIDE DEF a, b
<1>6. /\ Sum(s) = f[a] /\ f[0] = 0
      /\ \A i \in 0 .. a - 1 : f[i + 1] = f[i] + s[i + 1]
      /\ \A i \in 0 .. a : f[i] \in Int
  BY <1>3 DEF Adds
<1>7. /\ Sum(t) = g[b] /\ g[0] = 0
      /\ \A i \in 0 .. b - 1 : g[i + 1] = g[i] + t[i + 1]
      /\ \A i \in 0 .. b : g[i] \in Int
  BY <1>4 DEF Adds
<1>8. /\ Sum(u) = h[a + b] /\ h[0] = 0
      /\ \A i \in 0 .. (a + b) - 1 : h[i + 1] = h[i] + u[i + 1]
      /\ \A i \in 0 .. a + b : h[i] \in Int
  BY <1>5 DEF Adds
<1>9. h[a] = f[a]
  <2> DEFINE S == {i \in 0 .. a : h[i] = f[i]}
  <2>1. 0 \in S
    BY <1>1, <1>6, <1>8
  <2>2. ASSUME NEW i \in 0 .. a - 1, i \in S PROVE i + 1 \in S
    <3>1. i + 1 \in 1 .. a /\ i \in 0 .. (a + b) - 1 /\ i + 1 \in 0 .. a
      BY <1>1
    <3>2. u[i + 1] = s[i + 1]
      BY <3>1 DEF a
    <3> QED
      BY <1>6, <1>8, <2>2, <3>1, <3>2
  <2> HIDE DEF S
  <2>3. 0 .. a \subseteq S
    BY <1>1, <2>1, <2>2, UpTo
  <2> QED
    BY <1>1, <2>3 DEF S
<1>10. h[a + b] = f[a] + g[b]
  <2> DEFINE S == {i \in 0 .. b : h[a + i] = f[a] + g[i]}
  <2>1. 0 \in S
    BY <1>1, <1>6, <1>7, <1>9
  <2>2. ASSUME NEW i \in 0 .. b - 1, i \in S PROVE i + 1 \in S
    <3>1. i + 1 \in 1 .. b /\ a + i \in 0 .. (a + b) - 1 /\ i + 1 \in 0 .. b /\ a + i + 1 = a + (i + 1) /\ i \in 0 .. b
          /\ a \in 0 .. a
      BY <1>1
    <3>2. u[a + (i + 1)] = t[i + 1]
      BY <3>1 DEF a, b
    <3>3. h[a + (i + 1)] = h[a + i] + t[i + 1]
      BY <1>8, <3>1, <3>2
    <3>4. g[i + 1] = g[i] + t[i + 1]
      BY <1>7
    <3>5. h[a + i] = f[a] + g[i]
      BY <2>2
    <3>6. f[a] \in Int /\ g[i] \in Int /\ t[i + 1] \in Int
      BY <1>2, <1>6, <1>7, <3>1
    <3>7. h[a + (i + 1)] = f[a] + g[i + 1]
      BY <3>3, <3>4, <3>5, <3>6
    <3> QED
      BY <3>1, <3>7
  <2> HIDE DEF S
  <2>3. 0 .. b \subseteq S
    BY <1>1, <2>1, <2>2, UpTo
  <2> QED
    BY <1>1, <2>3 DEF S
<1> QED
  BY <1>6, <1>7, <1>8, <1>10

\* The sum of a weighted sum
Weighs(u, k, x, y, z, r, g, b) ==
  /\ k \in Int /\ x \in Int /\ y \in Int /\ z \in Int
  /\ r \in Seq(Int) /\ g \in Seq(Int) /\ b \in Seq(Int)
  /\ Len(g) = Len(r) /\ Len(b) = Len(r) /\ Len(u) = Len(r)
  /\ \A i \in 1 .. Len(r) : u[i] = k - (x * r[i] + y * g[i] + z * b[i])

SumWeighs(u, k, x, y, z, r, g, b) ==
  Sum(u) = k * Len(r) - (x * Sum(r) + y * Sum(g) + z * Sum(b))

LEMMA SumWeighted ==
  ASSUME NEW u, NEW k, NEW x, NEW y, NEW z, NEW r, NEW g, NEW b, Weighs(u, k, x, y, z, r, g, b)
  PROVE  SumWeighs(u, k, x, y, z, r, g, b)
<1>0. /\ k \in Int /\ x \in Int /\ y \in Int /\ z \in Int
      /\ r \in Seq(Int) /\ g \in Seq(Int) /\ b \in Seq(Int)
      /\ Len(g) = Len(r) /\ Len(b) = Len(r) /\ Len(u) = Len(r)
  BY DEF Weighs
<1> USE <1>0
<1> DEFINE n == Len(r)
<1>1. n \in Nat /\ Len(u) = n /\ Len(g) = n /\ Len(b) = n
  OBVIOUS
<1>2. \A i \in 1 .. n : r[i] \in Int /\ g[i] \in Int /\ b[i] \in Int
  OBVIOUS
<1>3. PICK f : Adds(f, r, n)
  BY <1>1, SumSteps
<1>4. PICK d : Adds(d, g, n)
  BY <1>1, SumSteps
<1>5. PICK e : Adds(e, b, n)
  BY <1>1, SumSteps
<1>6. PICK h : Sums(h, u, n) /\ Sum(u) = h[n]
  BY <1>1, SumIs
<1> HIDE DEF n
<1>7. h[0] = 0 /\ \A i \in 0 .. n - 1 : h[i + 1] = h[i] + u[i + 1]
  BY <1>1, <1>6, SumsSteps
<1> DEFINE S == {i \in 0 .. n : h[i] = k * i - (x * f[i] + y * d[i] + z * e[i])}
<1>9. 0 \in S
  <2>1. k * 0 = 0 /\ x * 0 = 0 /\ y * 0 = 0 /\ z * 0 = 0
    OBVIOUS
  <2>2. k * 0 - (x * f[0] + y * d[0] + z * e[0]) = 0
    BY <1>3, <1>4, <1>5, <2>1 DEF Adds
  <2>3. 0 \in 0 .. n
    BY <1>1
  <2> QED
    BY <1>7, <2>2, <2>3
<1>10. ASSUME NEW i \in 0 .. n - 1, i \in S PROVE i + 1 \in S
  <2>1. i + 1 \in 1 .. n /\ i \in 0 .. n /\ i + 1 \in 0 .. n /\ i \in Int
    BY <1>1
  <2>2. /\ f[i + 1] = f[i] + r[i + 1] /\ d[i + 1] = d[i] + g[i + 1] /\ e[i + 1] = e[i] + b[i + 1]
        /\ h[i + 1] = h[i] + u[i + 1]
    BY <1>3, <1>4, <1>5, <1>7 DEF Adds
  <2>3. u[i + 1] = k - (x * r[i + 1] + y * g[i + 1] + z * b[i + 1])
    BY <2>1 DEF n, Weighs
  <2>4. h[i] = k * i - (x * f[i] + y * d[i] + z * e[i])
    BY <1>10
  <2>5. /\ f[i] \in Int /\ d[i] \in Int /\ e[i] \in Int
        /\ r[i + 1] \in Int /\ g[i + 1] \in Int /\ b[i + 1] \in Int
    BY <1>2, <1>3, <1>4, <1>5, <2>1 DEF Adds
  <2>6. ASSUME NEW F \in Int, NEW D \in Int, NEW E \in Int, NEW R \in Int, NEW G \in Int, NEW B \in Int
        PROVE  (k * i - (x * F + y * D + z * E)) + (k - (x * R + y * G + z * B))
               = k * (i + 1) - (x * (F + R) + y * (D + G) + z * (E + B))
    <3>1. /\ k * (i + 1) = k * i + k /\ x * (F + R) = x * F + x * R
          /\ y * (D + G) = y * D + y * G /\ z * (E + B) = z * E + z * B
      BY <2>1
    <3>2. /\ k * i \in Int /\ x * F \in Int /\ x * R \in Int /\ y * D \in Int /\ y * G \in Int
          /\ z * E \in Int /\ z * B \in Int
      BY <2>1
    <3> QED
      BY <3>1, <3>2
  <2> DEFINE F == f[i] D == d[i] E == e[i] R == r[i + 1] G == g[i + 1] B == b[i + 1]
  <2>8. (k * i - (x * F + y * D + z * E)) + (k - (x * R + y * G + z * B))
        = k * (i + 1) - (x * (F + R) + y * (D + G) + z * (E + B))
    <3>1. F \in Int /\ D \in Int /\ E \in Int /\ R \in Int /\ G \in Int /\ B \in Int
      BY <2>5
    <3> HIDE DEF F, D, E, R, G, B
    <3> QED
      BY <2>6, <3>1
  <2>7. h[i + 1] = k * (i + 1) - (x * f[i + 1] + y * d[i + 1] + z * e[i + 1])
    BY <2>2, <2>3, <2>4, <2>8
  <2> QED
    BY <2>1, <2>7
<1> HIDE DEF S
<1>11. 0 .. n \subseteq S
  BY <1>1, <1>9, <1>10, UpTo
<1>12. h[n] = k * n - (x * f[n] + y * d[n] + z * e[n])
  BY <1>1, <1>11 DEF S
<1> QED
  BY <1>3, <1>4, <1>5, <1>6, <1>12 DEF n, Adds, SumWeighs

LEMMA SumAffine ==
  ASSUME NEW k \in Int, NEW x \in Int, NEW t \in Seq(Int), NEW u, Len(u) = Len(t),
         \A i \in 1 .. Len(t) : u[i] = k - x * t[i]
  PROVE  Sum(u) = k * Len(t) - x * Sum(t)
<1> DEFINE n == Len(t)
<1>1. n \in Nat /\ Len(u) = n /\ \A i \in 1 .. n : t[i] \in Int
  OBVIOUS
<1>2. PICK f : Adds(f, t, n)
  BY SumSteps
<1>3. PICK h : Sums(h, u, n) /\ Sum(u) = h[n]
  BY <1>1, SumIs
<1> HIDE DEF n
<1>4. h[0] = 0 /\ \A i \in 0 .. n - 1 : h[i + 1] = h[i] + u[i + 1]
  BY <1>1, <1>3, SumsSteps
<1> DEFINE S == {i \in 0 .. n : h[i] = k * i - x * f[i]}
<1>5. 0 \in S
  BY <1>1, <1>2, <1>4 DEF Adds
<1>6. ASSUME NEW i \in 0 .. n - 1, i \in S PROVE i + 1 \in S
  <2> DEFINE F == f[i]
             T == t[i + 1]
  <2>1. i + 1 \in 1 .. n /\ i \in 0 .. n /\ i + 1 \in 0 .. n /\ i \in Int
    BY <1>1
  <2>2. F \in Int /\ T \in Int
    BY <1>1, <1>2, <2>1 DEF Adds
  <2>3. f[i + 1] = F + T /\ h[i + 1] = (k * i - x * F) + (k - x * T)
    BY <1>2, <1>4, <1>6, <2>1 DEF Adds, n
  <2> HIDE DEF F, T
  <2>4. k * (i + 1) = k * i + k /\ x * (F + T) = x * F + x * T
    BY <2>1, <2>2
  <2>5. k * i \in Int /\ x * F \in Int /\ x * T \in Int
    BY <2>1, <2>2
  <2>6. h[i + 1] = k * (i + 1) - x * (F + T)
    BY <2>3, <2>4, <2>5
  <2> QED
    BY <2>1, <2>3, <2>6
<1> HIDE DEF S
<1>7. 0 .. n \subseteq S
  BY <1>1, <1>5, <1>6, UpTo
<1>8. h[n] = k * n - x * f[n]
  BY <1>1, <1>7 DEF S
<1> QED
  BY <1>2, <1>3, <1>8 DEF n, Adds

-----------------------------------------------------------------------------
(* Pixels *)

Bytes == Seq(0 .. 255)
Inks  == {"c", "m", "y", "k"}

LEMMA PixelIs ==
  ASSUME NEW b \in Bytes, NEW i \in pixels(b)
  PROVE  /\ {3 * i - 2, 3 * i - 1, 3 * i} \subseteq 1 .. Len(b)
         /\ Pixel(b, i)[1] = b[3 * i - 2] /\ Pixel(b, i)[2] = b[3 * i - 1] /\ Pixel(b, i)[3] = b[3 * i]
         /\ Pixel(b, i)[1] \in 0 .. 255 /\ Pixel(b, i)[2] \in 0 .. 255 /\ Pixel(b, i)[3] \in 0 .. 255
<1>1. Len(b) \in Nat /\ \A j \in 1 .. Len(b) : b[j] \in 0 .. 255
  BY ElementOfSeq, LenProperties DEF Bytes
<1>2. i \in Nat /\ i >= 1 /\ i <= Len(b) \div 3
  BY <1>1 DEF pixels
<1>3. 3 * (Len(b) \div 3) <= Len(b)
  BY <1>1
<1>4. {3 * i - 2, 3 * i - 1, 3 * i} \subseteq 1 .. Len(b)
  BY <1>1, <1>2, <1>3
<1>5. Pixel(b, i)[1] = b[3 * i - 2] /\ Pixel(b, i)[2] = b[3 * i - 1] /\ Pixel(b, i)[3] = b[3 * i]
  BY DEF Pixel
<1> QED
  BY <1>1, <1>4, <1>5

LEMMA PixelsAre ==
  ASSUME NEW b \in Bytes
  PROVE  Len(b) \in Nat /\ Len(b) \div 3 \in Nat /\ pixels(b) = 1 .. Len(b) \div 3
  BY DEF Bytes, pixels

LEMMA InvertedIs ==
  ASSUME NEW b \in Bytes, NEW i \in pixels(b)
  PROVE  /\ Pixel(invert_image(b), i)[1] = 255 - Pixel(b, i)[1]
         /\ Pixel(invert_image(b), i)[2] = 255 - Pixel(b, i)[2]
         /\ Pixel(invert_image(b), i)[3] = 255 - Pixel(b, i)[3]
<1>1. DOMAIN b = 1 .. Len(b)
  BY DEF Bytes
<1>2. \A j \in 1 .. Len(b) : invert_image(b)[j] = 255 - b[j]
  BY <1>1 DEF invert_image
<1>3. {3 * i - 2, 3 * i - 1, 3 * i} \subseteq 1 .. Len(b)
  BY PixelIs
<1>4. /\ invert_image(b)[3 * i - 2] = 255 - b[3 * i - 2]
      /\ invert_image(b)[3 * i - 1] = 255 - b[3 * i - 1]
      /\ invert_image(b)[3 * i] = 255 - b[3 * i]
  BY <1>2, <1>3
<1>5. /\ Pixel(invert_image(b), i)[1] = invert_image(b)[3 * i - 2]
      /\ Pixel(invert_image(b), i)[2] = invert_image(b)[3 * i - 1]
      /\ Pixel(invert_image(b), i)[3] = invert_image(b)[3 * i]
  BY DEF Pixel
<1> QED
  BY <1>4, <1>5, PixelIs

LEMMA TopIs ==
  ASSUME NEW r \in Int, NEW g \in Int, NEW b \in Int
  PROVE  /\ Max({r, g, b}) \in {r, g, b}
         /\ Max({r, g, b}) >= r /\ Max({r, g, b}) >= g /\ Max({r, g, b}) >= b
<1> DEFINE S == {r, g, b}
<1>1. \E x \in S : \A y \in S : x >= y
  <2>1. CASE r >= g /\ r >= b
    BY <2>1
  <2>2. CASE g >= r /\ g >= b
    BY <2>2
  <2>3. CASE b >= r /\ b >= g
    BY <2>3
  <2> QED
    BY <2>1, <2>2, <2>3
<1> HIDE DEF S
<1>2. Max(S) \in S /\ \A y \in S : Max(S) >= y
  BY <1>1 DEF Max
<1> QED
  BY <1>2 DEF S

LEMMA BottomIs ==
  ASSUME NEW r \in Int, NEW g \in Int, NEW b \in Int
  PROVE  min3(255 - r, 255 - g, 255 - b) = 255 - Max({r, g, b})
<1> DEFINE S == {255 - r, 255 - g, 255 - b}
           t == 255 - Max({r, g, b})
           top == Max({r, g, b})
<1>0. top \in {r, g, b} /\ top \in Int /\ top >= r /\ top >= g /\ top >= b
  BY TopIs
<1>1. t \in S /\ t \in Int /\ \A y \in S : y \in Int /\ t <= y
  <2> HIDE DEF top
  <2>1. t = 255 - top
    BY DEF top
  <2> HIDE DEF t
  <2> QED
    BY <1>0, <2>1
<1> HIDE DEF S, t
<1>2. Min(S) \in S /\ \A y \in S : Min(S) <= y
  BY <1>1 DEF Min
<1>3. Min(S) \in Int /\ Min(S) <= t /\ t <= Min(S)
  BY <1>1, <1>2
<1>4. Min(S) = t
  BY <1>1, <1>3
<1> QED
  BY <1>4 DEF min3, S, t

LEMMA IntSeq ==
  ASSUME NEW n \in Nat, NEW s, s = [i \in 1 .. n |-> s[i]], \A i \in 1 .. n : s[i] \in Int
  PROVE  s \in Seq(Int) /\ Len(s) = n
<1>1. s \in [1 .. n -> Int]
  OBVIOUS
<1>2. s \in Seq(Int)
  BY <1>1, IsASeq
<1> QED
  BY <1>1, <1>2, LenProperties

-----------------------------------------------------------------------------
(* The analyzers and the pixels *)

\* What PageCost() adds up for one ink
ByPixel(cs, b, ink) ==
  [i \in pixels(b) |-> PixelCost(cs, Pixel(b, i)[1], Pixel(b, i)[2], Pixel(b, i)[3])[ink]]

Colored(b, j) == [i \in pixels(b) |-> Pixel(b, i)[j]]

LEMMA PixelCMYK ==
  ASSUME NEW r, NEW g, NEW b
  PROVE  LET top == Max({r, g, b})
         IN  PixelCost("CMYK", r, g, b) =
               [c |-> Part(top, r), m |-> Part(top, g), y |-> Part(top, b), k |-> 255 - top]
<1> DEFINE top == Max({r, g, b})
           black == [c |-> Part(top, r), m |-> Part(top, g), y |-> Part(top, b), k |-> 255 - top]
           other == [c |-> 255 - r, m |-> 255 - g, y |-> 255 - b, k |-> 0]
           gray  == [Zero EXCEPT !.k = (765 - r - g - b) \div 3]
<1>1. PixelCost("CMYK", r, g, b) =
        CASE "CMYK" = "CMYK" -> black
          [] "CMYK" = "CMY" \/ ("CMYK" = "CMYPK" /\ ~LooksGray(r, g, b)) -> other
          [] OTHER -> gray
  BY Zenon DEF PixelCost
<1> HIDE DEF black, other, gray
<1>2. PixelCost("CMYK", r, g, b) = black
  BY <1>1
<1> QED
  BY <1>2, Zenon DEF black

LEMMA PixelOther ==
  ASSUME NEW cs \in {"CMYPK", "CMY"}, NEW r, NEW g, NEW b
  PROVE  PixelCost(cs, r, g, b) =
           IF cs = "CMY" \/ ~LooksGray(r, g, b) THEN [c |-> 255 - r, m |-> 255 - g, y |-> 255 - b, k |-> 0]
           ELSE [Zero EXCEPT !.k = (765 - r - g - b) \div 3]
<1>1. cs # "CMYK"
  OBVIOUS
<1> QED
  BY <1>1 DEF PixelCost

LEMMA PartInt ==
  ASSUME NEW top \in 0 .. 255, NEW x \in 0 .. 255
  PROVE  Part(top, x) \in Int
<1>1. CASE top = 0
  BY <1>1 DEF Part
<1>2. CASE top # 0
  <2>1. 255 * (top - x) \in Int /\ top > 0
    BY <1>2
  <2> QED
    BY <1>2, <2>1 DEF Part
<1> QED
  BY <1>1, <1>2

LEMMA TopByte ==
  ASSUME NEW r \in 0 .. 255, NEW g \in 0 .. 255, NEW b \in 0 .. 255
  PROVE  Max({r, g, b}) \in 0 .. 255
<1>1. Max({r, g, b}) \in {r, g, b}
  BY TopIs
<1> QED
  BY <1>1, Zenon

LEMMA PixelCostIs ==
  ASSUME NEW cs \in {"CMYK", "CMYPK", "CMY"}, NEW r \in 0 .. 255, NEW g \in 0 .. 255, NEW b \in 0 .. 255,
         NEW ink \in Inks
  PROVE  PixelCost(cs, r, g, b)[ink] \in Int
<1>1. CASE cs = "CMYK"
  <2> DEFINE top == Max({r, g, b})
  <2>1. top \in 0 .. 255
    BY TopByte
  <2>2. PixelCost(cs, r, g, b) =
          [c |-> Part(top, r), m |-> Part(top, g), y |-> Part(top, b), k |-> 255 - top]
    BY <1>1, PixelCMYK
  <2> HIDE DEF top
  <2>3. Part(top, r) \in Int /\ Part(top, g) \in Int /\ Part(top, b) \in Int
    BY <2>1, PartInt, Zenon
  <2>4. 255 - top \in Int
    BY <2>1
  <2> QED
    BY <2>2, <2>3, <2>4 DEF Inks
<1>2. CASE cs # "CMYK"
  <2>1. PixelCost(cs, r, g, b) =
          IF cs = "CMY" \/ ~LooksGray(r, g, b) THEN [c |-> 255 - r, m |-> 255 - g, y |-> 255 - b, k |-> 0]
          ELSE [Zero EXCEPT !.k = (765 - r - g - b) \div 3]
    BY <1>2, PixelOther
  <2>2. CASE cs = "CMY" \/ ~LooksGray(r, g, b)
    <3>1. PixelCost(cs, r, g, b) = [c |-> 255 - r, m |-> 255 - g, y |-> 255 - b, k |-> 0]
      BY <2>1, <2>2, Zenon
    <3> QED
      BY <3>1 DEF Inks
  <2>3. CASE ~(cs = "CMY" \/ ~LooksGray(r, g, b))
    <3> DEFINE k == (765 - r - g - b) \div 3
    <3>1. PixelCost(cs, r, g, b) = [Zero EXCEPT !.k = k]
      BY <2>1, <2>3, Zenon
    <3>2. k \in Int
      OBVIOUS
    <3> HIDE DEF k
    <3>3. PixelCost(cs, r, g, b) = [c |-> 0, m |-> 0, y |-> 0, k |-> k]
      BY <3>1 DEF Zero
    <3> QED
      BY <3>2, <3>3 DEF Inks
  <2> QED
    BY <2>2, <2>3
<1> QED
  BY <1>1, <1>2

LEMMA ByPixelIs ==
  ASSUME NEW cs \in {"CMYK", "CMYPK", "CMY"}, NEW b \in Bytes, NEW ink \in Inks
  PROVE  /\ ByPixel(cs, b, ink) \in Seq(Int) /\ Len(ByPixel(cs, b, ink)) = Len(b) \div 3
         /\ PageCost(cs, b)[ink] = Sum(ByPixel(cs, b, ink))
<1>1. Len(b) \div 3 \in Nat /\ pixels(b) = 1 .. Len(b) \div 3
  BY PixelsAre
<1>2. ASSUME NEW i \in pixels(b) PROVE ByPixel(cs, b, ink)[i] \in Int
  <2>1. Pixel(b, i)[1] \in 0 .. 255 /\ Pixel(b, i)[2] \in 0 .. 255 /\ Pixel(b, i)[3] \in 0 .. 255
    BY PixelIs
  <2> QED
    BY <2>1, PixelCostIs DEF ByPixel
<1>3. ByPixel(cs, b, ink) = [i \in 1 .. Len(b) \div 3 |-> ByPixel(cs, b, ink)[i]]
  BY <1>1 DEF ByPixel
<1>4. ByPixel(cs, b, ink) \in Seq(Int) /\ Len(ByPixel(cs, b, ink)) = Len(b) \div 3
  BY <1>1, <1>2, <1>3, IntSeq
<1>5. PageCost(cs, b)[ink] = Sum(ByPixel(cs, b, ink))
  BY DEF PageCost, ByPixel, Zero, Inks
<1> QED
  BY <1>4, <1>5

LEMMA ColoredIs ==
  ASSUME NEW b \in Bytes, NEW j \in 1 .. 3
  PROVE  /\ Colored(b, j) \in Seq(Int) /\ Len(Colored(b, j)) = Len(b) \div 3
         /\ Color(b, j) = Sum(Colored(b, j))
         /\ \A i \in 1 .. Len(b) \div 3 : Colored(b, j)[i] = Pixel(b, i)[j] /\ Colored(b, j)[i] \in 0 .. 255
<1> DEFINE n == Len(b) \div 3
<1>1. n \in Nat /\ pixels(b) = 1 .. n
  BY PixelsAre
<1>2. ASSUME NEW i \in pixels(b)
      PROVE  Colored(b, j)[i] = Pixel(b, i)[j] /\ Colored(b, j)[i] \in 0 .. 255
  <2>1. Pixel(b, i)[1] \in 0 .. 255 /\ Pixel(b, i)[2] \in 0 .. 255 /\ Pixel(b, i)[3] \in 0 .. 255
    BY PixelIs
  <2>2. j = 1 \/ j = 2 \/ j = 3
    OBVIOUS
  <2> QED
    BY <2>1, <2>2 DEF Colored
<1> HIDE DEF n
<1>3. Colored(b, j) = [i \in 1 .. n |-> Colored(b, j)[i]]
  BY <1>1 DEF Colored
<1>4. Colored(b, j) \in Seq(Int) /\ Len(Colored(b, j)) = n
  <2>1. \A i \in 1 .. n : Colored(b, j)[i] \in Int
    <3>1. \A i \in 1 .. n : Colored(b, j)[i] \in 0 .. 255
      BY <1>1, <1>2, Zenon
    <3> QED
      BY <3>1
  <2> QED
    BY <1>1, <1>3, <2>1, IntSeq
<1> QED
  BY <1>1, <1>2, <1>4 DEF Color, Colored, n

LEMMA ChunkCMYK ==
  ASSUME NEW b \in Bytes, NEW ink \in Inks
  PROVE  pxcost_cmyk(b)[ink] = PageCost("CMYK", b)[ink]
<1> DEFINE inked == invert_image(b)
           black == [i \in pixels(b) |-> LET p == Pixel(inked, i) IN min3(p[1], p[2], p[3])]
           all(j) == [i \in pixels(b) |->
                       IF black[i] = 255 THEN 0
                       ELSE (255 * (Pixel(inked, i)[j] - black[i])) \div (255 - black[i])]
<1>1. pxcost_cmyk(b) = [c |-> Sum(all(1)), m |-> Sum(all(2)), y |-> Sum(all(3)), k |-> Sum(black)]
  BY DEF pxcost_cmyk
<1>2. ASSUME NEW i \in pixels(b)
      PROVE  /\ all(1)[i] = ByPixel("CMYK", b, "c")[i]
             /\ all(2)[i] = ByPixel("CMYK", b, "m")[i]
             /\ all(3)[i] = ByPixel("CMYK", b, "y")[i]
             /\ black[i] = ByPixel("CMYK", b, "k")[i]
  <2> DEFINE r == Pixel(b, i)[1]
             g == Pixel(b, i)[2]
             bl == Pixel(b, i)[3]
             top == Max({r, g, bl})
  <2>1. r \in 0 .. 255 /\ g \in 0 .. 255 /\ bl \in 0 .. 255
    BY PixelIs
  <2>2. Pixel(inked, i)[1] = 255 - r /\ Pixel(inked, i)[2] = 255 - g /\ Pixel(inked, i)[3] = 255 - bl
    BY InvertedIs
  <2>3. PixelCost("CMYK", r, g, bl) =
          [c |-> Part(top, r), m |-> Part(top, g), y |-> Part(top, bl), k |-> 255 - top]
    BY PixelCMYK
  <2>4. black[i] = min3(255 - r, 255 - g, 255 - bl)
    BY <2>2
  <2>5. black[i] = 255 - top /\ top \in 0 .. 255
    <3> HIDE DEF r, g, bl, black
    <3>1. black[i] = 255 - top
      BY <2>1, <2>4, BottomIs
    <3>2. top \in 0 .. 255
      BY <2>1, TopByte
    <3> QED
      BY <3>1, <3>2
  <2>6. ASSUME NEW j \in 1 .. 3, NEW x \in 0 .. 255, Pixel(inked, i)[j] = 255 - x
        PROVE  all(j)[i] = Part(top, x)
    <3>1. all(j)[i] = IF black[i] = 255 THEN 0
                      ELSE (255 * (Pixel(inked, i)[j] - black[i])) \div (255 - black[i])
      OBVIOUS
    <3> HIDE DEF black, top, r, g, bl, all
    <3>2. black[i] = 255 <=> top = 0
      BY <2>5
    <3>3. Pixel(inked, i)[j] - black[i] = top - x /\ 255 - black[i] = top
      BY <2>5, <2>6
    <3> QED
      BY <3>1, <3>2, <3>3 DEF Part
  <2> HIDE DEF black, all, top
  <2>7. all(1)[i] = Part(top, r) /\ all(2)[i] = Part(top, g) /\ all(3)[i] = Part(top, bl)
    <3> HIDE DEF r, g, bl, inked
    <3>1. 1 \in 1 .. 3 /\ 2 \in 1 .. 3 /\ 3 \in 1 .. 3
      OBVIOUS
    <3>2. all(1)[i] = Part(top, r)
      BY <2>1, <2>2, <2>6, <3>1
    <3>3. all(2)[i] = Part(top, g)
      BY <2>1, <2>2, <2>6, <3>1
    <3>4. all(3)[i] = Part(top, bl)
      BY <2>1, <2>2, <2>6, <3>1
    <3> QED
      BY <3>2, <3>3, <3>4
  <2> QED
    BY <2>3, <2>5, <2>7 DEF ByPixel
<1>3. /\ all(1) = ByPixel("CMYK", b, "c") /\ all(2) = ByPixel("CMYK", b, "m")
      /\ all(3) = ByPixel("CMYK", b, "y") /\ black = ByPixel("CMYK", b, "k")
  <2>1. /\ all(1) = [i \in pixels(b) |-> all(1)[i]] /\ all(2) = [i \in pixels(b) |-> all(2)[i]]
        /\ all(3) = [i \in pixels(b) |-> all(3)[i]] /\ black = [i \in pixels(b) |-> black[i]]
    OBVIOUS
  <2>2. \A k \in Inks : ByPixel("CMYK", b, k) = [i \in pixels(b) |-> ByPixel("CMYK", b, k)[i]]
    BY DEF ByPixel
  <2> HIDE DEF all, black
  <2> QED
    BY <1>2, <2>1, <2>2 DEF Inks
<1> HIDE DEF all, black
<1>4. PageCost("CMYK", b)[ink] = Sum(ByPixel("CMYK", b, ink))
  BY ByPixelIs
<1> QED
  BY <1>1, <1>3, <1>4 DEF Inks

LEMMA ChunkCMYPK ==
  ASSUME NEW b \in Bytes, NEW ink \in Inks
  PROVE  pxcost_cmypk(b)[ink] = PageCost("CMYPK", b)[ink]
<1> DEFINE inked == invert_image(b)
           p(i)  == Pixel(inked, i)
           looks_gray(i) == kdist(p(i)[1], p(i)[2], p(i)[3]) <= 8
           all(j) == [i \in pixels(b) |-> IF looks_gray(i) THEN 0 ELSE p(i)[j]]
           black == [i \in pixels(b) |-> IF looks_gray(i) THEN mean3(p(i)[1], p(i)[2], p(i)[3]) ELSE 0]
<1>1. pxcost_cmypk(b) = [c |-> Sum(all(1)), m |-> Sum(all(2)), y |-> Sum(all(3)), k |-> Sum(black)]
  BY DEF pxcost_cmypk
<1>2. ASSUME NEW i \in pixels(b)
      PROVE  /\ all(1)[i] = ByPixel("CMYPK", b, "c")[i]
             /\ all(2)[i] = ByPixel("CMYPK", b, "m")[i]
             /\ all(3)[i] = ByPixel("CMYPK", b, "y")[i]
             /\ black[i] = ByPixel("CMYPK", b, "k")[i]
  <2> DEFINE r == Pixel(b, i)[1]
             g == Pixel(b, i)[2]
             bl == Pixel(b, i)[3]
  <2>1. r \in 0 .. 255 /\ g \in 0 .. 255 /\ bl \in 0 .. 255
    BY PixelIs
  <2>2. p(i)[1] = 255 - r /\ p(i)[2] = 255 - g /\ p(i)[3] = 255 - bl
    BY InvertedIs
  <2>3. PixelCost("CMYPK", r, g, bl) =
          IF ~LooksGray(r, g, bl) THEN [c |-> 255 - r, m |-> 255 - g, y |-> 255 - bl, k |-> 0]
          ELSE [Zero EXCEPT !.k = (765 - r - g - bl) \div 3]
    BY PixelOther
  <2>4. /\ ByPixel("CMYPK", b, "c")[i] = PixelCost("CMYPK", r, g, bl).c
        /\ ByPixel("CMYPK", b, "m")[i] = PixelCost("CMYPK", r, g, bl).m
        /\ ByPixel("CMYPK", b, "y")[i] = PixelCost("CMYPK", r, g, bl).y
        /\ ByPixel("CMYPK", b, "k")[i] = PixelCost("CMYPK", r, g, bl).k
    BY DEF ByPixel
  <2>5. /\ all(1)[i] = IF looks_gray(i) THEN 0 ELSE p(i)[1]
        /\ all(2)[i] = IF looks_gray(i) THEN 0 ELSE p(i)[2]
        /\ all(3)[i] = IF looks_gray(i) THEN 0 ELSE p(i)[3]
        /\ black[i] = IF looks_gray(i) THEN mean3(p(i)[1], p(i)[2], p(i)[3]) ELSE 0
    OBVIOUS
  <2> HIDE DEF r, g, bl, all, black, p
  <2>6. looks_gray(i) <=> LooksGray(r, g, bl)
    <3>1. /\ (255 - r) - (255 - g) = g - r /\ (255 - r) - (255 - bl) = bl - r
          /\ (255 - g) - (255 - bl) = bl - g
      BY <2>1
    <3>2. kdist(255 - r, 255 - g, 255 - bl) <= 8 <=> LooksGray(255 - r, 255 - g, 255 - bl)
      <4>1. 255 - r \in 0 .. 255 /\ 255 - g \in 0 .. 255 /\ 255 - bl \in 0 .. 255
        BY <2>1
      <4> QED
        BY <4>1, GrayLooking
    <3>3. /\ (g - r) * (g - r) = (r - g) * (r - g) /\ (bl - r) * (bl - r) = (r - bl) * (r - bl)
          /\ (bl - g) * (bl - g) = (g - bl) * (g - bl)
      BY <2>1
    <3>4. LooksGray(255 - r, 255 - g, 255 - bl) <=> LooksGray(r, g, bl)
      BY <3>1, <3>3 DEF LooksGray
    <3> QED
      BY <2>2, <3>2, <3>4
  <2> HIDE DEF looks_gray
  <2>7. CASE looks_gray(i)
    <3>1. PixelCost("CMYPK", r, g, bl) = [Zero EXCEPT !.k = (765 - r - g - bl) \div 3]
      BY <2>3, <2>6, <2>7, Zenon
    <3>2. mean3(255 - r, 255 - g, 255 - bl) = (765 - r - g - bl) \div 3
      <4>1. 255 - r + (255 - g) + (255 - bl) = 765 - r - g - bl
        BY <2>1
      <4> QED
        BY <4>1 DEF mean3
    <3> QED
      BY <2>2, <2>4, <2>5, <2>7, <3>1, <3>2 DEF Zero
  <2>8. CASE ~looks_gray(i)
    <3>1. PixelCost("CMYPK", r, g, bl) = [c |-> 255 - r, m |-> 255 - g, y |-> 255 - bl, k |-> 0]
      BY <2>3, <2>6, <2>8, Zenon
    <3> QED
      BY <2>2, <2>4, <2>5, <2>8, <3>1
  <2> QED
    BY <2>7, <2>8
<1>3. /\ all(1) = ByPixel("CMYPK", b, "c") /\ all(2) = ByPixel("CMYPK", b, "m")
      /\ all(3) = ByPixel("CMYPK", b, "y") /\ black = ByPixel("CMYPK", b, "k")
  <2>1. /\ all(1) = [i \in pixels(b) |-> all(1)[i]] /\ all(2) = [i \in pixels(b) |-> all(2)[i]]
        /\ all(3) = [i \in pixels(b) |-> all(3)[i]] /\ black = [i \in pixels(b) |-> black[i]]
    OBVIOUS
  <2>2. \A k \in Inks : ByPixel("CMYPK", b, k) = [i \in pixels(b) |-> ByPixel("CMYPK", b, k)[i]]
    BY DEF ByPixel
  <2> HIDE DEF all, black
  <2> QED
    BY <1>2, <2>1, <2>2 DEF Inks
<1> HIDE DEF all, black
<1>4. PageCost("CMYPK", b)[ink] = Sum(ByPixel("CMYPK", b, ink))
  BY ByPixelIs
<1> QED
  BY <1>1, <1>3, <1>4 DEF Inks

LEMMA ChunkCMY ==
  ASSUME NEW b \in Bytes, NEW ink \in Inks
  PROVE  pxcost_cmy(b)[ink] = PageCost("CMY", b)[ink]
<1> DEFINE n == Len(b) \div 3
<1>0. n \in Nat /\ pixels(b) = 1 .. n
  BY PixelsAre
<1>1. pxcost_cmy(b) = [c |-> 255 * n - Color(b, 1), m |-> 255 * n - Color(b, 2),
                       y |-> 255 * n - Color(b, 3), k |-> 0]
  BY DEF pxcost_cmy
<1>2. \A k \in Inks : /\ ByPixel("CMY", b, k) \in Seq(Int) /\ Len(ByPixel("CMY", b, k)) = n
                      /\ PageCost("CMY", b)[k] = Sum(ByPixel("CMY", b, k))
  BY ByPixelIs
<1>3. ASSUME NEW i \in 1 .. n
      PROVE  /\ ByPixel("CMY", b, "c")[i] = 255 - Colored(b, 1)[i]
             /\ ByPixel("CMY", b, "m")[i] = 255 - Colored(b, 2)[i]
             /\ ByPixel("CMY", b, "y")[i] = 255 - Colored(b, 3)[i]
             /\ ByPixel("CMY", b, "k")[i] = 0
  <2> DEFINE r == Pixel(b, i)[1]
             g == Pixel(b, i)[2]
             bl == Pixel(b, i)[3]
  <2>1. /\ ByPixel("CMY", b, "c")[i] = PixelCost("CMY", r, g, bl).c
        /\ ByPixel("CMY", b, "m")[i] = PixelCost("CMY", r, g, bl).m
        /\ ByPixel("CMY", b, "y")[i] = PixelCost("CMY", r, g, bl).y
        /\ ByPixel("CMY", b, "k")[i] = PixelCost("CMY", r, g, bl).k
    BY <1>0 DEF ByPixel
  <2>2. Colored(b, 1)[i] = r /\ Colored(b, 2)[i] = g /\ Colored(b, 3)[i] = bl
    BY <1>0 DEF Colored
  <2> HIDE DEF r, g, bl
  <2>3. PixelCost("CMY", r, g, bl) = [c |-> 255 - r, m |-> 255 - g, y |-> 255 - bl, k |-> 0]
    BY PixelOther
  <2> QED
    BY <2>1, <2>2, <2>3
<1>4. \A j \in 1 .. 3 : /\ Colored(b, j) \in Seq(Int) /\ Len(Colored(b, j)) = n
                        /\ Color(b, j) = Sum(Colored(b, j))
  BY ColoredIs
<1> HIDE DEF n
<1>5. ASSUME NEW j \in 1 .. 3, NEW k \in Inks, \A i \in 1 .. n : ByPixel("CMY", b, k)[i] = 255 - Colored(b, j)[i]
      PROVE  PageCost("CMY", b)[k] = 255 * n - Color(b, j)
  <2> DEFINE t == Colored(b, j)
             u == ByPixel("CMY", b, k)
  <2>1. t \in Seq(Int) /\ Len(t) = n /\ Len(u) = n /\ Sum(t) \in Int
    BY <1>2, <1>4, SumInt
  <2>2. \A i \in 1 .. n : t[i] \in Int
    BY <2>1, ElementOfSeq
  <2>3. \A i \in 1 .. n : u[i] = 255 - t[i]
    BY <1>5
  <2> HIDE DEF t, u
  <2>4. \A i \in 1 .. Len(t) : u[i] = 255 - 1 * t[i]
    BY <2>1, <2>2, <2>3
  <2>5. Sum(u) = 255 * Len(t) - 1 * Sum(t)
    BY <2>1, <2>4, SumAffine
  <2>6. Sum(u) = 255 * n - Sum(t)
    BY <2>1, <2>5
  <2> QED
    BY <1>2, <1>4, <2>6 DEF t, u
<1>6. PageCost("CMY", b).k = 0
  <2> DEFINE t == Colored(b, 1)
             u == ByPixel("CMY", b, "k")
  <2>1. t \in Seq(Int) /\ Len(t) = n /\ Len(u) = n /\ Sum(t) \in Int
    BY <1>2, <1>4, SumInt DEF Inks
  <2>2. \A i \in 1 .. n : t[i] \in Int
    BY <2>1, ElementOfSeq
  <2>3. \A i \in 1 .. n : u[i] = 0
    BY <1>3
  <2>0. PageCost("CMY", b).k = Sum(u)
    BY <1>2 DEF Inks
  <2> HIDE DEF t, u
  <2>4. \A i \in 1 .. Len(t) : u[i] = 0 - 0 * t[i]
    BY <2>1, <2>2, <2>3
  <2>5. Sum(u) = 0 * Len(t) - 0 * Sum(t)
    BY <2>1, <2>4, SumAffine
  <2> QED
    BY <1>0, <2>0, <2>1, <2>5
<1>7. /\ PageCost("CMY", b).c = 255 * n - Color(b, 1)
      /\ PageCost("CMY", b).m = 255 * n - Color(b, 2)
      /\ PageCost("CMY", b).y = 255 * n - Color(b, 3)
  BY <1>3, <1>5 DEF Inks
<1> QED
  BY <1>1, <1>6, <1>7 DEF Inks

\* The analyzers for color printers count every pixel of a chunk right.
LEMMA ChunkCost ==
  ASSUME NEW cs \in {"CMYK", "CMYPK", "CMY"}, NEW b \in Bytes, NEW type, NEW ink \in Inks
  PROVE  analyzer(cs, b, type)[ink] = PageCost(cs, b)[ink]
<1>1. CASE cs = "CMYK"
  BY <1>1, ChunkCMYK DEF analyzer
<1>2. CASE cs = "CMYPK"
  BY <1>2, ChunkCMYPK DEF analyzer
<1>3. CASE cs = "CMY"
  BY <1>3, ChunkCMY DEF analyzer
<1> QED
  BY <1>1, <1>2, <1>3

-----------------------------------------------------------------------------
(* A page is the sum of its chunks. *)

LEMMA PixelsJoined ==
  ASSUME NEW x \in Bytes, NEW y \in Bytes, Len(x) % 3 = 0
  PROVE  /\ x \o y \in Bytes /\ Len(x \o y) \div 3 = Len(x) \div 3 + Len(y) \div 3
         /\ \A i \in pixels(x) : Pixel(x \o y, i) = Pixel(x, i)
         /\ \A i \in pixels(y) : Pixel(x \o y, Len(x) \div 3 + i) = Pixel(y, i)
<1> DEFINE m == Len(x)
           n == Len(y)
           q == m \div 3
<1>1. /\ x \o y \in Bytes /\ Len(x \o y) = m + n
      /\ \A i \in 1 .. m + n : (x \o y)[i] = IF i <= m THEN x[i] ELSE y[i - m]
  BY ConcatProperties DEF Bytes
<1>2. m \in Nat /\ n \in Nat /\ q \in Nat /\ m = 3 * q
  <2>1. m \in Nat /\ n \in Nat
    BY PixelsAre
  <2> HIDE DEF m, n
  <2>2. m % 3 = 0
    BY DEF m
  <2> QED
    BY <2>1, <2>2
<1>3. (m + n) \div 3 = q + n \div 3
  <2> HIDE DEF m, n, q
  <2> QED
    BY <1>2
<1>4. ASSUME NEW i \in pixels(x) PROVE Pixel(x \o y, i) = Pixel(x, i)
  <2>1. {3 * i - 2, 3 * i - 1, 3 * i} \subseteq 1 .. m /\ i \in Nat
    BY PixelIs, PixelsAre
  <2> HIDE DEF m, n
  <2>2. (x \o y)[3 * i - 2] = x[3 * i - 2]
    <3>1. 3 * i - 2 \in 1 .. m + n /\ 3 * i - 2 <= m
      BY <1>2, <2>1
    <3> QED
      BY <1>1, <3>1
  <2>3. (x \o y)[3 * i - 1] = x[3 * i - 1]
    BY <1>1, <1>2, <2>1
  <2>4. (x \o y)[3 * i] = x[3 * i]
    BY <1>1, <1>2, <2>1
  <2> QED
    BY <2>2, <2>3, <2>4 DEF Pixel
<1>5. ASSUME NEW i \in pixels(y) PROVE Pixel(x \o y, q + i) = Pixel(y, i)
  <2>1. {3 * i - 2, 3 * i - 1, 3 * i} \subseteq 1 .. n /\ i \in Nat
    BY PixelIs, PixelsAre
  <2> HIDE DEF m, n, q
  <2>2. (x \o y)[3 * (q + i) - 2] = y[3 * i - 2]
    <3>1. 3 * (q + i) - 2 \in 1 .. m + n /\ ~ (3 * (q + i) - 2 <= m) /\ 3 * (q + i) - 2 - m = 3 * i - 2
      BY <1>2, <2>1
    <3> QED
      BY <1>1, <3>1
  <2>3. (x \o y)[3 * (q + i) - 1] = y[3 * i - 1]
    <3>1. 3 * (q + i) - 1 \in 1 .. m + n /\ ~ (3 * (q + i) - 1 <= m) /\ 3 * (q + i) - 1 - m = 3 * i - 1
      BY <1>2, <2>1
    <3> QED
      BY <1>1, <3>1
  <2>4. (x \o y)[3 * (q + i)] = y[3 * i]
    <3>1. 3 * (q + i) \in 1 .. m + n /\ ~ (3 * (q + i) <= m) /\ 3 * (q + i) - m = 3 * i
      BY <1>2, <2>1
    <3> QED
      BY <1>1, <3>1
  <2> QED
    BY <2>2, <2>3, <2>4 DEF Pixel
<1> QED
  BY <1>1, <1>3, <1>4, <1>5

LEMMA PageCostJoined ==
  ASSUME NEW cs \in {"CMYK", "CMYPK", "CMY"}, NEW x \in Bytes, NEW y \in Bytes, Len(x) % 3 = 0,
         NEW ink \in Inks
  PROVE  PageCost(cs, x \o y)[ink] = PageCost(cs, x)[ink] + PageCost(cs, y)[ink]
<1> DEFINE s == ByPixel(cs, x, ink)
           t == ByPixel(cs, y, ink)
           u == ByPixel(cs, x \o y, ink)
           m == Len(x) \div 3
           n == Len(y) \div 3
<1>1. /\ x \o y \in Bytes /\ Len(x \o y) \div 3 = m + n
      /\ \A i \in pixels(x) : Pixel(x \o y, i) = Pixel(x, i)
      /\ \A i \in pixels(y) : Pixel(x \o y, m + i) = Pixel(y, i)
  BY PixelsJoined
<1>2. m \in Nat /\ n \in Nat /\ pixels(x) = 1 .. m /\ pixels(y) = 1 .. n /\ pixels(x \o y) = 1 .. m + n
  BY <1>1, PixelsAre
<1>3. s \in Seq(Int) /\ Len(s) = m /\ PageCost(cs, x)[ink] = Sum(s)
  BY ByPixelIs
<1>4. t \in Seq(Int) /\ Len(t) = n /\ PageCost(cs, y)[ink] = Sum(t)
  BY ByPixelIs
<1>5. u \in Seq(Int) /\ Len(u) = m + n /\ PageCost(cs, x \o y)[ink] = Sum(u)
  BY <1>1, ByPixelIs
<1> HIDE DEF m, n
<1>6. ASSUME NEW i \in 1 .. m PROVE u[i] = s[i]
  <2>1. i \in pixels(x) /\ i \in pixels(x \o y)
    BY <1>2
  <2> QED
    BY <1>1, <2>1 DEF ByPixel
<1>7. ASSUME NEW i \in 1 .. n PROVE u[m + i] = t[i]
  <2>1. i \in pixels(y) /\ m + i \in pixels(x \o y)
    BY <1>2
  <2> QED
    BY <1>1, <2>1 DEF ByPixel
<1> HIDE DEF s, t, u
<1>8. Sum(u) = Sum(s) + Sum(t)
  <2>1. Pieces(u, s, t)
    BY <1>3, <1>4, <1>5, <1>6, <1>7 DEF Pieces
  <2> QED
    BY <2>1, SumSplit
<1> QED
  BY <1>3, <1>4, <1>5, <1>8

\* What GrayCost() adds up
Weighted(p) == 256 * 255 - (78 * p[1] + 151 * p[2] + 27 * p[3])
ByGray(type, b) ==
  IF type = "PGM" THEN [j \in DOMAIN b |-> 256 * (255 - b[j])]
  ELSE [i \in pixels(b) |-> Weighted(Pixel(b, i))]

LEMMA ByteTimes ==
  ASSUME NEW x \in 0 .. 255
  PROVE  x \in Int /\ 256 * (255 - x) \in Int /\ 78 * x \in Int /\ 151 * x \in Int /\ 27 * x \in Int
OBVIOUS

LEMMA ByGrayIs ==
  ASSUME NEW type, NEW b \in Bytes
  PROVE  /\ ByGray(type, b) \in Seq(Int)
         /\ Len(ByGray(type, b)) = IF type = "PGM" THEN Len(b) ELSE Len(b) \div 3
         /\ GrayCost(type, b) = Sum(ByGray(type, b))
<1>1. Len(b) \in Nat /\ Len(b) \div 3 \in Nat /\ pixels(b) = 1 .. Len(b) \div 3
  BY PixelsAre
<1>2. DOMAIN b = 1 .. Len(b) /\ \A j \in 1 .. Len(b) : b[j] \in 0 .. 255
  BY ElementOfSeq, LenProperties DEF Bytes
<1>3. CASE type = "PGM"
  <2>1. ByGray(type, b) = [j \in 1 .. Len(b) |-> 256 * (255 - b[j])]
    BY <1>2, <1>3 DEF ByGray
  <2>2. ASSUME NEW j \in 1 .. Len(b) PROVE ByGray(type, b)[j] \in Int
    <3>1. b[j] \in 0 .. 255 /\ ByGray(type, b)[j] = 256 * (255 - b[j])
      BY <1>2, <2>1
    <3>2. 256 * (255 - b[j]) \in Int
      BY <3>1, ByteTimes
    <3> QED
      BY <3>1, <3>2, Zenon
  <2>3. ByGray(type, b) = [j \in 1 .. Len(b) |-> ByGray(type, b)[j]]
    BY <2>1
  <2>4. ByGray(type, b) \in Seq(Int) /\ Len(ByGray(type, b)) = Len(b)
    BY <1>1, <2>2, <2>3, IntSeq
  <2>5. GrayCost(type, b) = Sum(ByGray(type, b))
    BY <1>3 DEF GrayCost, ByGray
  <2> QED
    BY <1>3, <2>4, <2>5
<1>4. CASE type # "PGM"
  <2> DEFINE n == Len(b) \div 3
  <2>1. ByGray(type, b) = [i \in 1 .. n |-> Weighted(Pixel(b, i))]
    BY <1>1, <1>4 DEF ByGray
  <2>2. ASSUME NEW i \in 1 .. n PROVE ByGray(type, b)[i] \in Int
    <3>1. Pixel(b, i)[1] \in 0 .. 255 /\ Pixel(b, i)[2] \in 0 .. 255 /\ Pixel(b, i)[3] \in 0 .. 255
      BY <1>1, PixelIs
    <3> DEFINE p == Pixel(b, i)
    <3> HIDE DEF p
    <3>2. Weighted(p) \in Int
      <4>1. p[1] \in 0 .. 255 /\ p[2] \in 0 .. 255 /\ p[3] \in 0 .. 255
        BY <3>1 DEF p
      <4>2. 78 * p[1] \in Int /\ 151 * p[2] \in Int /\ 27 * p[3] \in Int
        BY <4>1, ByteTimes
      <4> QED
        BY <4>2 DEF Weighted
    <3> QED
      BY <2>1, <3>2 DEF p
  <2> HIDE DEF n
  <2>3. ByGray(type, b) = [i \in 1 .. n |-> ByGray(type, b)[i]]
    BY <2>1
  <2>4. ByGray(type, b) \in Seq(Int) /\ Len(ByGray(type, b)) = n
    BY <1>1, <2>2, <2>3, IntSeq DEF n
  <2>5. GrayCost(type, b) = Sum(ByGray(type, b))
    BY <1>4 DEF GrayCost, ByGray, Weighted
  <2> QED
    BY <1>4, <2>4, <2>5 DEF n
<1> QED
  BY <1>3, <1>4

LEMMA GrayCostJoined ==
  ASSUME NEW type, NEW x \in Bytes, NEW y \in Bytes, Len(x) % 3 = 0
  PROVE  GrayCost(type, x \o y) = GrayCost(type, x) + GrayCost(type, y)
<1> DEFINE s == ByGray(type, x)
           t == ByGray(type, y)
           u == ByGray(type, x \o y)
<1>1. /\ x \o y \in Bytes /\ Len(x \o y) \div 3 = Len(x) \div 3 + Len(y) \div 3
      /\ \A i \in pixels(x) : Pixel(x \o y, i) = Pixel(x, i)
      /\ \A i \in pixels(y) : Pixel(x \o y, Len(x) \div 3 + i) = Pixel(y, i)
  BY PixelsJoined
<1>2. s \in Seq(Int) /\ t \in Seq(Int) /\ u \in Seq(Int)
  BY <1>1, ByGrayIs
<1>3. CASE type = "PGM"
  <2> DEFINE m == Len(x)
             n == Len(y)
  <2>1. m \in Nat /\ n \in Nat
    BY PixelsAre
  <2>2. /\ Len(x \o y) = m + n
        /\ \A i \in 1 .. m + n : (x \o y)[i] = IF i <= m THEN x[i] ELSE y[i - m]
        /\ DOMAIN x = 1 .. m /\ DOMAIN y = 1 .. n /\ DOMAIN (x \o y) = 1 .. m + n
    <3>1. DOMAIN x = 1 .. m /\ DOMAIN y = 1 .. n /\ DOMAIN (x \o y) = 1 .. Len(x \o y)
      BY <1>1, LenProperties DEF Bytes
    <3>2. Len(x \o y) = m + n
      BY ConcatProperties DEF Bytes
    <3>3. \A i \in 1 .. m + n : (x \o y)[i] = IF i <= m THEN x[i] ELSE y[i - m]
      BY ConcatProperties DEF Bytes
    <3> QED
      BY <3>1, <3>2, <3>3
  <2>3. Len(s) = m /\ Len(t) = n /\ Len(u) = m + n
    BY <1>1, <1>3, <2>2, ByGrayIs
  <2> HIDE DEF m, n
  <2>4. ASSUME NEW i \in 1 .. m PROVE u[i] = s[i]
    <3>1. i \in 1 .. m + n /\ i <= m
      BY <2>1
    <3> QED
      BY <1>3, <2>2, <3>1 DEF ByGray
  <2>5. ASSUME NEW i \in 1 .. n PROVE u[m + i] = t[i]
    <3>1. m + i \in 1 .. m + n /\ ~ (m + i <= m) /\ m + i - m = i
      BY <2>1
    <3>2. (x \o y)[m + i] = y[i]
      <4> DEFINE w == m + i
      <4>1. w \in 1 .. m + n /\ ~ (w <= m) /\ w - m = i
        <5>1. i \in Nat /\ i >= 1
          OBVIOUS
        <5> QED
          BY <2>1, <3>1, <5>1
      <4> HIDE DEF w
      <4>2. (x \o y)[w] = y[w - m]
        BY <2>2, <4>1
      <4> QED
        BY <4>1, <4>2 DEF w
    <3> QED
      BY <1>3, <2>2, <3>1, <3>2 DEF ByGray
  <2> HIDE DEF s, t, u
  <2>6. Sum(u) = Sum(s) + Sum(t)
    <3>1. Pieces(u, s, t)
      BY <1>2, <2>3, <2>4, <2>5 DEF Pieces
    <3> QED
      BY <3>1, SumSplit
  <2> QED
    BY <1>1, <2>6, ByGrayIs DEF s, t, u
<1>4. CASE type # "PGM"
  <2> DEFINE m == Len(x) \div 3
             n == Len(y) \div 3
  <2>1. m \in Nat /\ n \in Nat /\ pixels(x) = 1 .. m /\ pixels(y) = 1 .. n /\ pixels(x \o y) = 1 .. m + n
    BY <1>1, PixelsAre
  <2>2. Len(s) = m /\ Len(t) = n /\ Len(u) = m + n
    BY <1>1, <1>4, ByGrayIs
  <2> HIDE DEF m, n
  <2>3. ASSUME NEW i \in 1 .. m PROVE u[i] = s[i]
    <3>1. i \in pixels(x) /\ i \in pixels(x \o y)
      BY <2>1
    <3> QED
      BY <1>1, <1>4, <3>1 DEF ByGray
  <2>4. ASSUME NEW i \in 1 .. n PROVE u[m + i] = t[i]
    <3>1. i \in pixels(y) /\ m + i \in pixels(x \o y) /\ m = Len(x) \div 3
      BY <2>1 DEF m
    <3> QED
      BY <1>1, <1>4, <3>1 DEF ByGray
  <2> HIDE DEF s, t, u
  <2>5. Sum(u) = Sum(s) + Sum(t)
    <3>1. Len(u) = Len(s) + Len(t) /\ \A i \in 1 .. Len(s) : u[i] = s[i]
      BY <2>2, <2>3
    <3>2. \A i \in 1 .. Len(t) : u[Len(s) + i] = t[i]
      BY <2>2, <2>4
    <3> QED
      <4>1. Pieces(u, s, t)
        BY <1>2, <3>1, <3>2 DEF Pieces
      <4> QED
        BY <4>1, SumSplit
  <2> QED
    BY <1>1, <2>5, ByGrayIs DEF s, t, u
<1> QED
  BY <1>3, <1>4

\* In grayscale a chunk counts at most a droplet too much.
RoundsUp(type, b) ==
  /\ 256 * pxcost_gray(b, type).k - GrayCost(type, b) \in 0 .. 255
  /\ Len(b) = 0 => 256 * pxcost_gray(b, type).k - GrayCost(type, b) = 0
  /\ pxcost_gray(b, type) \in [Inks -> Int]
  /\ GrayCost(type, b) \in Int

LEMMA GrayChunk ==
  ASSUME NEW type \in {"PPM", "PGM"}, NEW b \in Bytes
  PROVE  RoundsUp(type, b)
<1>0. GrayCost(type, b) \in Int
  BY ByGrayIs, SumInt
<1>1. CASE type = "PGM"
  <2> DEFINE u == ByGray(type, b)
             n == Len(b)
  <2>1. b \in Seq(Int) /\ n \in Nat /\ Sum(b) \in Int
    <3>1. n \in Nat /\ b = [j \in 1 .. n |-> b[j]]
      BY LenProperties DEF Bytes
    <3>2. ASSUME NEW j \in 1 .. n PROVE b[j] \in Int
      <4>1. b[j] \in 0 .. 255
        BY ElementOfSeq DEF Bytes
      <4> QED
        BY <4>1, ByteTimes
    <3>3. b \in Seq(Int)
      BY <3>1, <3>2, IntSeq
    <3> QED
      BY <3>1, <3>3, SumInt
  <2>2. DOMAIN b = 1 .. n /\ \A j \in 1 .. n : b[j] \in Int
    BY <2>1, ElementOfSeq, LenProperties DEF Bytes
  <2>3. Len(u) = n /\ GrayCost(type, b) = Sum(u)
    BY <1>1, ByGrayIs
  <2>4. ASSUME NEW j \in 1 .. n PROVE u[j] = 65280 - 256 * b[j]
    <3>1. u[j] = 256 * (255 - b[j])
      BY <1>1, <2>2 DEF ByGray
    <3> QED
      BY <2>2, <3>1
  <2>5. pxcost_gray(b, type) = [Zero EXCEPT !.k = 255 * n - Sum(b)]
    BY <1>1 DEF pxcost_gray
  <2> HIDE DEF u
  <2>6. Sum(u) = 65280 * n - 256 * Sum(b)
    BY <2>1, <2>3, <2>4, SumAffine
  <2> DEFINE S == Sum(b)
  <2> HIDE DEF n, S
  <2>7. pxcost_gray(b, type) = [c |-> 0, m |-> 0, y |-> 0, k |-> 255 * n - S]
    BY <2>5 DEF Zero, S
  <2>8. 256 * (255 * n - S) - (65280 * n - 256 * S) = 0 /\ 255 * n - S \in Int
    BY <2>1 DEF S
  <2>9. pxcost_gray(b, type).k = 255 * n - S /\ pxcost_gray(b, type) \in [Inks -> Int]
    BY <2>7, <2>8 DEF Inks
  <2>10. 256 * pxcost_gray(b, type).k - GrayCost(type, b) = 0
    BY <2>3, <2>6, <2>8, <2>9 DEF S
  <2> QED
    BY <1>0, <2>9, <2>10 DEF RoundsUp
<1>2. CASE type = "PPM"
  <2> DEFINE u == ByGray(type, b)
             n == Len(b) \div 3
             R == Colored(b, 1)
             G == Colored(b, 2)
             B == Colored(b, 3)
             W == 78 * Sum(R) + 151 * Sum(G) + 27 * Sum(B)
  <2>1. n \in Nat /\ pixels(b) = 1 .. n
    BY PixelsAre
  <2>2. /\ R \in Seq(Int) /\ G \in Seq(Int) /\ B \in Seq(Int)
        /\ Len(R) = n /\ Len(G) = n /\ Len(B) = n
        /\ Color(b, 1) = Sum(R) /\ Color(b, 2) = Sum(G) /\ Color(b, 3) = Sum(B)
    BY ColoredIs
  <2>3. Len(u) = n /\ GrayCost(type, b) = Sum(u)
    BY <1>2, ByGrayIs
  <2>4. ASSUME NEW i \in 1 .. n PROVE u[i] = 256 * 255 - (78 * R[i] + 151 * G[i] + 27 * B[i])
    BY <1>2, <2>1 DEF ByGray, Weighted, Colored
  <2>5. pxcost_gray(b, type) = [Zero EXCEPT !.k = 255 * n - W \div 256]
    BY <1>2, <2>2 DEF pxcost_gray, rgb_to_gray
  <2> HIDE DEF n, u, R, G, B
  <2>6. Sum(u) = (256 * 255) * n - W
    <3> DEFINE k == 256 * 255
               x == 78
               y == 151
               z == 27
    <3>1. k \in Int /\ x \in Int /\ y \in Int /\ z \in Int
      OBVIOUS
    <3>2. Len(G) = Len(R) /\ Len(B) = Len(R) /\ Len(u) = Len(R)
      BY <2>2, <2>3
    <3>3. Weighs(u, k, x, y, z, R, G, B)
      BY <2>2, <2>4, <3>1, <3>2 DEF Weighs
    <3> HIDE DEF k, x, y, z
    <3>4. Sum(u) = k * Len(R) - (x * Sum(R) + y * Sum(G) + z * Sum(B))
      BY <3>3, SumWeighted DEF SumWeighs
    <3> QED
      BY <2>2, <3>4 DEF k, x, y, z
  <2>7. W \in Int
    <3>1. Sum(R) \in Int /\ Sum(G) \in Int /\ Sum(B) \in Int
      BY <2>2, SumInt
    <3> QED
      BY <3>1
  <2> HIDE DEF W
  <2>8. /\ 255 * n - W \div 256 \in Int
        /\ 256 * (255 * n - W \div 256) - ((256 * 255) * n - W) \in 0 .. 255
    BY <2>1, <2>7
  <2>9. pxcost_gray(b, type) = [c |-> 0, m |-> 0, y |-> 0, k |-> 255 * n - W \div 256]
    BY <2>5 DEF Zero
  <2>10. pxcost_gray(b, type).k = 255 * n - W \div 256 /\ pxcost_gray(b, type) \in [Inks -> Int]
    BY <2>8, <2>9 DEF Inks
  <2>11. 256 * pxcost_gray(b, type).k - GrayCost(type, b) \in 0 .. 255
    BY <2>3, <2>6, <2>8, <2>10
  <2>12. ASSUME Len(b) = 0 PROVE 256 * pxcost_gray(b, type).k - GrayCost(type, b) = 0
    <3>1. n = 0
      BY <2>12 DEF n
    <3>2. Sum(R) = 0 /\ Sum(G) = 0 /\ Sum(B) = 0 /\ Sum(u) = 0
      BY <2>2, <2>3, <3>1, SumEmpty
    <3>3. W = 0
      BY <3>2 DEF W
    <3> QED
      BY <2>3, <2>10, <3>1, <3>2, <3>3
  <2> QED
    BY <1>0, <2>10, <2>11, <2>12 DEF RoundsUp
<1> QED
  BY <1>1, <1>2

LEMMA DivUnique ==
  ASSUME NEW B \in Nat \ {0}, NEW m \in Int, NEW q \in Int, q * B <= m, m < q * B + B
  PROVE  m \div B = q
OBVIOUS

\* The number of the chunks of so many bytes
Chunks(a) == (a + BufferSize - 1) \div BufferSize

LEMMA ChunksAre ==
  ASSUME NEW k \in Nat, NEW len \in 0 .. BufferSize
  PROVE  Chunks(k * BufferSize + len) = IF len = 0 THEN k ELSE k + 1
<1>1. BufferSize \in Nat \ {0} /\ k * BufferSize \in Nat
  BY LpacctAssumption
<1>2. CASE len = 0
  BY <1>1, <1>2, DivUnique DEF Chunks
<1>3. CASE len # 0
  <2>1. (k + 1) * BufferSize = k * BufferSize + BufferSize
    BY <1>1
  <2> DEFINE m == k * BufferSize + len + (BufferSize - 1)
  <2>2. m \in Int /\ k + 1 \in Int /\ (k + 1) * BufferSize <= m /\ m < (k + 1) * BufferSize + BufferSize
    BY <1>1, <1>3, <2>1
  <2>3. m \div BufferSize = k + 1
    BY <1>1, <2>2, DivUnique
  <2> QED
    BY <1>3, <2>3 DEF Chunks
<1> QED
  BY <1>2, <1>3

-----------------------------------------------------------------------------
(* The inductive invariant *)

Size(d, n) == Len(d.pages[n].bytes)
First(d, n, a) == SubSeq(d.pages[n].bytes, 1, a)

\* What the first a bytes of page n cost, which are whole chunks
PageRight(d, cost, n, a) ==
  IF d.colorspace = "GRAY"
  THEN 256 * cost.k - GrayCost(d.pages[n].type, First(d, n, a)) \in 0 .. 255 * Chunks(a)
  ELSE \A ink \in Inks : cost[ink] = PageCost(d.colorspace, First(d, n, a))[ink]

\* What the first n pages cost
PagesInk(d, n, ink) == Sum([i \in 1 .. n |-> PageCost(d.colorspace, d.pages[i].bytes)[ink]])
PagesGray(d, n)     == Sum([i \in 1 .. n |-> GrayCost(d.pages[i].type, d.pages[i].bytes)])
PagesChunks(d, n)   == Sum([i \in 1 .. n |-> Chunks(Size(d, i))])

PagesRight(d, cost, n) ==
  IF d.colorspace = "GRAY"
  THEN 256 * cost.k - PagesGray(d, n) \in 0 .. 255 * PagesChunks(d, n)
  ELSE \A ink \in Inks : cost[ink] = PagesInk(d, n, ink)

Row == [attempt : Nat, colorspace : colorspaces, cost : [Inks -> [num : Int, den : Nat]],
        pages : Nat, confirmed : BOOLEAN]

TypeInv ==
  /\ doc \in Docs /\ attempt \in Nat /\ npages \in Nat /\ printlog \subseteq Row
  /\ out \in [pages : Nat, bytes : Int]
  /\ image \in [n : Nat, read : Nat, chunk : Bytes, want : Nat]
  /\ page_cost \in [Inks -> Int] /\ all_cost \in [Inks -> Int]

\* A page of which Ghostscript writes only a part is the last one it writes.
OutInv ==
  /\ out.pages <= Len(doc.pages) /\ out.bytes >= -1
  /\ out.bytes >= 0 => out.pages + 1 <= Len(doc.pages) /\ out.bytes < Size(doc, out.pages + 1)

\* The chunk at hand follows k whole ones.
ChunkFollows(k) ==
  LET a == k * BufferSize
  IN  /\ a <= image.read /\ image.read <= There(image.n)
      /\ image.chunk = SubSeq(doc.pages[image.n].bytes, a + 1, image.read)
      /\ image.want = Block(image.n, a) - (image.read - a)
      /\ PageRight(doc, page_cost, image.n, a)

FilterInv ==
  /\ filter \in {"tee", "gs"} => npages = 0 /\ image.n = 0
  /\ filter = "header" => image.n = npages /\ npages <= out.pages
  /\ filter = "chunk" =>
       /\ image.n = npages + 1
       /\ image.n <= out.pages \/ (image.n = out.pages + 1 /\ out.bytes >= 0)
       /\ \E k \in Nat : ChunkFollows(k)
  /\ filter = "sum" =>
       /\ image.n = npages + 1 /\ image.n <= out.pages
       /\ PageRight(doc, page_cost, image.n, Size(doc, image.n))
  /\ filter \in {"syslog", "mysql", "exit", "success"} => npages = out.pages /\ out.bytes = -1
  /\ filter # "failure" => PagesRight(doc, all_cost, npages)

RowsInv ==
  \A row \in printlog :
    /\ row.attempt <= attempt
    /\ row.attempt = attempt =>
         filter \in {"exit", "success"} /\ row.cost = drop2bl(all_cost) /\ row.pages = npages

IInv == TypeInv /\ OutInv /\ FilterInv /\ RowsInv

-----------------------------------------------------------------------------
(* What a chunk and what a page add *)

LEMMA PageIs ==
  ASSUME NEW d \in Docs, NEW n \in 1 .. Len(d.pages)
  PROVE  /\ d.pages[n].bytes \in Bytes /\ Size(d, n) \in Nat /\ d.pages[n].type \in {"PPM", "PGM"}
         /\ d.colorspace \in colorspaces /\ Len(d.pages) \in Nat
<1>1. d.pages \in Seq(Page) /\ d.colorspace \in colorspaces
  BY LpacctAssumption
<1>2. d.pages[n] \in Page /\ Len(d.pages) \in Nat
  BY <1>1, ElementOfSeq, LenProperties
<1>3. d.pages[n].bytes \in Bytes /\ d.pages[n].type \in {"PPM", "PGM"}
  BY <1>2 DEF Page, Bytes
<1> QED
  BY <1>1, <1>2, <1>3, PixelsAre DEF Size

LEMMA Cut ==
  ASSUME NEW b \in Bytes, NEW a \in 0 .. Len(b), NEW z \in a .. Len(b)
  PROVE  /\ SubSeq(b, 1, a) \in Bytes /\ Len(SubSeq(b, 1, a)) = a
         /\ SubSeq(b, a + 1, z) \in Bytes /\ Len(SubSeq(b, a + 1, z)) = z - a
         /\ SubSeq(b, 1, a) \o SubSeq(b, a + 1, z) = SubSeq(b, 1, z)
<1>1. Len(b) \in Nat /\ a \in Int /\ z \in Int
  BY PixelsAre
<1>2. \A i \in 1 .. Len(b) : b[i] \in 0 .. 255
  BY ElementOfSeq DEF Bytes
<1>3. SubSeq(b, 1, a) \in Bytes /\ Len(SubSeq(b, 1, a)) = a
  <2>1. \A i \in 1 .. a : b[i] \in 0 .. 255
    BY <1>1, <1>2
  <2>2. /\ SubSeq(b, 1, a) \in Seq(0 .. 255)
        /\ Len(SubSeq(b, 1, a)) = IF 1 <= a THEN a - 1 + 1 ELSE 0
    BY <1>1, <2>1, SubSeqProperties
  <2> QED
    BY <1>1, <2>2 DEF Bytes
<1>4. SubSeq(b, a + 1, z) \in Bytes /\ Len(SubSeq(b, a + 1, z)) = z - a
  <2>1. \A i \in a + 1 .. z : b[i] \in 0 .. 255
    BY <1>1, <1>2
  <2>0. a + 1 \in Int
    BY <1>1
  <2>2. /\ SubSeq(b, a + 1, z) \in Seq(0 .. 255)
        /\ Len(SubSeq(b, a + 1, z)) = IF a + 1 <= z THEN z - (a + 1) + 1 ELSE 0
    BY <1>1, <2>0, <2>1, SubSeqProperties
  <2> QED
    BY <1>1, <2>2 DEF Bytes
<1>5. SubSeq(b, 1, a) \o SubSeq(b, a + 1, z) = SubSeq(b, 1, z)
  <2>1. 1 \in 1 .. Len(b) + 1 /\ a \in 1 - 1 .. Len(b)
    BY <1>1
  <2> QED
    BY <2>1, ConcatAdjacentSubSeq DEF Bytes
<1> QED
  BY <1>3, <1>4, <1>5

LEMMA WholePixels ==
  ASSUME NEW k \in Nat
  PROVE  k * BufferSize \in Nat /\ (k * BufferSize) % 3 = 0
<1>1. BufferSize \in Nat /\ BufferSize % 3 = 0
  BY LpacctAssumption
<1> DEFINE c == BufferSize \div 3
<1>2. c \in Nat /\ BufferSize = 3 * c
  BY <1>1
<1> HIDE DEF c
<1> DEFINE p == k * c
<1>3. p \in Nat /\ k * BufferSize = 3 * p
  BY <1>2
<1> HIDE DEF p
<1> QED
  BY <1>3

LEMMA ChunkAdded ==
  ASSUME NEW d \in Docs, NEW n \in 1 .. Len(d.pages), NEW k \in Nat, NEW a, a = k * BufferSize,
         NEW z \in a .. Size(d, n), z - a <= BufferSize,
         NEW cost \in [Inks -> Int], PageRight(d, cost, n, a),
         NEW c, c = Plus(cost, analyzer(d.colorspace, SubSeq(d.pages[n].bytes, a + 1, z), d.pages[n].type))
  PROVE  c \in [Inks -> Int] /\ PageRight(d, c, n, z)
<1> DEFINE b == d.pages[n].bytes
           type == d.pages[n].type
           cs == d.colorspace
           x == SubSeq(b, 1, a)
           y == SubSeq(b, a + 1, z)
           one == analyzer(cs, y, type)
<1>1. b \in Bytes /\ Len(b) \in Nat /\ type \in {"PPM", "PGM"} /\ cs \in colorspaces
  BY PageIs DEF Size
<1>2. a \in Nat /\ a % 3 = 0
  BY WholePixels
<1>3. a \in 0 .. Len(b) /\ z \in a .. Len(b)
  BY <1>1, <1>2 DEF Size
<1>4. /\ x \in Bytes /\ Len(x) = a /\ y \in Bytes /\ Len(y) = z - a
      /\ x \o y = SubSeq(b, 1, z)
  BY <1>1, <1>3, Cut
<1>5. First(d, n, a) = x /\ First(d, n, z) = x \o y
  BY <1>4 DEF First
<1>6. DOMAIN cost = Inks /\ c = [ink \in Inks |-> cost[ink] + one[ink]]
  BY DEF Plus
<1> HIDE DEF x, y, b, type, cs, one
<1>7. CASE cs \in {"CMYK", "CMYPK", "CMY"}
  <2>1. \A ink \in Inks : cost[ink] = PageCost(cs, x)[ink]
    BY <1>5, <1>7 DEF PageRight, cs
  <2>2. ASSUME NEW ink \in Inks
        PROVE  c[ink] = PageCost(cs, x \o y)[ink] /\ c[ink] \in Int
    <3>1. one[ink] = PageCost(cs, y)[ink]
      BY <1>4, <1>7, ChunkCost DEF one
    <3>2. PageCost(cs, x \o y)[ink] = PageCost(cs, x)[ink] + PageCost(cs, y)[ink]
      <4>1. Len(x) % 3 = 0
        BY <1>2, <1>4
      <4> QED
        BY <1>4, <1>7, <4>1, PageCostJoined
    <3>3. PageCost(cs, y)[ink] \in Int
      BY <1>4, <1>7, ByPixelIs, SumInt
    <3> QED
      BY <1>6, <2>1, <3>1, <3>2, <3>3
  <2>3. c \in [Inks -> Int]
    BY <1>6, <2>2
  <2>4. PageRight(d, c, n, z)
    BY <1>5, <1>7, <2>2 DEF PageRight, cs
  <2> QED
    BY <2>3, <2>4
<1>8. CASE cs = "GRAY"
  <2> DEFINE g == 256 * one.k - GrayCost(type, y)
             h == 256 * cost.k - GrayCost(type, x)
  <2>1. one = pxcost_gray(y, type)
    BY <1>8 DEF analyzer, one
  <2>2. /\ g \in 0 .. 255 /\ (Len(y) = 0 => g = 0) /\ one \in [Inks -> Int]
        /\ GrayCost(type, y) \in Int /\ GrayCost(type, x) \in Int
    <3>1. RoundsUp(type, y) /\ RoundsUp(type, x)
      BY <1>1, <1>4, GrayChunk
    <3> QED
      BY <2>1, <3>1 DEF RoundsUp
  <2>3. h \in 0 .. 255 * Chunks(a)
    BY <1>5, <1>8 DEF PageRight, cs, type
  <2>4. GrayCost(type, x \o y) = GrayCost(type, x) + GrayCost(type, y)
    BY <1>2, <1>4, GrayCostJoined
  <2>5. c \in [Inks -> Int] /\ c.k = cost.k + one.k /\ cost.k \in Int /\ one.k \in Int
    <3>1. "k" \in Inks
      BY DEF Inks
    <3>2. \A ink \in Inks : cost[ink] \in Int /\ one[ink] \in Int
      BY <2>2
    <3>3. c \in [Inks -> Int]
      BY <1>6, <3>2
    <3> QED
      BY <1>6, <3>1, <3>2, <3>3
  <2>6. 256 * c.k - GrayCost(type, x \o y) = h + g
    <3> DEFINE G == GrayCost(type, x)
               H == GrayCost(type, y)
               C == cost.k
               O == one.k
    <3>1. G \in Int /\ H \in Int /\ C \in Int /\ O \in Int
      BY <2>2, <2>5
    <3> HIDE DEF G, H, C, O
    <3>2. 256 * (C + O) - (G + H) = (256 * C - G) + (256 * O - H)
      BY <3>1
    <3> QED
      BY <2>4, <2>5, <3>2 DEF G, H, C, O
  <2> HIDE DEF g, h
  <2>7. Chunks(a) = k /\ Chunks(z) = IF z - a = 0 THEN k ELSE k + 1
    <3>1. 0 \in 0 .. BufferSize /\ z - a \in 0 .. BufferSize
      BY <1>2, <1>3, LpacctAssumption
    <3>2. Chunks(k * BufferSize + 0) = k
      BY <3>1, ChunksAre
    <3>3. Chunks(k * BufferSize + (z - a)) = IF z - a = 0 THEN k ELSE k + 1
      BY <3>1, ChunksAre
    <3>4. k * BufferSize + 0 = a /\ k * BufferSize + (z - a) = z
      BY <1>2, <1>3
    <3> QED
      BY <3>2, <3>3, <3>4
  <2>8. h + g \in 0 .. 255 * Chunks(z)
    <3>1. CASE z - a = 0
      BY <1>4, <2>2, <2>3, <2>7, <3>1
    <3>2. CASE z - a # 0
      BY <2>2, <2>3, <2>7, <3>2
    <3> QED
      BY <3>1, <3>2
  <2>9. PageRight(d, c, n, z)
    BY <1>5, <1>8, <2>6, <2>8 DEF PageRight, cs, type
  <2> QED
    BY <2>5, <2>9
<1> QED
  BY <1>1, <1>7, <1>8 DEF colorspaces

\* u is s and one more number.
Continues(u, s, n) ==
  /\ s = [i \in 1 .. n |-> s[i]] /\ u = [i \in 1 .. n + 1 |-> u[i]]
  /\ \A i \in 1 .. n + 1 : u[i] \in Int
  /\ \A i \in 1 .. n : s[i] = u[i]

SumContinues(u, s, n) == Sum(s) \in Int /\ Sum(u) = Sum(s) + u[n + 1]

LEMMA SumNext ==
  ASSUME NEW n \in Nat, NEW s, NEW u, Continues(u, s, n)
  PROVE  SumContinues(u, s, n)
<1>1. s = [i \in 1 .. n |-> s[i]] /\ u = [i \in 1 .. n + 1 |-> u[i]]
  BY DEF Continues
<1>2. \A i \in 1 .. n + 1 : u[i] \in Int
  BY DEF Continues
<1>3. \A i \in 1 .. n : s[i] = u[i]
  BY DEF Continues
<1>4. \A i \in 1 .. n : s[i] \in Int
  BY <1>2, <1>3
<1>5. s \in Seq(Int) /\ Len(s) = n
  BY <1>1, <1>4, IntSeq
<1>6. u \in Seq(Int) /\ Len(u) = n + 1
  <2>1. n + 1 \in Nat
    OBVIOUS
  <2> QED
    BY <1>1, <1>2, <2>1, IntSeq
<1> DEFINE x == u[n + 1]
           t == <<x>>
<1>7. x \in Int
  BY <1>2
<1>8. t \in Seq(Int) /\ Len(t) = 1 /\ t[1] = x
  BY <1>7
<1>9. \A i \in 1 .. Len(t) : u[Len(s) + i] = t[i]
  BY <1>5, <1>8
<1>10. Sum(t) = x
  <2> HIDE DEF t, x
  <2>1. PICK h : Adds(h, t, 1)
    BY <1>8, SumSteps
  <2>2. h[0] = 0 /\ h[0 + 1] = h[0] + t[0 + 1] /\ Sum(t) = h[1]
    BY <2>1 DEF Adds
  <2> QED
    BY <1>7, <1>8, <2>2
<1> HIDE DEF t, x
<1>11. Sum(u) = Sum(s) + Sum(t)
  <2>1. Len(u) = Len(s) + Len(t)
    BY <1>5, <1>6, <1>8
  <2>2. \A i \in 1 .. Len(s) : u[i] = s[i]
    BY <1>3, <1>5
  <2> QED
    <3>1. Pieces(u, s, t)
      BY <1>5, <1>6, <1>8, <1>9, <2>1, <2>2 DEF Pieces
    <3> QED
      BY <3>1, SumSplit
<1> QED
  BY <1>5, <1>10, <1>11, SumInt DEF x, SumContinues

LEMMA InkNext ==
  ASSUME NEW d \in Docs, NEW n \in Nat, n + 1 <= Len(d.pages), NEW ink \in Inks,
         d.colorspace \in {"CMYK", "CMYPK", "CMY"}
  PROVE  /\ PagesInk(d, n, ink) \in Int
         /\ PagesInk(d, n + 1, ink) = PagesInk(d, n, ink) + PageCost(d.colorspace, d.pages[n + 1].bytes)[ink]
<1> DEFINE s == [i \in 1 .. n |-> PageCost(d.colorspace, d.pages[i].bytes)[ink]]
           u == [i \in 1 .. n + 1 |-> PageCost(d.colorspace, d.pages[i].bytes)[ink]]
<1>1. ASSUME NEW i \in 1 .. n + 1 PROVE u[i] \in Int
  <2>1. i \in 1 .. Len(d.pages)
    BY LpacctAssumption, LenProperties
  <2>2. d.pages[i].bytes \in Bytes
    BY <2>1, PageIs
  <2> QED
    BY <2>2, ByPixelIs, SumInt
<1>2. \A i \in 1 .. n : s[i] = u[i]
  OBVIOUS
<1>3. s = [i \in 1 .. n |-> s[i]] /\ u = [i \in 1 .. n + 1 |-> u[i]]
  OBVIOUS
<1>4. u[n + 1] = PageCost(d.colorspace, d.pages[n + 1].bytes)[ink]
  OBVIOUS
<1>5. PagesInk(d, n, ink) = Sum(s) /\ PagesInk(d, n + 1, ink) = Sum(u)
  BY DEF PagesInk
<1> HIDE DEF s, u
<1>6. Continues(u, s, n)
  BY <1>1, <1>2, <1>3 DEF Continues
<1>7. Sum(s) \in Int /\ Sum(u) = Sum(s) + u[n + 1]
  BY <1>6, SumNext DEF SumContinues
<1> QED
  BY <1>4, <1>5, <1>7

LEMMA GrayNext ==
  ASSUME NEW d \in Docs, NEW n \in Nat, n + 1 <= Len(d.pages)
  PROVE  /\ PagesGray(d, n) \in Int
         /\ PagesGray(d, n + 1) = PagesGray(d, n) + GrayCost(d.pages[n + 1].type, d.pages[n + 1].bytes)
<1> DEFINE s == [i \in 1 .. n |-> GrayCost(d.pages[i].type, d.pages[i].bytes)]
           u == [i \in 1 .. n + 1 |-> GrayCost(d.pages[i].type, d.pages[i].bytes)]
<1>1. ASSUME NEW i \in 1 .. n + 1 PROVE u[i] \in Int
  <2>1. i \in 1 .. Len(d.pages)
    BY LpacctAssumption, LenProperties
  <2>2. d.pages[i].bytes \in Bytes
    BY <2>1, PageIs
  <2> QED
    BY <2>2, ByGrayIs, SumInt
<1>2. \A i \in 1 .. n : s[i] = u[i]
  OBVIOUS
<1>3. s = [i \in 1 .. n |-> s[i]] /\ u = [i \in 1 .. n + 1 |-> u[i]]
  OBVIOUS
<1>4. u[n + 1] = GrayCost(d.pages[n + 1].type, d.pages[n + 1].bytes)
  OBVIOUS
<1>5. PagesGray(d, n) = Sum(s) /\ PagesGray(d, n + 1) = Sum(u)
  BY DEF PagesGray
<1> HIDE DEF s, u
<1>6. Continues(u, s, n)
  BY <1>1, <1>2, <1>3 DEF Continues
<1>7. Sum(s) \in Int /\ Sum(u) = Sum(s) + u[n + 1]
  BY <1>6, SumNext DEF SumContinues
<1> QED
  BY <1>4, <1>5, <1>7

LEMMA ChunksInt ==
  ASSUME NEW a \in Nat
  PROVE  Chunks(a) \in Int
<1> DEFINE m == a + (BufferSize - 1)
<1>1. BufferSize \in Nat \ {0} /\ m \in Int
  BY LpacctAssumption
<1> HIDE DEF m
<1>2. m \div BufferSize \in Int
  BY <1>1
<1> QED
  BY <1>2 DEF Chunks, m

LEMMA ChunksNext ==
  ASSUME NEW d \in Docs, NEW n \in Nat, n + 1 <= Len(d.pages)
  PROVE  /\ PagesChunks(d, n) \in Int
         /\ PagesChunks(d, n + 1) = PagesChunks(d, n) + Chunks(Size(d, n + 1))
<1> DEFINE s == [i \in 1 .. n |-> Chunks(Size(d, i))]
           u == [i \in 1 .. n + 1 |-> Chunks(Size(d, i))]
<1>1. ASSUME NEW i \in 1 .. n + 1 PROVE u[i] \in Int
  <2>1. i \in 1 .. Len(d.pages)
    BY LpacctAssumption, LenProperties
  <2>2. Size(d, i) \in Nat
    BY <2>1, PageIs
  <2> QED
    BY <2>2, ChunksInt
<1>2. \A i \in 1 .. n : s[i] = u[i]
  OBVIOUS
<1>3. s = [i \in 1 .. n |-> s[i]] /\ u = [i \in 1 .. n + 1 |-> u[i]]
  OBVIOUS
<1>4. u[n + 1] = Chunks(Size(d, n + 1))
  OBVIOUS
<1>5. PagesChunks(d, n) = Sum(s) /\ PagesChunks(d, n + 1) = Sum(u)
  BY DEF PagesChunks
<1> HIDE DEF s, u
<1>6. Continues(u, s, n)
  BY <1>1, <1>2, <1>3 DEF Continues
<1>7. Sum(s) \in Int /\ Sum(u) = Sum(s) + u[n + 1]
  BY <1>6, SumNext DEF SumContinues
<1> QED
  BY <1>4, <1>5, <1>7

LEMMA PageAdded ==
  ASSUME NEW d \in Docs, NEW n \in Nat, NEW m, m = n + 1, m <= Len(d.pages),
         NEW all \in [Inks -> Int], PagesRight(d, all, n),
         NEW page \in [Inks -> Int], PageRight(d, page, m, Size(d, m)),
         NEW c, c = Plus(all, page)
  PROVE  c \in [Inks -> Int] /\ PagesRight(d, c, m)
<1> DEFINE b == d.pages[m].bytes
           type == d.pages[m].type
           cs == d.colorspace
<1>0. m \in 1 .. Len(d.pages)
  <2>1. Len(d.pages) \in Nat
    BY LpacctAssumption, LenProperties
  <2> QED
    BY <2>1
<1>1. b \in Bytes /\ Size(d, m) = Len(b) /\ cs \in colorspaces /\ Size(d, m) \in Nat
  BY <1>0, PageIs DEF Size
<1>2. First(d, m, Size(d, m)) = b
  BY <1>1, SubSeqFull DEF First, Bytes
<1>3. c = [ink \in Inks |-> all[ink] + page[ink]] /\ \A ink \in Inks : all[ink] \in Int /\ page[ink] \in Int
  BY DEF Plus
<1>4. c \in [Inks -> Int]
  BY <1>3
<1> HIDE DEF b, type, cs
<1>5. CASE cs \in {"CMYK", "CMYPK", "CMY"}
  <2>1. \A ink \in Inks : all[ink] = PagesInk(d, n, ink) /\ page[ink] = PageCost(cs, b)[ink]
    BY <1>2, <1>5 DEF PagesRight, PageRight, cs
  <2>2. \A ink \in Inks : PagesInk(d, m, ink) = PagesInk(d, n, ink) + PageCost(cs, b)[ink]
    BY <1>5, InkNext DEF cs, b
  <2>3. \A ink \in Inks : c[ink] = PagesInk(d, m, ink)
    BY <1>3, <2>1, <2>2
  <2> QED
    BY <1>4, <1>5, <2>3 DEF PagesRight, cs
<1>6. CASE cs = "GRAY"
  <2> DEFINE h == 256 * all.k - PagesGray(d, n)
             g == 256 * page.k - GrayCost(type, b)
  <2>1. h \in 0 .. 255 * PagesChunks(d, n) /\ g \in 0 .. 255 * Chunks(Size(d, m))
    BY <1>2, <1>6 DEF PagesRight, PageRight, cs, type
  <2>2. /\ PagesGray(d, n) \in Int /\ PagesGray(d, m) = PagesGray(d, n) + GrayCost(type, b)
        /\ PagesChunks(d, n) \in Int /\ PagesChunks(d, m) = PagesChunks(d, n) + Chunks(Size(d, m))
    BY GrayNext, ChunksNext DEF type, b
  <2>3. GrayCost(type, b) \in Int /\ Chunks(Size(d, m)) \in Int
    BY <1>1, ByGrayIs, SumInt, ChunksInt
  <2>4. "k" \in Inks
    BY DEF Inks
  <2>5. c.k = all.k + page.k /\ all.k \in Int /\ page.k \in Int
    BY <1>3, <2>4
  <2>6. 256 * c.k - PagesGray(d, m) = h + g
    <3> DEFINE G == PagesGray(d, n)
               H == GrayCost(type, b)
               C == all.k
               O == page.k
    <3>1. G \in Int /\ H \in Int /\ C \in Int /\ O \in Int
      BY <2>2, <2>3, <2>5
    <3> HIDE DEF G, H, C, O
    <3>2. 256 * (C + O) - (G + H) = (256 * C - G) + (256 * O - H)
      BY <3>1
    <3> QED
      BY <2>2, <2>5, <3>2 DEF G, H, C, O
  <2> HIDE DEF g, h
  <2>7. h + g \in 0 .. 255 * PagesChunks(d, m)
    BY <2>1, <2>2, <2>3
  <2> QED
    BY <1>4, <1>6, <2>6, <2>7 DEF PagesRight, cs
<1> QED
  BY <1>1, <1>5, <1>6 DEF colorspaces

LEMMA EmptySum ==
  ASSUME NEW s, s = [i \in 1 .. 0 |-> s[i]]
  PROVE  Sum(s) = 0
<1>1. \A i \in 1 .. 0 : s[i] \in Int
  OBVIOUS
<1>2. Len(s) = 0
  BY <1>1, IntSeq
<1> QED
  BY <1>2, SumEmpty

LEMMA NoPages ==
  ASSUME NEW d \in Docs
  PROVE  Zero \in [Inks -> Int] /\ PagesRight(d, Zero, 0)
<1>1. Zero \in [Inks -> Int] /\ \A ink \in Inks : Zero[ink] = 0
  BY DEF Zero, Inks
<1>2. ASSUME NEW ink \in Inks PROVE PagesInk(d, 0, ink) = 0
  BY EmptySum DEF PagesInk
<1>3. PagesGray(d, 0) = 0
  BY EmptySum DEF PagesGray
<1>4. PagesChunks(d, 0) = 0
  BY EmptySum DEF PagesChunks
<1>5. Zero.k = 0
  BY DEF Zero
<1> QED
  BY <1>1, <1>2, <1>3, <1>4, <1>5 DEF PagesRight

LEMMA NoBytes ==
  ASSUME NEW d \in Docs, NEW n \in 1 .. Len(d.pages)
  PROVE  PageRight(d, Zero, n, 0) /\ SubSeq(d.pages[n].bytes, 1, 0) = <<>>
<1> DEFINE e == First(d, n, 0)
<1>1. e = <<>>
  BY SubSeqEmpty DEF First
<1> HIDE DEF e
<1>2. e \in Bytes /\ Len(e) = 0 /\ Len(e) \div 3 = 0
  BY <1>1 DEF Bytes
<1>3. \A ink \in Inks : Zero[ink] = 0
  BY DEF Zero, Inks
<1>4. ASSUME d.colorspace # "GRAY", NEW ink \in Inks PROVE PageCost(d.colorspace, e)[ink] = 0
  <2>1. d.colorspace \in {"CMYK", "CMYPK", "CMY"}
    BY <1>4, LpacctAssumption DEF colorspaces
  <2>2. Len(ByPixel(d.colorspace, e, ink)) = 0 /\ PageCost(d.colorspace, e)[ink] = Sum(ByPixel(d.colorspace, e, ink))
    BY <1>2, <2>1, ByPixelIs
  <2> QED
    BY <2>2, SumEmpty
<1>5. GrayCost(d.pages[n].type, e) = 0
  <2>1. Len(ByGray(d.pages[n].type, e)) = 0 /\ GrayCost(d.pages[n].type, e) = Sum(ByGray(d.pages[n].type, e))
    BY <1>2, ByGrayIs
  <2> QED
    BY <2>1, SumEmpty
<1>6. Chunks(0) = 0
  <2>1. Chunks(0 * BufferSize + 0) = 0
    BY ChunksAre, LpacctAssumption
  <2>2. 0 * BufferSize + 0 = 0
    BY LpacctAssumption
  <2> QED
    BY <2>1, <2>2
<1>7. PageRight(d, Zero, n, 0)
  <2>1. Zero.k = 0
    BY DEF Zero
  <2>2. CASE d.colorspace = "GRAY"
    <3>1. 256 * Zero.k - GrayCost(d.pages[n].type, e) \in 0 .. 255 * Chunks(0)
      BY <1>5, <1>6, <2>1
    <3> QED
      BY <2>2, <3>1 DEF PageRight, e
  <2>3. CASE d.colorspace # "GRAY"
    <3>1. \A ink \in Inks : Zero[ink] = PageCost(d.colorspace, e)[ink]
      BY <1>3, <1>4, <2>3
    <3> QED
      BY <2>3, <3>1 DEF PageRight, e
  <2> QED
    BY <2>2, <2>3
<1> QED
  BY <1>1, <1>7 DEF e, First

-----------------------------------------------------------------------------
(* The steps *)

LEMMA InitInv == Init => IInv
<1> SUFFICES ASSUME Init PROVE IInv
  OBVIOUS
<1>1. TypeInv
  BY NoPages DEF Init, FilterInit, TypeInv, NoImage, Bytes
<1>2. OutInv
  <2>1. Len(doc.pages) \in Nat
    BY LpacctAssumption, LenProperties DEF Init
  <2> QED
    BY <2>1 DEF Init, FilterInit, OutInv
<1>3. FilterInv
  <2>1. PagesRight(doc, all_cost, npages)
    BY NoPages DEF Init, FilterInit
  <2> QED
    BY <2>1 DEF Init, FilterInit, FilterInv, NoImage
<1>4. RowsInv
  BY DEF Init, RowsInv
<1> QED
  BY <1>1, <1>2, <1>3, <1>4 DEF IInv

\* There is no row of the attempt before the filter has made it.
LEMMA RowsStay ==
  ASSUME IInv, filter \notin {"exit", "success"}, UNCHANGED <<attempt, printlog>>
  PROVE  RowsInv'
BY DEF IInv, RowsInv

LEMMA TeeStep == ASSUME IInv, tee \/ mkstemp_failed PROVE IInv'
<1>1. /\ filter = "tee" /\ filter' \in {"gs", "failure"}
      /\ UNCHANGED <<doc, attempt, out, image, page_cost, all_cost, npages, printlog>>
  BY DEF tee, mkstemp_failed, Filter, pr_exit
<1>2. TypeInv' /\ OutInv'
  BY <1>1 DEF IInv, TypeInv, OutInv
<1>3. FilterInv'
  BY <1>1 DEF IInv, FilterInv
<1> QED
  BY <1>1, <1>2, <1>3, RowsStay DEF IInv

LEMMA GhostscriptStep == ASSUME IInv, ghostscript_init PROVE IInv'
<1>1. /\ filter = "gs" /\ filter' \in {"header", "failure"}
      /\ UNCHANGED <<doc, attempt, image, page_cost, all_cost, npages, printlog>>
  BY DEF ghostscript_init, Filter, pr_exit
<1>2. doc \in Docs /\ Len(doc.pages) \in Nat
  BY LpacctAssumption, LenProperties DEF IInv, TypeInv
<1>3. out' \in [pages : Nat, bytes : Int] /\ OutInv'
  <2>1. CASE out' = out
    BY <1>1, <2>1 DEF IInv, TypeInv, OutInv
  <2>2. CASE out' = [pages |-> Len(doc.pages), bytes |-> -1]
    BY <1>1, <1>2, <2>2 DEF OutInv
  <2>3. ASSUME NEW n \in 0 .. Len(doc.pages) - 1, NEW b \in -1 .. Len(doc.pages[n + 1].bytes) - 1,
               out' = [pages |-> n, bytes |-> b]
        PROVE  out' \in [pages : Nat, bytes : Int] /\ OutInv'
    <3>1. n \in Nat /\ n + 1 \in 1 .. Len(doc.pages) /\ n <= Len(doc.pages)
      BY <1>2
    <3>2. Size(doc, n + 1) \in Nat
      BY <1>2, <3>1, PageIs
    <3>3. b \in Int /\ b >= -1 /\ b < Size(doc, n + 1)
      BY <3>2 DEF Size
    <3>4. out'.pages = n /\ out'.bytes = b
      BY <2>3
    <3> QED
      BY <1>1, <2>3, <3>1, <3>3, <3>4 DEF OutInv
  <2> QED
    BY <2>1, <2>2, <2>3 DEF ghostscript_init, pr_exit
<1>4. TypeInv'
  BY <1>1, <1>3 DEF IInv, TypeInv
<1>5. FilterInv'
  <2>1. npages = 0 /\ image.n = 0 /\ PagesRight(doc, all_cost, npages)
    BY <1>1 DEF IInv, FilterInv
  <2>2. out'.pages \in Nat
    BY <1>3
  <2> QED
    BY <1>1, <2>1, <2>2 DEF FilterInv
<1> QED
  BY <1>1, <1>3, <1>4, <1>5, RowsStay DEF IInv

\* The page in work
LEMMA PageInWork ==
  ASSUME IInv, filter = "chunk"
  PROVE  /\ doc \in Docs /\ image.n \in 1 .. Len(doc.pages)
         /\ doc.pages[image.n].bytes \in Bytes /\ Size(doc, image.n) \in Nat
         /\ Len(doc.pages[image.n].bytes) = Size(doc, image.n) /\ PageSize(image.n) = Size(doc, image.n)
         /\ There(image.n) \in Nat /\ There(image.n) <= Size(doc, image.n)
         /\ There(image.n) = Size(doc, image.n) => image.n <= out.pages
<1>1. /\ doc \in Docs /\ out.pages \in Nat /\ out.bytes \in Int /\ npages \in Nat /\ image.n \in Nat
      /\ Len(doc.pages) \in Nat
  BY LpacctAssumption, LenProperties DEF IInv, TypeInv
<1>2. image.n = npages + 1 /\ (image.n <= out.pages \/ (image.n = out.pages + 1 /\ out.bytes >= 0))
  BY DEF IInv, FilterInv
<1>3. image.n \in 1 .. Len(doc.pages)
  BY <1>1, <1>2 DEF IInv, OutInv
<1>4. doc.pages[image.n].bytes \in Bytes /\ Size(doc, image.n) \in Nat
  BY <1>1, <1>3, PageIs
<1>5. Len(doc.pages[image.n].bytes) = Size(doc, image.n) /\ PageSize(image.n) = Size(doc, image.n)
  BY DEF Size, PageSize
<1>6. CASE image.n <= out.pages
  BY <1>1, <1>3, <1>4, <1>5, <1>6 DEF There
<1>7. CASE ~ (image.n <= out.pages)
  <2>1. image.n = out.pages + 1 /\ out.bytes >= 0 /\ out.bytes < Size(doc, image.n)
    BY <1>2, <1>7 DEF IInv, OutInv
  <2> QED
    BY <1>1, <1>3, <1>4, <1>5, <1>7, <2>1 DEF There
<1> QED
  BY <1>6, <1>7

LEMMA HeaderStep == ASSUME IInv, mpxm_get_header PROVE IInv'
<1> DEFINE n == image.n + 1
<1>1. /\ filter = "header"
      /\ UNCHANGED <<doc, attempt, out, all_cost, npages, printlog>>
  BY DEF mpxm_get_header, Filter
<1>2. /\ image.n = npages /\ npages <= out.pages /\ PagesRight(doc, all_cost, npages)
      /\ doc \in Docs /\ out.pages \in Nat /\ out.bytes \in Int /\ npages \in Nat
  BY <1>1 DEF IInv, TypeInv, FilterInv
<1>3. OutInv'
  BY <1>1 DEF IInv, OutInv
<1>4. CASE /\ n <= out.pages \/ (n = out.pages + 1 /\ out.bytes >= 0)
           /\ filter' = "chunk" /\ page_cost' = Zero
           /\ image' = [n |-> n, read |-> 0, chunk |-> <<>>, want |-> Block(n, 0)]
  <2>1. n \in Nat /\ n >= 1 /\ Len(doc.pages) \in Nat
    BY <1>2, LpacctAssumption, LenProperties
  <2>2. n \in 1 .. Len(doc.pages)
    BY <1>2, <1>4, <2>1 DEF IInv, OutInv
  <2>3. Size(doc, n) \in Nat /\ Zero \in [Inks -> Int] /\ BufferSize \in Nat
    BY <1>2, <2>2, PageIs, NoPages, LpacctAssumption
  <2>4. PageRight(doc, Zero, n, 0) /\ SubSeq(doc.pages[n].bytes, 1, 0) = <<>>
    BY <1>2, <2>2, NoBytes
  <2>5. Block(n, 0) \in Nat
    BY <2>3 DEF Block, min2, PageSize, Size
  <2>6. TypeInv'
    <3>1. <<>> \in Bytes
      BY DEF Bytes
    <3> QED
      BY <1>1, <1>4, <2>1, <2>3, <2>5, <3>1 DEF IInv, TypeInv
  <2> HIDE DEF n
  <2>7. image'.n = n /\ image'.read = 0 /\ image'.chunk = <<>> /\ image'.want = Block(n, 0)
    BY <1>4
  <2>8. 0 * BufferSize = 0 /\ 0 + 1 = 1 /\ Block(n, 0) - (0 - 0) = Block(n, 0)
    BY <2>3, <2>5
  <2>9. There(n) >= 0
    BY <1>2, <1>4, <2>3 DEF There, PageSize, Size
  <2>10. ChunkFollows(0)'
    BY <1>1, <1>4, <2>4, <2>7, <2>8, <2>9 DEF ChunkFollows, There, PageSize, Block
  <2>11. FilterInv'
    BY <1>1, <1>2, <1>4, <2>7, <2>10 DEF FilterInv, n
  <2> QED
    BY <1>1, <1>3, <2>6, <2>11, RowsStay DEF IInv
<1>5. CASE n = out.pages + 1 /\ out.bytes = -1 /\ filter' = "syslog" /\ UNCHANGED <<image, page_cost>>
  <2>1. TypeInv'
    BY <1>1, <1>5 DEF IInv, TypeInv
  <2>2. npages = out.pages
    BY <1>2, <1>5
  <2>3. FilterInv'
    BY <1>1, <1>2, <1>5, <2>2 DEF FilterInv
  <2> QED
    BY <1>1, <1>3, <2>1, <2>3, RowsStay DEF IInv
<1> QED
  BY <1>4, <1>5 DEF mpxm_get_header, Filter

LEMMA ReadStep == ASSUME IInv, mpxm_chunk_next PROVE IInv'
<1>1. /\ filter = "chunk" /\ image.want > 0
      /\ UNCHANGED <<doc, attempt, out, page_cost, all_cost, npages, printlog>>
  BY DEF mpxm_chunk_next, premature, pr_exit, Filter
<1>2. OutInv' /\ RowsInv'
  BY <1>1, RowsStay DEF IInv, OutInv
<1>3. CASE filter' = "failure" /\ image' = image
  <2>1. TypeInv'
    BY <1>1, <1>3 DEF IInv, TypeInv
  <2>2. FilterInv'
    BY <1>3 DEF FilterInv
  <2> QED
    BY <1>2, <2>1, <2>2 DEF IInv
<1>4. ASSUME NEW got \in 1 .. min2(image.want, There(image.n) - image.read), filter' = "chunk",
             image' = [image EXCEPT
                         !.read = @ + got, !.want = Want(got),
                         !.chunk = @ \o SubSeq(doc.pages[image.n].bytes, image.read + 1, image.read + got)]
      PROVE  IInv'
  <2>1. /\ doc \in Docs /\ image.n \in 1 .. Len(doc.pages)
        /\ doc.pages[image.n].bytes \in Bytes /\ Size(doc, image.n) \in Nat
        /\ Len(doc.pages[image.n].bytes) = Size(doc, image.n)
        /\ There(image.n) \in Nat /\ There(image.n) <= Size(doc, image.n)
    BY <1>1, PageInWork
  <2>2. /\ image \in [n : Nat, read : Nat, chunk : Bytes, want : Nat]
        /\ image.read \in Nat /\ image.want \in Nat
    BY DEF IInv, TypeInv
  <2>3. /\ image.n = npages + 1 /\ PagesRight(doc, all_cost, npages)
        /\ image.n <= out.pages \/ (image.n = out.pages + 1 /\ out.bytes >= 0)
    BY <1>1 DEF IInv, FilterInv
  <2>4. PICK k \in Nat : ChunkFollows(k)
    BY <1>1 DEF IInv, FilterInv
  <2> DEFINE b == doc.pages[image.n].bytes
             a == k * BufferSize
             z == image.read
             w == image.read + got
             c == SubSeq(b, a + 1, z) \o SubSeq(b, z + 1, w)
  <2>5. got \in Nat /\ got <= image.want /\ z + got <= There(image.n)
    BY <2>1, <2>2 DEF min2
  <2>6. /\ a \in Nat /\ a <= z /\ z <= w /\ w <= There(image.n) /\ w \in Nat /\ z \in Nat
        /\ image.chunk = SubSeq(b, a + 1, z) /\ image.want = Block(image.n, a) - (z - a)
        /\ PageRight(doc, page_cost, image.n, a)
    <3>1. /\ a <= z /\ image.chunk = SubSeq(b, a + 1, z) /\ image.want = Block(image.n, a) - (z - a)
          /\ PageRight(doc, page_cost, image.n, a)
      BY <2>4 DEF ChunkFollows
    <3>2. a \in Nat
      BY WholePixels
    <3> HIDE DEF a, b
    <3>3. z <= w /\ w <= There(image.n) /\ w \in Nat /\ z \in Nat
      BY <2>2, <2>5
    <3> QED
      BY <3>1, <3>2, <3>3
  <2>7. image' = [n |-> image.n, read |-> w, chunk |-> c, want |-> image.want - got]
    BY <1>4, <2>2, <2>6 DEF Want
  <2> HIDE DEF b, a, z, w, c
  <2>8. c = SubSeq(b, a + 1, w) /\ c \in Bytes
    <3>1. b \in Bytes /\ Len(b) = Size(doc, image.n)
      BY <2>1 DEF b
    <3>2. w <= Len(b) /\ Len(b) \in Nat
      BY <2>1, <2>6, <3>1
    <3>3. a + 1 \in 1 .. Len(b) + 1 /\ z \in a + 1 - 1 .. Len(b) /\ w \in z .. Len(b)
      BY <2>6, <3>2
    <3>4. SubSeq(b, a + 1, z) \o SubSeq(b, z + 1, w) = SubSeq(b, a + 1, w)
      <4> DEFINE m == a + 1
      <4>0. b \in Seq(0 .. 255) /\ Len(b) \in Nat /\ m - 1 = a
        BY <2>6, <3>1, <3>2 DEF Bytes
      <4>1. m \in 1 .. Len(b) + 1 /\ z \in m - 1 .. Len(b)
        <5>1. m \in 1 .. Len(b) + 1
          BY <2>6, <3>2
        <5>2. z \in a .. Len(b)
          BY <2>6, <3>2
        <5> QED
          BY <4>0, <5>1, <5>2, Zenon
      <4> HIDE DEF m
      <4>2. SubSeq(b, m, z) \o SubSeq(b, z + 1, w) = SubSeq(b, m, w)
        BY <3>3, <4>0, <4>1, ConcatAdjacentSubSeq
      <4> QED
        BY <4>2 DEF m
    <3>5. a \in 0 .. Len(b) /\ w \in a .. Len(b)
      BY <2>6, <3>2
    <3>6. SubSeq(b, a + 1, w) \in Bytes
      BY <3>1, <3>5, Cut
    <3> QED
      BY <3>4, <3>6 DEF c
  <2>9. image.want - got \in Nat
    BY <2>2, <2>5
  <2>10. TypeInv'
    BY <1>1, <2>2, <2>6, <2>7, <2>8, <2>9 DEF IInv, TypeInv
  <2>11. PICK n \in Nat : n = image.n
    BY <2>1, <2>2
  <2>12. PICK v \in Int : v = Block(n, a)
    <3>1. PageSize(image.n) \in Nat /\ BufferSize \in Nat
      BY <1>1, <2>1, PageInWork, LpacctAssumption
    <3>2. Block(image.n, a) \in Int
      BY <2>6, <3>1 DEF Block, min2
    <3> QED
      BY <2>11, <3>2
  <2>13. image.want - got = Block(n, a) - (w - a)
    <3>1. w = z + got
      BY DEF w, z
    <3> QED
      BY <2>5, <2>6, <2>11, <2>12, <3>1
  <2>14. image'.n = n /\ image'.read = w /\ image'.chunk = c /\ image'.want = image.want - got
    BY <2>7, <2>11
  <2>15. ChunkFollows(k)'
    <3>1. /\ a <= image'.read /\ image'.read <= There(n)
          /\ image'.chunk = SubSeq(doc.pages[n].bytes, a + 1, image'.read)
          /\ image'.want = Block(n, a) - (image'.read - a)
          /\ PageRight(doc, page_cost, n, a)
      BY <2>6, <2>8, <2>11, <2>13, <2>14 DEF b
    <3> QED
      BY <1>1, <2>14, <3>1 DEF ChunkFollows, There, Block, PageSize, a
  <2>16. FilterInv'
    BY <1>1, <1>4, <2>3, <2>11, <2>14, <2>15 DEF FilterInv
  <2> QED
    BY <1>2, <2>10, <2>16 DEF IInv
<1> QED
  BY <1>3, <1>4 DEF mpxm_chunk_next, premature, pr_exit, Filter

LEMMA AnalyzerStep == ASSUME IInv, mpxm_analyzer PROVE IInv'
<1>1. /\ filter = "chunk" /\ image.want = 0
      /\ filter' = IF image.read = PageSize(image.n) THEN "sum" ELSE "chunk"
      /\ page_cost' = Plus(page_cost, analyzer(doc.colorspace, image.chunk, doc.pages[image.n].type))
      /\ image' = [image EXCEPT !.chunk = <<>>, !.want = Block(image.n, image.read)]
      /\ UNCHANGED <<doc, attempt, out, all_cost, npages, printlog>>
  BY DEF mpxm_analyzer, Filter
<1>2. OutInv' /\ RowsInv'
  BY <1>1, RowsStay DEF IInv, OutInv
<1>3. /\ doc \in Docs /\ image.n \in 1 .. Len(doc.pages)
      /\ doc.pages[image.n].bytes \in Bytes /\ Size(doc, image.n) \in Nat
      /\ PageSize(image.n) = Size(doc, image.n)
      /\ There(image.n) \in Nat /\ There(image.n) <= Size(doc, image.n)
      /\ There(image.n) = Size(doc, image.n) => image.n <= out.pages
  BY <1>1, PageInWork
<1>4. /\ image \in [n : Nat, read : Nat, chunk : Bytes, want : Nat]
      /\ image.read \in Nat /\ page_cost \in [Inks -> Int] /\ BufferSize \in Nat
  BY LpacctAssumption DEF IInv, TypeInv
<1>5. /\ image.n = npages + 1 /\ PagesRight(doc, all_cost, npages)
      /\ image.n <= out.pages \/ (image.n = out.pages + 1 /\ out.bytes >= 0)
  BY <1>1 DEF IInv, FilterInv
<1>6. PICK k \in Nat : ChunkFollows(k)
  BY <1>1 DEF IInv, FilterInv
<1>7. PICK n \in Nat, z \in Nat, a \in Nat : n = image.n /\ z = image.read /\ a = k * BufferSize
  BY <1>4, WholePixels
<1>8. /\ a <= z /\ z <= There(n) /\ image.chunk = SubSeq(doc.pages[n].bytes, a + 1, z)
      /\ 0 = Block(n, a) - (z - a) /\ PageRight(doc, page_cost, n, a)
  BY <1>1, <1>6, <1>7 DEF ChunkFollows
<1>9. z <= Size(doc, n) /\ (z = Size(doc, n) \/ z = a + BufferSize) /\ z - a <= BufferSize
  <2>1. Size(doc, n) \in Nat /\ There(n) \in Nat /\ There(n) <= Size(doc, n) /\ PageSize(n) = Size(doc, n)
    BY <1>3, <1>7
  <2>2. z <= Size(doc, n)
    BY <1>8, <2>1
  <2>3. z - a = IF Size(doc, n) - a < BufferSize THEN Size(doc, n) - a ELSE BufferSize
    <3>1. Block(n, a) = IF Size(doc, n) - a < BufferSize THEN Size(doc, n) - a ELSE BufferSize
      BY <2>1 DEF Block, min2
    <3>2. Block(n, a) \in Int
      BY <1>4, <2>1, <3>1
    <3>3. Block(n, a) = z - a
      BY <1>8, <3>2
    <3> QED
      BY <3>1, <3>3
  <2> QED
    BY <1>4, <2>1, <2>2, <2>3
<1>10. page_cost' \in [Inks -> Int] /\ PageRight(doc, page_cost', n, z)
  <2>1. n \in 1 .. Len(doc.pages) /\ z \in a .. Size(doc, n)
    BY <1>3, <1>7, <1>8, <1>9
  <2>2. page_cost' = Plus(page_cost, analyzer(doc.colorspace, SubSeq(doc.pages[n].bytes, a + 1, z), doc.pages[n].type))
    BY <1>1, <1>7, <1>8
  <2> QED
    BY <1>3, <1>4, <1>7, <1>8, <1>9, <2>1, <2>2, ChunkAdded
<1>11. /\ image' = [n |-> n, read |-> z, chunk |-> <<>>, want |-> Block(n, z)]
       /\ image'.n = n /\ image'.read = z /\ image'.chunk = <<>> /\ image'.want = Block(n, z)
  BY <1>1, <1>4, <1>7
<1>12. Block(n, z) \in Nat
  BY <1>3, <1>4, <1>7, <1>9 DEF Block, min2
<1>13. TypeInv'
  <2>1. <<>> \in Bytes
    BY DEF Bytes
  <2> QED
    BY <1>1, <1>10, <1>11, <1>12, <2>1 DEF IInv, TypeInv
<1>14. CASE z = Size(doc, n)
  <2>1. filter' = "sum" /\ n <= out.pages
    BY <1>1, <1>3, <1>7, <1>8, <1>14
  <2>2. PageRight(doc, page_cost', n, Size(doc, n))
    BY <1>10, <1>14
  <2>3. FilterInv'
    BY <1>1, <1>5, <1>7, <1>11, <2>1, <2>2 DEF FilterInv
  <2> QED
    BY <1>2, <1>13, <2>3 DEF IInv
<1>15. CASE z # Size(doc, n)
  <2>1. filter' = "chunk"
    BY <1>1, <1>3, <1>7, <1>15
  <2>2. (k + 1) * BufferSize = z /\ k + 1 \in Nat
    BY <1>4, <1>7, <1>9, <1>15
  <2>3. SubSeq(doc.pages[n].bytes, z + 1, z) = <<>>
    BY SubSeqEmpty
  <2>4. z - z = 0 /\ Block(n, z) - 0 = Block(n, z) /\ z <= z
    BY <1>12
  <2>5. ChunkFollows(k + 1)'
    BY <1>1, <1>8, <1>10, <1>11, <2>2, <2>3, <2>4 DEF ChunkFollows, There, Block, PageSize
  <2>6. FilterInv'
    BY <1>1, <1>5, <1>7, <1>11, <2>1, <2>2, <2>5 DEF FilterInv
  <2> QED
    BY <1>2, <1>13, <2>6 DEF IInv
<1> QED
  BY <1>14, <1>15

LEMMA AddStep == ASSUME IInv, cost_add PROVE IInv'
<1>1. /\ filter = "sum" /\ filter' = "header" /\ all_cost' = Plus(all_cost, page_cost) /\ npages' = npages + 1
      /\ UNCHANGED <<doc, attempt, out, image, page_cost, printlog>>
  BY DEF cost_add, Filter
<1>2. OutInv' /\ RowsInv'
  BY <1>1, RowsStay DEF IInv, OutInv
<1>3. /\ image.n = npages + 1 /\ image.n <= out.pages /\ PagesRight(doc, all_cost, npages)
      /\ PageRight(doc, page_cost, image.n, Size(doc, image.n))
      /\ doc \in Docs /\ npages \in Nat /\ out.pages \in Nat
      /\ all_cost \in [Inks -> Int] /\ page_cost \in [Inks -> Int]
  BY <1>1 DEF IInv, FilterInv, TypeInv
<1>4. image.n <= Len(doc.pages)
  <2>1. Len(doc.pages) \in Nat
    BY <1>3, LpacctAssumption, LenProperties
  <2> QED
    BY <1>3, <2>1 DEF IInv, OutInv
<1>5. all_cost' \in [Inks -> Int] /\ PagesRight(doc, all_cost', image.n)
  BY <1>1, <1>3, <1>4, PageAdded
<1>6. TypeInv'
  BY <1>1, <1>3, <1>5 DEF IInv, TypeInv
<1>7. FilterInv'
  BY <1>1, <1>3, <1>5 DEF FilterInv
<1> QED
  BY <1>2, <1>6, <1>7 DEF IInv

LEMMA ReportStep == ASSUME IInv, acct_syslog \/ acct_mysql \/ ghostscript_exit PROVE IInv'
<1>1. UNCHANGED <<doc, attempt, out, image, page_cost, all_cost, npages>>
  BY DEF acct_syslog, acct_mysql, ghostscript_exit, Filter
<1>2. OutInv'
  BY <1>1 DEF IInv, OutInv
<1>3. /\ filter \in {"syslog", "mysql", "exit"} /\ filter' \in {"mysql", "exit", "success"}
      /\ filter' = "exit" \/ printlog' = printlog
  BY DEF acct_syslog, acct_mysql, ghostscript_exit, Filter
<1>4. FilterInv'
  <2>1. npages = out.pages /\ out.bytes = -1 /\ PagesRight(doc, all_cost, npages)
    BY <1>3 DEF IInv, FilterInv
  <2> QED
    BY <1>1, <1>3, <2>1 DEF FilterInv
<1>5. CASE printlog' = printlog
  <2>1. filter = "exit" => filter' = "success"
    BY DEF acct_syslog, acct_mysql, ghostscript_exit, Filter
  <2>2. TypeInv'
    BY <1>1, <1>5 DEF IInv, TypeInv
  <2>3. RowsInv'
    BY <1>1, <1>3, <1>5, <2>1 DEF IInv, RowsInv
  <2> QED
    BY <1>2, <1>4, <2>2, <2>3 DEF IInv
<1>6. CASE printlog' # printlog
  <2> DEFINE row == [attempt |-> attempt, colorspace |-> doc.colorspace,
                     cost |-> drop2bl(all_cost), pages |-> npages, confirmed |-> FALSE]
  <2>1. filter = "mysql" /\ filter' = "exit" /\ printlog' = printlog \cup {row}
    BY <1>6 DEF acct_syslog, acct_mysql, ghostscript_exit, Filter
  <2>2. row \in Row
    <3>1. Dpi * Dpi \in Nat
      BY LpacctAssumption
    <3>2. drop2bl(all_cost) \in [Inks -> [num : Int, den : Nat]]
      BY <3>1 DEF IInv, TypeInv, drop2bl
    <3> QED
      BY <3>2, LpacctAssumption DEF IInv, TypeInv, Row
  <2>3. row.attempt = attempt /\ row.cost = drop2bl(all_cost) /\ row.pages = npages /\ attempt \in Nat
    BY DEF IInv, TypeInv
  <2> HIDE DEF row
  <2>4. TypeInv'
    BY <1>1, <2>1, <2>2 DEF IInv, TypeInv
  <2>5. RowsInv'
    BY <1>1, <2>1, <2>3 DEF IInv, RowsInv
  <2> QED
    BY <1>2, <1>4, <2>4, <2>5 DEF IInv
<1> QED
  BY <1>5, <1>6

LEMMA BackendStep == ASSUME IInv, Confirming PROVE IInv'
<1>1. UNCHANGED <<doc, attempt, filter, out, image, page_cost, all_cost, npages>>
  BY DEF Confirming, confirm_start, real_backend, confirm_syslog, confirm_mysql, Backend, filterVars
<1>2. OutInv'
  BY <1>1 DEF IInv, OutInv
<1>3. FilterInv'
  <2>1. \A k : ChunkFollows(k) => ChunkFollows(k)'
    BY <1>1 DEF ChunkFollows, There, Block, PageSize
  <2> QED
    BY <1>1, <2>1 DEF IInv, FilterInv
<1>4. printlog' = printlog \/ printlog' = {[row EXCEPT !.confirmed = TRUE] : row \in printlog}
  BY DEF Confirming, confirm_start, real_backend, confirm_syslog, confirm_mysql, Backend
<1>5. ASSUME NEW new \in printlog'
      PROVE  \E row \in printlog : /\ new \in Row /\ new.attempt = row.attempt
                                   /\ new.cost = row.cost /\ new.pages = row.pages
  <2>1. \A row \in printlog : row \in Row
    BY DEF IInv, TypeInv
  <2>2. CASE printlog' = printlog
    BY <2>1, <2>2
  <2>3. CASE printlog' = {[row EXCEPT !.confirmed = TRUE] : row \in printlog}
    <3>1. PICK row \in printlog : new = [row EXCEPT !.confirmed = TRUE]
      BY <2>3
    <3>2. /\ new \in Row /\ new.attempt = row.attempt
          /\ new.cost = row.cost /\ new.pages = row.pages
      BY <2>1, <3>1 DEF Row
    <3> QED
      BY <3>2
  <2> QED
    BY <1>4, <2>2, <2>3
<1>6. TypeInv'
  BY <1>1, <1>5 DEF IInv, TypeInv
<1>7. RowsInv'
  BY <1>1, <1>5 DEF IInv, RowsInv
<1> QED
  BY <1>2, <1>3, <1>6, <1>7 DEF IInv

LEMMA RetryStep == ASSUME IInv, Retry PROVE IInv'
<1>1. /\ attempt' = attempt + 1 /\ filter' = "tee" /\ out' = [pages |-> 0, bytes |-> -1] /\ image' = NoImage
      /\ page_cost' = Zero /\ all_cost' = Zero /\ npages' = 0 /\ UNCHANGED <<doc, printlog>>
  BY DEF Retry
<1>2. doc \in Docs /\ attempt \in Nat /\ printlog \subseteq Row
  BY DEF IInv, TypeInv
<1>3. TypeInv'
  <2>1. NoImage \in [n : Nat, read : Nat, chunk : Bytes, want : Nat]
    BY DEF NoImage, Bytes
  <2>2. Zero \in [Inks -> Int]
    BY <1>2, NoPages
  <2> QED
    BY <1>1, <1>2, <2>1, <2>2 DEF TypeInv
<1>4. OutInv'
  <2>1. Len(doc.pages) \in Nat
    BY <1>2, LpacctAssumption, LenProperties
  <2> QED
    BY <1>1, <2>1 DEF OutInv
<1>5. FilterInv'
  <2>1. PagesRight(doc, Zero, 0)
    BY <1>2, NoPages
  <2> QED
    BY <1>1, <2>1 DEF FilterInv, NoImage
<1>6. RowsInv'
  <2>1. \A row \in printlog : row.attempt \in Nat /\ row.attempt <= attempt
    BY <1>2 DEF IInv, RowsInv, Row
  <2> QED
    BY <1>1, <1>2, <2>1 DEF RowsInv
<1> QED
  BY <1>3, <1>4, <1>5, <1>6 DEF IInv

LEMMA Inductive == ASSUME IInv, [Next]_vars PROVE IInv'
<1>1. CASE UNCHANGED vars
  <2>1. TypeInv' /\ OutInv' /\ RowsInv'
    BY <1>1 DEF vars, filterVars, IInv, TypeInv, OutInv, RowsInv
  <2>2. FilterInv'
    <3>1. \A k : ChunkFollows(k) => ChunkFollows(k)'
      BY <1>1 DEF vars, filterVars, ChunkFollows, There, Block, PageSize
    <3> QED
      BY <1>1, <3>1 DEF vars, filterVars, IInv, FilterInv
  <2> QED
    BY <2>1, <2>2 DEF IInv
<1>2. CASE Filtering
  BY <1>2, TeeStep, GhostscriptStep, HeaderStep, ReadStep, AnalyzerStep, AddStep, ReportStep DEF Filtering
<1> QED
  BY <1>1, <1>2, BackendStep, RetryStep DEF Next

-----------------------------------------------------------------------------
(* The theorems *)

LEMMA GrayInt ==
  ASSUME NEW d \in Docs, NEW n \in 0 .. Len(d.pages)
  PROVE  PagesGray(d, n) \in Int
<1> DEFINE s == [i \in 1 .. n |-> GrayCost(d.pages[i].type, d.pages[i].bytes)]
<1>1. ASSUME NEW i \in 1 .. n PROVE s[i] \in Int
  <2>1. i \in 1 .. Len(d.pages)
    BY LpacctAssumption, LenProperties
  <2>2. d.pages[i].bytes \in Bytes
    BY <2>1, PageIs
  <2> QED
    BY <2>2, ByGrayIs, SumInt
<1>2. s \in Seq(Int)
  <2>1. n \in Nat
    BY LpacctAssumption, LenProperties
  <2>2. s \in [1 .. n -> Int]
    BY <1>1
  <2> QED
    BY <2>1, <2>2
<1> HIDE DEF s
<1>3. Sum(s) \in Int
  BY <1>2, SumInt
<1> QED
  BY <1>3 DEF PagesGray, s

(* A row of printlog has the number of the pages that Ghostscript wrote to   *)
(* the end and the area that their ink covers: for any documents, in chunks  *)
(* of any whole number of pixels, in whatever portions mpxm_chunk_next()     *)
(* reads them, the analyzers of drop.c count what the pixels come to, and    *)
(* never a part of a page, and drop2bl() makes of it what it is at the       *)
(* resolution Ghostscript used, if the option DPI is 2 at least.  The gray   *)
(* of a pixel is that of rgb_to_gray(); of a PPM image at most a droplet     *)
(* more is counted for each chunk.                                           *)
THEOREM RowsRight == Spec => []CostRight
<1>1. IInv => CostRight
  <2> SUFFICES ASSUME IInv, NEW row \in printlog, row.attempt = attempt, Dpi >= 2
               PROVE  LET n == row.pages
                          all(ink)  == Sum([i \in 1 .. n |-> PageCost(doc.colorspace, doc.pages[i].bytes)[ink]])
                          gray      == Sum([i \in 1 .. n |-> GrayCost(doc.pages[i].type, doc.pages[i].bytes)])
                          chunks    == Sum([i \in 1 .. n |-> (PageSize(i) + BufferSize - 1) \div BufferSize])
                      IN  /\ n = out.pages /\ out.bytes = -1
                          /\ IF doc.colorspace = "GRAY"
                             THEN \E more \in 0 .. 255 * chunks : Covered(row.cost.k, 256, gray + more)
                             ELSE \A ink \in DOMAIN Zero : Covered(row.cost[ink], 1, all(ink))
    BY DEF CostRight
  <2>1. filter \in {"exit", "success"} /\ row.cost = drop2bl(all_cost) /\ row.pages = npages
    BY DEF IInv, RowsInv
  <2>2. /\ npages = out.pages /\ out.bytes = -1 /\ PagesRight(doc, all_cost, npages)
        /\ npages \in 0 .. Len(doc.pages) /\ doc \in Docs
    BY <2>1 DEF IInv, TypeInv, OutInv, FilterInv
  <2>3. DOMAIN Zero = Inks /\ "k" \in Inks
    BY DEF Zero, Inks
  <2>4. PagesChunks(doc, npages) = Sum([i \in 1 .. npages |-> (PageSize(i) + BufferSize - 1) \div BufferSize])
    BY DEF PagesChunks, Chunks, Size, PageSize
  <2>5. PICK q \in Nat : q = Dpi * Dpi /\ q = Resolution * Resolution
    BY LpacctAssumption DEF Resolution
  <2>6. \A ink \in Inks :
          all_cost[ink] \in Int /\ row.cost[ink].num = all_cost[ink] /\ row.cost[ink].den = q
    <3>1. all_cost \in [Inks -> Int]
      BY DEF IInv, TypeInv
    <3>2. row.cost = [ink \in Inks |-> [num |-> all_cost[ink], den |-> q]]
      BY <2>1, <2>5, <3>1 DEF drop2bl
    <3> QED
      BY <3>1, <3>2
  <2>7. ASSUME NEW ink \in Inks, NEW n \in Nat, NEW parts \in Int, n * all_cost[ink] = parts
        PROVE  Covered(row.cost[ink], n, parts)
    <3>1. row.cost[ink].num = all_cost[ink] /\ row.cost[ink].den = q
      BY <2>6
    <3> QED
      BY <2>5, <2>7, <3>1 DEF Covered
  <2>8. CASE doc.colorspace = "GRAY"
    <3> DEFINE gray   == PagesGray(doc, npages)
               chunks == PagesChunks(doc, npages)
               more   == 256 * all_cost.k - gray
    <3>1. gray \in Int
      BY <2>2, GrayInt
    <3>2. more \in 0 .. 255 * chunks
      BY <2>2, <2>8 DEF PagesRight
    <3>3. all_cost.k \in Int /\ all_cost["k"] = all_cost.k
      BY <2>3, <2>6
    <3> HIDE DEF gray, chunks
    <3>4. gray + more \in Int /\ 256 * all_cost["k"] = gray + more
      BY <3>1, <3>3
    <3> HIDE DEF more
    <3>5. Covered(row.cost["k"], 256, gray + more)
      BY <2>3, <2>7, <3>4
    <3> QED
      BY <2>1, <2>2, <2>4, <2>8, <3>2, <3>5 DEF gray, chunks, PagesGray
  <2>9. CASE doc.colorspace # "GRAY"
    <3>1. \A ink \in Inks : all_cost[ink] = PagesInk(doc, npages, ink)
      BY <2>2, <2>9 DEF PagesRight
    <3>2. ASSUME NEW ink \in Inks PROVE Covered(row.cost[ink], 1, PagesInk(doc, npages, ink))
      <4>1. PagesInk(doc, npages, ink) \in Int /\ 1 * all_cost[ink] = PagesInk(doc, npages, ink)
        BY <2>6, <3>1
      <4> QED
        BY <2>7, <4>1
    <3> QED
      BY <2>1, <2>2, <2>3, <2>9, <3>2 DEF PagesInk
  <2> QED
    BY <2>8, <2>9
<1>2. Spec => []IInv
  BY InitInv, Inductive, PTL DEF Spec
<1> QED
  BY <1>1, <1>2, PTL

\* What the filter has done
DoneInv ==
  /\ filter \in {"mysql", "exit", "success"} => <<attempt, "printed">> \in log
  /\ filter = "success" => tmp = FALSE

(* A filter that exits with success has made its entry in the system log for *)
(* this attempt and has removed its copy of the document.                    *)
THEOREM EntryIsMade == Spec => []EntryMade
<1>1. Init => DoneInv
  BY DEF Init, FilterInit, DoneInv
<1>2. ASSUME DoneInv, [Next]_vars PROVE DoneInv'
  <2>1. CASE UNCHANGED vars
    BY <1>2, <2>1 DEF DoneInv, vars, filterVars
  <2>2. CASE tee \/ mkstemp_failed
    BY <1>2, <2>2 DEF DoneInv, tee, mkstemp_failed, Filter, pr_exit
  <2>3. CASE ghostscript_init
    BY <1>2, <2>3 DEF DoneInv, ghostscript_init, Filter, pr_exit
  <2>4. CASE mpxm_get_header
    BY <1>2, <2>4 DEF DoneInv, mpxm_get_header, Filter
  <2>5. CASE mpxm_chunk_next
    BY <1>2, <2>5 DEF DoneInv, mpxm_chunk_next, premature, Filter, pr_exit
  <2>6. CASE mpxm_analyzer
    BY <1>2, <2>6 DEF DoneInv, mpxm_analyzer, Filter
  <2>7. CASE cost_add
    BY <1>2, <2>7 DEF DoneInv, cost_add, Filter
  <2>8. CASE acct_syslog
    BY <1>2, <2>8 DEF DoneInv, acct_syslog, Filter
  <2>9. CASE acct_mysql
    BY <1>2, <2>9 DEF DoneInv, acct_mysql, Filter
  <2>10. CASE ghostscript_exit
    BY <1>2, <2>10 DEF DoneInv, ghostscript_exit, Filter
  <2>11. CASE Confirming
    BY <1>2, <2>11 DEF DoneInv, Confirming, confirm_start, real_backend, confirm_syslog, confirm_mysql, Backend,
                 filterVars
  <2>12. CASE Retry
    BY <1>2, <2>12 DEF DoneInv, Retry
  <2> QED
    BY <1>2, <2>1, <2>2, <2>3, <2>4, <2>5, <2>6, <2>7, <2>8, <2>9, <2>10, <2>11, <2>12 DEF Next, Filtering
<1>3. DoneInv => EntryMade
  BY DEF DoneInv, EntryMade
<1> QED
  BY <1>1, <1>2, <1>3, PTL DEF Spec

\* What lpacct_confirm knows
ConfirmInv ==
  /\ backend \in {"syslog", "mysql", "success"} => attempt \in printed
  /\ \A n : <<n, "confirmed">> \in log => n \in printed
  /\ printed = {} => \A row \in printlog : row.confirmed = FALSE

(* Rows of printlog are confirmed, and the system log says so, only when the *)
(* real backend has sent the job to the printer with success.                *)
THEOREM ConfirmedArePrinted == Spec => []ConfirmedPrinted
<1>1. Init => ConfirmInv
  BY DEF Init, ConfirmInv
<1>2. ASSUME ConfirmInv, [Next]_vars PROVE ConfirmInv'
  <2>1. CASE UNCHANGED vars
    BY <1>2, <2>1 DEF ConfirmInv, vars
  <2>2. CASE Filtering
    <3>1. UNCHANGED <<attempt, backend, printed>>
      BY <2>2 DEF Filtering, tee, mkstemp_failed, ghostscript_init, mpxm_get_header, mpxm_chunk_next, premature,
                  mpxm_analyzer, cost_add, acct_syslog, acct_mysql, ghostscript_exit, Filter, pr_exit
    <3>2. log' = log \/ log' = log \cup {<<attempt, "printed">>}
      BY <2>2 DEF Filtering, tee, mkstemp_failed, ghostscript_init, mpxm_get_header, mpxm_chunk_next, premature,
                  mpxm_analyzer, cost_add, acct_syslog, acct_mysql, ghostscript_exit, Filter, pr_exit
    <3>3. \/ printlog' = printlog
          \/ printlog' = printlog \cup {[attempt |-> attempt, colorspace |-> doc.colorspace,
                                        cost |-> drop2bl(all_cost), pages |-> npages,
                                        confirmed |-> FALSE]}
      BY <2>2 DEF Filtering, tee, mkstemp_failed, ghostscript_init, mpxm_get_header, mpxm_chunk_next, premature,
                  mpxm_analyzer, cost_add, acct_syslog, acct_mysql, ghostscript_exit, Filter, pr_exit
    <3>4. \A n : <<n, "confirmed">> \in log' => n \in printed'
      BY <1>2, <3>1, <3>2 DEF ConfirmInv
    <3>5. printed' = {} => \A row \in printlog' : row.confirmed = FALSE
      BY <1>2, <3>1, <3>3 DEF ConfirmInv
    <3> QED
      BY <1>2, <3>1, <3>4, <3>5 DEF ConfirmInv
  <2>3. CASE confirm_start
    BY <1>2, <2>3 DEF ConfirmInv, confirm_start, Backend
  <2>4. CASE real_backend
    BY <1>2, <2>4 DEF ConfirmInv, real_backend, Backend, accepted
  <2>5. CASE confirm_syslog
    BY <1>2, <2>5 DEF ConfirmInv, confirm_syslog, Backend
  <2>6. CASE confirm_mysql
    <3>1. attempt \in printed /\ UNCHANGED <<attempt, log, printed>>
      BY <1>2, <2>6 DEF ConfirmInv, confirm_mysql, Backend
    <3> QED
      BY <1>2, <2>6, <3>1 DEF ConfirmInv, confirm_mysql
  <2>7. CASE Retry
    BY <1>2, <2>7 DEF ConfirmInv, Retry
  <2> QED
    BY <1>2, <2>1, <2>2, <2>3, <2>4, <2>5, <2>6, <2>7 DEF Next, Confirming
<1>3. ConfirmInv => ConfirmedPrinted
  BY DEF ConfirmInv, ConfirmedPrinted
<1> QED
  BY <1>1, <1>2, <1>3, PTL DEF Spec
=============================================================================
