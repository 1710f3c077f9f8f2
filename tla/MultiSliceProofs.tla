-------------------------- MODULE MultiSliceProofs --------------------------
(***************************************************************************)
(* Proofs about MultiSlice, as PackObject runs it, for datasets, requests, *)
(* buffers and integers of any size: exactly the valid slices are          *)
(* accepted, the place in the slices agrees with the rows left, and a read *)
(* fits in the buffer.                                                     *)
(*                                                                         *)
(* Products and totals are recursive functions over sequences of any       *)
(* length; what is needed of them follows from Induction below.            *)
(***************************************************************************)
EXTENDS PackObject, FiniteSetTheorems, SequenceTheorems, TLAPS

-----------------------------------------------------------------------------
(* Induction up to a bound, with a set in place of a predicate: the numbers  *)
(* below which all are in S are as many as they can be.                      *)

LEMMA Induction ==
  ASSUME NEW L \in Nat, NEW S, 0 \in S, \A n \in 0 .. L - 1 : n \in S => n + 1 \in S
  PROVE  0 .. L \subseteq S
<1> DEFINE N == { k \in 0 .. L : 0 .. k \subseteq S }
           m == Cardinality(N) - 1
<1>1. N \in SUBSET (0 .. L) /\ 0 \in N
  OBVIOUS
<1>2. \A n \in N : 0 .. n \subseteq N
  OBVIOUS
<1>3. \A n \in N : n < L => n + 1 \in N
  <2>1. ASSUME NEW n \in N, n < L PROVE n + 1 \in N
    <3>1. n \in S /\ n + 1 \in S
      BY <2>1
    <3>. QED
      BY <2>1, <3>1
  <2>. QED
    BY <2>1
<1>4. L \in N => 0 .. L \subseteq S
  OBVIOUS
<1> HIDE DEF N
<1>5. IsFiniteSet(N) /\ Cardinality(N) \in Nat
  <2>1. IsFiniteSet(0 .. L)
    BY FS_Interval
  <2>. QED
    BY <1>1, <2>1, FS_Subset, FS_CardinalityType
<1>6. ASSUME NEW n \in N PROVE n <= m
  <2>1. n \in Nat
    BY <1>1
  <2>2. Cardinality(0 .. n) = n + 1
    BY <2>1, FS_Interval
  <2>3. Cardinality(0 .. n) <= Cardinality(N)
    BY <1>2, <1>5, FS_Subset
  <2>. QED
    BY <1>5, <2>1, <2>2, <2>3
<1>7. m \in Nat
  BY <1>1, <1>5, <1>6
<1>8. N \in SUBSET (0 .. m)
  BY <1>1, <1>6, <1>7
<1>9. IsFiniteSet(0 .. m) /\ Cardinality(0 .. m) = m + 1
  BY <1>7, FS_Interval
<1>10. N = 0 .. m
  <2>1. Cardinality(0 .. m) = Cardinality(N)
    BY <1>5, <1>9
  <2>. QED
    BY <1>8, <1>9, <2>1, FS_Subset
<1>11. m \in N /\ m + 1 \notin N
  BY <1>7, <1>10
<1> HIDE DEF m
<1>12. m = L
  BY <1>1, <1>3, <1>7, <1>11
<1>. QED
  BY <1>4, <1>11, <1>12

-----------------------------------------------------------------------------
(* A recursive function over 0 .. L exists and is the only one: step holds,  *)
(* for every n, what becomes of the value at n - 1.                          *)

Computes(g, L, base, step) ==
  g[0] = base /\ \A n \in 1 .. L : g[n] = step[n][g[n - 1]]

LEMMA RecursionExists ==
  ASSUME NEW L \in Nat, NEW T, NEW base \in T, NEW step \in [1 .. L -> [T -> T]]
  PROVE  \E g \in [0 .. L -> T] : Computes(g, L, base, step)
<1> DEFINE S == { k \in 0 .. L : \E g \in [0 .. k -> T] : Computes(g, k, base, step) }
<1>1. 0 \in S
  <2>1. [n \in 0 .. 0 |-> base] \in [0 .. 0 -> T] /\ Computes([n \in 0 .. 0 |-> base], 0, base, step)
    BY DEF Computes
  <2>. QED
    BY <2>1
<1>2. ASSUME NEW k \in 0 .. L - 1, k \in S PROVE k + 1 \in S
  <2>1. PICK g \in [0 .. k -> T] : Computes(g, k, base, step)
    BY <1>2
  <2> DEFINE h == [n \in 0 .. k + 1 |-> IF n = k + 1 THEN step[k + 1][g[k]] ELSE g[n]]
  <2>2. step[k + 1] \in [T -> T] /\ g[k] \in T
    OBVIOUS
  <2>3. step[k + 1][g[k]] \in T
    BY <2>2
  <2>4. h \in [0 .. k + 1 -> T]
    BY <2>3
  <2>5. h[0] = g[0]
    OBVIOUS
  <2>6. ASSUME NEW n \in 1 .. k + 1 PROVE h[n] = step[n][h[n - 1]]
    <3>1. CASE n = k + 1
      <4>1. h[n] = step[k + 1][g[k]] /\ h[n - 1] = g[k]
        BY <3>1
      <4>. QED
        BY <3>1, <4>1
    <3>2. CASE n # k + 1
      <4>1. n \in 1 .. k /\ h[n] = g[n] /\ h[n - 1] = g[n - 1]
        BY <3>2
      <4>. QED
        BY <2>1, <4>1 DEF Computes
    <3>. QED
      BY <3>1, <3>2
  <2> HIDE DEF h
  <2>7. Computes(h, k + 1, base, step)
    BY <2>1, <2>5, <2>6 DEF Computes
  <2>. QED
    BY <2>4, <2>7
<1>3. L \in S => \E g \in [0 .. L -> T] : Computes(g, L, base, step)
  OBVIOUS
<1> HIDE DEF S
<1>4. 0 .. L \subseteq S
  BY <1>1, <1>2, Induction
<1>. QED
  BY <1>3, <1>4

-----------------------------------------------------------------------------
(* Products and totals, through the values they take on the way *)

Multiplies(g, s) ==
  /\ g \in [0 .. Len(s) -> Nat]
  /\ g[0] = 1 /\ \A n \in 1 .. Len(s) : g[n] = g[n - 1] * s[n]

LEMMA SeqElement ==
  ASSUME NEW T, NEW s \in Seq(T)
  PROVE  Len(s) \in Nat /\ \A n \in 1 .. Len(s) : s[n] \in T
  OBVIOUS

LEMMA ProductIs ==
  ASSUME NEW s \in Seq(Nat), NEW g, Multiplies(g, s)
  PROVE  Product(s) = g[Len(s)]
<1> DEFINE F(p) == [n \in 0 .. Len(s) |-> IF n = 0 THEN 1 ELSE p[n - 1] * s[n]]
           p == CHOOSE p : p = F(p)
           S == { k \in 0 .. Len(s) : p[k] = g[k] }
<1>1. Len(s) \in Nat
  OBVIOUS
<1>2. g = F(g)
  BY <1>1 DEF Multiplies
<1>3. p = F(p)
  BY <1>2
<1>4. Product(s) = p[Len(s)]
  BY DEF Product
<1>5. p[0] = 1 /\ \A n \in 1 .. Len(s) : p[n] = p[n - 1] * s[n]
  <2> HIDE DEF p
  <2>. QED
    BY <1>1, <1>3, SMTT(40)
<1> HIDE DEF p
<1>6. 0 \in S
  BY <1>1, <1>5 DEF Multiplies
<1>7. ASSUME NEW k \in 0 .. Len(s) - 1, k \in S PROVE k + 1 \in S
  <2>1. k + 1 \in 1 .. Len(s) /\ (k + 1) - 1 = k
    BY <1>1
  <2>2. p[k + 1] = p[k] * s[k + 1] /\ g[k + 1] = g[k] * s[k + 1]
    BY <1>5, <2>1 DEF Multiplies
  <2>. QED
    BY <1>7, <2>1, <2>2
<1>8. Len(s) \in S => p[Len(s)] = g[Len(s)]
  OBVIOUS
<1> HIDE DEF S
<1>9. 0 .. Len(s) \subseteq S
  BY <1>1, <1>6, <1>7, Induction
<1>. QED
  BY <1>1, <1>4, <1>8, <1>9

LEMMA ProductOf ==
  ASSUME NEW s \in Seq(Nat)
  PROVE  \E g : Multiplies(g, s) /\ Product(s) = g[Len(s)]
<1> DEFINE step == [n \in 1 .. Len(s) |-> [x \in Nat |-> x * s[n]]]
<1>1. Len(s) \in Nat /\ \A n \in 1 .. Len(s) : s[n] \in Nat
  OBVIOUS
<1>2. \A n \in 1 .. Len(s), x \in Nat : x * s[n] \in Nat
  BY <1>1
<1>3. step \in [1 .. Len(s) -> [Nat -> Nat]]
  BY <1>2
<1>4. \A n \in 1 .. Len(s), x \in Nat : step[n][x] = x * s[n]
  OBVIOUS
<1> HIDE DEF step
<1>5. PICK g \in [0 .. Len(s) -> Nat] : Computes(g, Len(s), 1, step)
  BY <1>1, <1>3, RecursionExists
<1>6. \A n \in 1 .. Len(s) : n - 1 \in 0 .. Len(s)
  BY <1>1
<1>7. Multiplies(g, s)
  BY <1>4, <1>5, <1>6 DEF Multiplies, Computes
<1>. QED
  BY <1>7, ProductIs

LEMMA ProductType ==
  ASSUME NEW s \in Seq(Nat)
  PROVE  Product(s) \in Nat
<1>1. PICK g : Multiplies(g, s) /\ Product(s) = g[Len(s)]
  BY ProductOf
<1>. QED
  BY <1>1 DEF Multiplies

LEMMA ProductEmpty == Product(<<>>) = 1
<1>1. <<>> \in Seq(Nat) /\ Len(<<>>) = 0
  OBVIOUS
<1>2. PICK g : Multiplies(g, <<>>) /\ Product(<<>>) = g[Len(<<>>)]
  BY <1>1, ProductOf
<1>. QED
  BY <1>1, <1>2 DEF Multiplies

LEMMA ProductZero ==
  ASSUME NEW s \in Seq(Nat)
  PROVE  Product(s) = 0 <=> \E d \in 1 .. Len(s) : s[d] = 0
<1>1. PICK g : Multiplies(g, s) /\ Product(s) = g[Len(s)]
  BY ProductOf
<1>2. Len(s) \in Nat /\ \A n \in 1 .. Len(s) : s[n] \in Nat
  BY SeqElement
<1>6. /\ \A n \in 0 .. Len(s) : g[n] \in Nat
      /\ g[0] = 1
      /\ \A n \in 1 .. Len(s) : g[n] = g[n - 1] * s[n]
  BY <1>1 DEF Multiplies
<1>5. ASSUME NEW k \in 0 .. Len(s) - 1
      PROVE  /\ k \in 0 .. Len(s) /\ k + 1 \in 1 .. Len(s) /\ k + 1 \in 0 .. Len(s)
             /\ g[k] \in Nat /\ g[k + 1] = g[k] * s[k + 1] /\ s[k + 1] \in Nat
  <2>1. k \in 0 .. Len(s) /\ k + 1 \in 1 .. Len(s) /\ k + 1 \in 0 .. Len(s) /\ (k + 1) - 1 = k
    BY <1>2
  <2>. QED
    BY <1>2, <1>6, <2>1
<1>3. ASSUME NEW d \in 1 .. Len(s), s[d] = 0 PROVE Product(s) = 0
  <2> DEFINE S == { k \in 0 .. Len(s) : k >= d => g[k] = 0 }
  <2>1. 0 \in S
    BY <1>2, <1>6
  <2>2. ASSUME NEW k \in 0 .. Len(s) - 1, k \in S PROVE k + 1 \in S
    <3>1. CASE k + 1 = d
      <4>1. g[k + 1] = g[k] * 0 /\ g[k] \in Nat
        BY <1>3, <1>5, <3>1
      <4>. QED
        BY <1>5, <4>1
    <3>2. CASE k >= d
      <4>1. g[k + 1] = 0 * s[k + 1]
        BY <1>5, <2>2, <3>2
      <4>. QED
        BY <1>5, <4>1
    <3>3. CASE k + 1 < d
      BY <1>5, <3>3
    <3>. QED
      BY <3>1, <3>2, <3>3
  <2>3. Len(s) \in S => g[Len(s)] = 0
    OBVIOUS
  <2> HIDE DEF S
  <2>4. 0 .. Len(s) \subseteq S
    BY <1>2, <2>1, <2>2, Induction
  <2>. QED
    BY <1>1, <1>2, <2>3, <2>4
<1>4. ASSUME \A d \in 1 .. Len(s) : s[d] # 0 PROVE Product(s) # 0
  <2> DEFINE S == { k \in 0 .. Len(s) : g[k] > 0 }
  <2>1. 0 \in S
    BY <1>2, <1>6
  <2>2. ASSUME NEW k \in 0 .. Len(s) - 1, k \in S PROVE k + 1 \in S
    <3>1. g[k] \in Nat /\ g[k] > 0 /\ s[k + 1] \in Nat /\ s[k + 1] > 0 /\ g[k + 1] = g[k] * s[k + 1]
      BY <1>4, <1>5, <2>2
    <3>2. \A a, b \in Nat : a > 0 /\ b > 0 => a * b > 0
      OBVIOUS
    <3>. QED
      BY <1>5, <3>1, <3>2
  <2>3. Len(s) \in S => g[Len(s)] # 0
    OBVIOUS
  <2> HIDE DEF S
  <2>4. 0 .. Len(s) \subseteq S
    BY <1>2, <2>1, <2>2, Induction
  <2>. QED
    BY <1>1, <1>2, <2>3, <2>4
<1>. QED
  BY <1>3, <1>4

LEMMA TimesMonotone ==
  ASSUME NEW a \in Nat, NEW b \in Nat, NEW c \in Nat, NEW d \in Nat, a <= c, b <= d
  PROVE  a * b <= c * d
<1>1. a * b <= c * b
  OBVIOUS
<1>2. c * b <= c * d
  OBVIOUS
<1>3. a * b \in Nat /\ c * b \in Nat /\ c * d \in Nat
  OBVIOUS
<1>. QED
  BY <1>1, <1>2, <1>3

LEMMA ProductMonotone ==
  ASSUME NEW s \in Seq(Nat), NEW t \in Seq(Nat), Len(s) = Len(t),
         \A d \in 1 .. Len(s) : s[d] <= t[d]
  PROVE  Product(s) <= Product(t)
<1>1. PICK g : Multiplies(g, s) /\ Product(s) = g[Len(s)]
  BY ProductOf
<1>2. PICK h : Multiplies(h, t) /\ Product(t) = h[Len(t)]
  BY ProductOf
<1> DEFINE S == { k \in 0 .. Len(s) : g[k] <= h[k] }
<1>3. Len(s) \in Nat
  OBVIOUS
<1>4. 0 \in S
  BY <1>1, <1>2, <1>3 DEF Multiplies
<1>5. ASSUME NEW k \in 0 .. Len(s) - 1, k \in S PROVE k + 1 \in S
  <2>1. k + 1 \in 1 .. Len(s) /\ (k + 1) - 1 = k /\ k \in 0 .. Len(s)
    BY <1>3
  <2>2. g[k + 1] = g[k] * s[k + 1] /\ h[k + 1] = h[k] * t[k + 1]
    BY <1>1, <1>2, <2>1 DEF Multiplies
  <2>3. g[k] \in Nat /\ h[k] \in Nat
    BY <1>1, <1>2, <2>1 DEF Multiplies
  <2>6. s[k + 1] \in Nat /\ t[k + 1] \in Nat
    BY <2>1
  <2>4. g[k] <= h[k] /\ s[k + 1] <= t[k + 1]
    BY <1>5, <2>1
  <2>5. g[k] * s[k + 1] <= h[k] * t[k + 1]
    BY <2>3, <2>4, <2>6, TimesMonotone
  <2>. QED
    BY <2>1, <2>2, <2>5
<1>6. Len(s) \in S => g[Len(s)] <= h[Len(s)]
  OBVIOUS
<1> HIDE DEF S
<1>7. 0 .. Len(s) \subseteq S
  BY <1>3, <1>4, <1>5, Induction
<1>. QED
  BY <1>1, <1>2, <1>3, <1>6, <1>7

(* A row is no larger than the whole of which there is at least one row *)
LEMMA RowProduct ==
  ASSUME NEW s \in Seq(Nat), NEW t \in Seq(Nat), Len(t) = Len(s) + 1, t[1] > 0,
         \A d \in 1 .. Len(s) : s[d] <= t[d + 1]
  PROVE  Product(s) <= Product(t)
<1>1. PICK g : Multiplies(g, s) /\ Product(s) = g[Len(s)]
  BY ProductOf
<1>2. PICK h : Multiplies(h, t) /\ Product(t) = h[Len(t)]
  BY ProductOf
<1> DEFINE S == { k \in 0 .. Len(s) : g[k] <= h[k + 1] }
<1>3. Len(s) \in Nat /\ t[1] \in Nat
  OBVIOUS
<1>4. 0 \in S
  <2>1. g[0] = 1 /\ h[0] = 1 /\ h[1] = h[0] * t[1]
    BY <1>1, <1>2, <1>3 DEF Multiplies
  <2>. QED
    BY <1>3, <2>1
<1>5. ASSUME NEW k \in 0 .. Len(s) - 1, k \in S PROVE k + 1 \in S
  <2>1. /\ k + 1 \in 1 .. Len(s) /\ (k + 1) - 1 = k /\ k \in 0 .. Len(s)
        /\ k + 2 \in 1 .. Len(t) /\ (k + 2) - 1 = k + 1 /\ (k + 1) + 1 = k + 2 /\ k + 1 \in 0 .. Len(t)
    BY <1>3, SMTT(40)
  <2>2. g[k + 1] = g[k] * s[k + 1] /\ h[k + 2] = h[k + 1] * t[k + 2]
    BY <1>1, <1>2, <2>1 DEF Multiplies
  <2>3. g[k] \in Nat /\ h[k + 1] \in Nat
    BY <1>1, <1>2, <2>1 DEF Multiplies
  <2>6. s[k + 1] \in Nat /\ t[k + 2] \in Nat
    BY <2>1, SeqElement
  <2>4. g[k] <= h[k + 1] /\ s[k + 1] <= t[k + 2]
    BY <1>5, <2>1
  <2>5. g[k] * s[k + 1] <= h[k + 1] * t[k + 2]
    BY <2>3, <2>4, <2>6, TimesMonotone
  <2>. QED
    BY <2>1, <2>2, <2>5
<1>6. Len(s) \in S => g[Len(s)] <= h[Len(s) + 1]
  OBVIOUS
<1> HIDE DEF S
<1>7. 0 .. Len(s) \subseteq S
  BY <1>3, <1>4, <1>5, Induction
<1>. QED
  BY <1>1, <1>2, <1>3, <1>6, <1>7

LEMMA ModFacts ==
  ASSUME NEW a \in Nat, NEW w \in Nat \ {0}
  PROVE  a % w \in 0 .. w - 1 /\ a % w <= a /\ (a < w => a % w = a)
<1>1. a % w \in 0 .. w - 1 /\ a = w * (a \div w) + (a % w) /\ a \div w \in Nat
  OBVIOUS
<1>2. w * (a \div w) \in Nat
  BY <1>1
<1>3. ASSUME a < w PROVE a % w = a
  BY <1>3
<1>. QED
  BY <1>1, <1>2, <1>3

LEMMA DivFacts ==
  ASSUME NEW b \in Nat, NEW r \in Nat \ {0}
  PROVE  /\ b \div r \in Nat /\ (b \div r >= 1 <=> r <= b)
         /\ \A n \in Nat : n <= b \div r => n * r <= b
<1>1. b \div r \in Nat /\ b % r \in 0 .. r - 1 /\ b = r * (b \div r) + (b % r)
  OBVIOUS
<1>2. ASSUME NEW n \in Nat, n <= b \div r PROVE n * r <= b
  <2>1. n * r <= (b \div r) * r
    BY <1>1, <1>2, TimesMonotone
  <2>2. (b \div r) * r = r * (b \div r)
    BY <1>1
  <2>3. n * r \in Nat /\ r * (b \div r) \in Nat
    BY <1>1
  <2>. QED
    BY <1>1, <2>1, <2>2, <2>3
<1>3. b \div r >= 1 => r <= b
  <2>1. 1 * r = r
    OBVIOUS
  <2>. QED
    BY <1>1, <1>2, <2>1
<1>4. b \div r = 0 => b < r
  BY <1>1
<1>. QED
  BY <1>1, <1>2, <1>3, <1>4

Adds(g, L, c) ==
  /\ g \in [0 .. L -> Nat]
  /\ g[0] = 0 /\ \A n \in 1 .. L : g[n] = (g[n - 1] + c[n]) % Width

LEMMA TotalIs ==
  ASSUME NEW s \in Seq(Nat), NEW g, Adds(g, Len(s), s)
  PROVE  Total(s) = g[Len(s)]
<1> DEFINE F(p) == [n \in 0 .. Len(s) |-> IF n = 0 THEN 0 ELSE (p[n - 1] + s[n]) % Width]
           p == CHOOSE p : p = F(p)
           S == { k \in 0 .. Len(s) : p[k] = g[k] }
<1>1. Len(s) \in Nat
  OBVIOUS
<1>2. g = F(g)
  BY <1>1 DEF Adds
<1>3. p = F(p)
  BY <1>2
<1>4. Total(s) = p[Len(s)]
  BY DEF Total
<1>5. p[0] = 0 /\ \A n \in 1 .. Len(s) : p[n] = (p[n - 1] + s[n]) % Width
  <2> HIDE DEF p
  <2>. QED
    BY <1>1, <1>3
<1> HIDE DEF p
<1>6. 0 \in S
  BY <1>1, <1>5 DEF Adds
<1>7. ASSUME NEW k \in 0 .. Len(s) - 1, k \in S PROVE k + 1 \in S
  <2>1. k + 1 \in 1 .. Len(s) /\ (k + 1) - 1 = k
    BY <1>1
  <2>2. p[k + 1] = (p[k] + s[k + 1]) % Width /\ g[k + 1] = (g[k] + s[k + 1]) % Width
    BY <1>5, <2>1 DEF Adds
  <2>. QED
    BY <1>7, <2>1, <2>2
<1>8. Len(s) \in S => p[Len(s)] = g[Len(s)]
  OBVIOUS
<1> HIDE DEF S
<1>9. 0 .. Len(s) \subseteq S
  BY <1>1, <1>6, <1>7, Induction
<1>. QED
  BY <1>1, <1>4, <1>8, <1>9

LEMMA TotalsOf ==
  ASSUME NEW L \in Nat, NEW c \in [1 .. L -> Nat]
  PROVE  \E g : Adds(g, L, c) /\ \A k \in 0 .. L : Total([i \in 1 .. k |-> c[i]]) = g[k]
<1> DEFINE step == [n \in 1 .. L |-> [x \in Nat |-> (x + c[n]) % Width]]
<1>1. Width \in Nat \ {0}
  BY SliceConstants
<1>2. \A n \in 1 .. L, x \in Nat : (x + c[n]) % Width \in Nat
  <2>1. ASSUME NEW n \in 1 .. L, NEW x \in Nat PROVE (x + c[n]) % Width \in Nat
    <3>1. x + c[n] \in Nat
      OBVIOUS
    <3>. QED
      BY <1>1, <3>1, ModFacts
  <2>. QED
    BY <2>1
<1>3. step \in [1 .. L -> [Nat -> Nat]]
  BY <1>2
<1>4. \A n \in 1 .. L, x \in Nat : step[n][x] = (x + c[n]) % Width
  OBVIOUS
<1> HIDE DEF step
<1>5. PICK g \in [0 .. L -> Nat] : Computes(g, L, 0, step)
  BY <1>3, RecursionExists
<1>6. \A n \in 1 .. L : n - 1 \in 0 .. L
  OBVIOUS
<1>7. Adds(g, L, c)
  BY <1>4, <1>5, <1>6 DEF Adds, Computes
<1>8. ASSUME NEW k \in 0 .. L PROVE Total([i \in 1 .. k |-> c[i]]) = g[k]
  <2> DEFINE s == [i \in 1 .. k |-> c[i]]
             h == [n \in 0 .. k |-> g[n]]
  <2>1. s \in Seq(Nat) /\ Len(s) = k
    OBVIOUS
  <2>2. h \in [0 .. k -> Nat] /\ h[0] = 0 /\ h[k] = g[k]
    BY <1>7 DEF Adds
  <2>3. ASSUME NEW n \in 1 .. k PROVE h[n] = (h[n - 1] + s[n]) % Width
    <3>1. n \in 1 .. L /\ n \in 0 .. k /\ n - 1 \in 0 .. k
      OBVIOUS
    <3>2. h[n] = g[n] /\ h[n - 1] = g[n - 1] /\ s[n] = c[n]
      BY <3>1
    <3>. QED
      BY <1>7, <3>1, <3>2 DEF Adds
  <2> HIDE DEF s, h
  <2>4. Adds(h, Len(s), s)
    BY <2>1, <2>2, <2>3 DEF Adds
  <2>5. Total(s) = g[k]
    BY <2>1, <2>2, <2>4, TotalIs
  <2>. QED
    BY <2>5 DEF s
<1>. QED
  BY <1>7, <1>8

-----------------------------------------------------------------------------
(* The slices of a request *)

SliceRecords == [start : Seq(Nat), count : Seq(Nat)]

(* No slice ends beyond what an hsize_t can hold *)
GoodRequest ==
  /\ rank \in Nat /\ slices \in Seq(SliceRecords)
  /\ \A i \in 1 .. Len(slices) :
       /\ Len(slices[i].start) = rank /\ Len(slices[i].count) = rank
       /\ \A d \in 1 .. rank : slices[i].start[d] + slices[i].count[d] < Width

(* What the comparison of neighbours leaves *)
Apart ==
  \A i \in 2 .. Len(slices) : slices[i - 1].start[1] + slices[i - 1].count[1] <= slices[i].start[1]

LEMMA SliceTypes ==
  ASSUME GoodRequest, NEW i \in 1 .. Len(slices), NEW d \in 1 .. rank
  PROVE  /\ slices[i].start[d] \in Nat /\ slices[i].count[d] \in Nat
         /\ slices[i].start[d] + slices[i].count[d] < Width
<1>1. slices[i] \in SliceRecords
  BY SeqElement DEF GoodRequest
<1>2. slices[i].start \in Seq(Nat) /\ slices[i].count \in Seq(Nat)
  BY <1>1 DEF SliceRecords
<1>3. Len(slices[i].start) = rank /\ Len(slices[i].count) = rank
  BY DEF GoodRequest
<1>. QED
  BY <1>2, <1>3, SeqElement DEF GoodRequest

LEMMA RowsFacts ==
  ASSUME GoodRequest, rank > 0, Apart
  PROVE  /\ RowsOf(0) = 0
         /\ \A k \in 0 .. Len(slices) : RowsOf(k) \in Nat
         /\ \A k \in 1 .. Len(slices) :
              /\ RowsOf(k) = RowsOf(k - 1) + slices[k].count[1]
              /\ RowsOf(k) <= slices[k].start[1] + slices[k].count[1]
<1> DEFINE L == Len(slices)
           c == [i \in 1 .. L |-> slices[i].count[1]]
           ends == [i \in 1 .. L |-> slices[i].start[1] + slices[i].count[1]]
<1>1. L \in Nat /\ 1 \in 1 .. rank /\ Width \in Nat \ {0}
  BY SliceConstants DEF GoodRequest
<1>2. c \in [1 .. L -> Nat] /\ ends \in [1 .. L -> Nat]
  BY <1>1, SliceTypes, SMTT(40)
<1>3. \A i \in 1 .. L : c[i] <= ends[i] /\ ends[i] < Width
  BY <1>1, SliceTypes
<1>4. \A i \in 2 .. L : ends[i - 1] + c[i] <= ends[i]
  <2>1. ASSUME NEW i \in 2 .. L PROVE ends[i - 1] + c[i] <= ends[i]
    <3>1. i \in 1 .. L /\ i - 1 \in 1 .. L
      OBVIOUS
    <3>2. slices[i].start[1] \in Nat /\ slices[i].count[1] \in Nat
      BY <1>1, <3>1, SliceTypes
    <3>3. slices[i - 1].start[1] \in Nat /\ slices[i - 1].count[1] \in Nat
      BY <1>1, <3>1, SliceTypes
    <3>4. slices[i - 1].start[1] + slices[i - 1].count[1] <= slices[i].start[1]
      BY DEF Apart
    <3>. QED
      BY <3>1, <3>2, <3>3, <3>4
  <2>. QED
    BY <2>1
<1>5. \A k \in 0 .. L : RowsOf(k) = Total([i \in 1 .. k |-> c[i]])
  <2>1. ASSUME NEW k \in 0 .. L PROVE RowsOf(k) = Total([i \in 1 .. k |-> c[i]])
    <3>1. [i \in 1 .. k |-> slices[i].count[1]] = [i \in 1 .. k |-> c[i]]
      BY <1>1
    <3>. QED
      BY <3>1 DEF RowsOf
  <2>. QED
    BY <2>1
<1>6. \A k \in 1 .. L : c[k] = slices[k].count[1] /\ ends[k] = slices[k].start[1] + slices[k].count[1]
  OBVIOUS
<1> HIDE DEF c, ends, L
<1>7. PICK g : Adds(g, L, c) /\ \A k \in 0 .. L : Total([i \in 1 .. k |-> c[i]]) = g[k]
  BY <1>1, <1>2, TotalsOf
<1> DEFINE S == { k \in 0 .. L : k > 0 => g[k] = g[k - 1] + c[k] /\ g[k] <= ends[k] }
<1>8. 0 \in S
  BY <1>1
<1>9. ASSUME NEW k \in 0 .. L - 1, k \in S PROVE k + 1 \in S
  <2>1. k \in 0 .. L /\ k + 1 \in 1 .. L /\ (k + 1) - 1 = k
    BY <1>1
  <2>2. g[k] \in Nat /\ c[k + 1] \in Nat /\ ends[k + 1] \in Nat
    BY <1>2, <1>7, <2>1 DEF Adds
  <2>3. g[k + 1] = (g[k] + c[k + 1]) % Width
    BY <1>7, <2>1 DEF Adds
  <2>4. g[k] + c[k + 1] <= ends[k + 1]
    <3>1. CASE k = 0
      <4>1. g[0] = 0
        BY <1>7 DEF Adds
      <4>. QED
        BY <1>3, <2>1, <2>2, <3>1, <4>1
    <3>2. CASE k > 0
      <4>1. g[k] <= ends[k] /\ ends[k] \in Nat
        BY <1>2, <1>9, <2>1, <3>2
      <4>2. ends[k] + c[k + 1] <= ends[k + 1]
        BY <1>4, <2>1, <3>2
      <4>. QED
        BY <2>2, <4>1, <4>2
    <3>. QED
      BY <2>1, <3>1, <3>2
  <2>5. g[k] + c[k + 1] < Width
    BY <1>1, <1>3, <2>1, <2>2, <2>4
  <2>6. (g[k] + c[k + 1]) % Width = g[k] + c[k + 1]
    <3>1. g[k] + c[k + 1] \in Nat
      BY <2>2
    <3>. QED
      BY <1>1, <2>5, <3>1, ModFacts
  <2>. QED
    BY <2>1, <2>3, <2>4, <2>6
<1>10. \A k \in 1 .. L : k \in S => g[k] = g[k - 1] + c[k] /\ g[k] <= ends[k]
  OBVIOUS
<1> HIDE DEF S
<1>11. 0 .. L \subseteq S
  BY <1>1, <1>8, <1>9, Induction
<1>12. \A k \in 0 .. L : RowsOf(k) = g[k] /\ g[k] \in Nat
  BY <1>5, <1>7 DEF Adds
<1>13. RowsOf(0) = 0
  BY <1>1, <1>7, <1>12 DEF Adds
<1>14. ASSUME NEW k \in 1 .. L
       PROVE  RowsOf(k) = RowsOf(k - 1) + c[k] /\ RowsOf(k) <= ends[k]
  <2>1. k \in 0 .. L /\ k - 1 \in 0 .. L
    BY <1>1
  <2>. QED
    BY <1>10, <1>11, <1>12, <2>1
<1>. QED
  BY <1>6, <1>12, <1>13, <1>14 DEF L

LEMMA InnerTypes ==
  ASSUME GoodRequest, slices # <<>>
  PROVE  /\ 1 \in 1 .. Len(slices)
         /\ InnerCounts \in Seq(Nat)
         /\ Len(InnerCounts) = IF rank = 0 THEN 0 ELSE rank - 1
         /\ \A d \in 1 .. rank - 1 : InnerCounts[d] = slices[1].count[d + 1]
         /\ Product(InnerCounts) \in Nat
<1>1. 1 \in 1 .. Len(slices)
  BY DEF GoodRequest
<1>2. slices[1].count \in Seq(Nat) /\ Len(slices[1].count) = rank /\ rank \in Nat
  <2>1. slices[1] \in SliceRecords
    BY <1>1, SeqElement DEF GoodRequest
  <2>. QED
    BY <1>1, <2>1 DEF GoodRequest, SliceRecords
<1>3. InnerCounts \in Seq(Nat)
  BY <1>2 DEF InnerCounts
<1>4. Len(InnerCounts) = IF rank = 0 THEN 0 ELSE rank - 1
  BY <1>2 DEF InnerCounts
<1>5. \A d \in 1 .. rank - 1 : InnerCounts[d] = slices[1].count[d + 1]
  BY <1>2 DEF InnerCounts
<1>. QED
  BY <1>1, <1>3, <1>4, <1>5, ProductType

-----------------------------------------------------------------------------
(* Rows, the buffer and the dataset *)

LEMMA DatasetFacts ==
  ASSUME IsDataset(dataset)
  PROVE  /\ dims \in Seq(Nat) /\ \A d \in 1 .. Len(dims) : dims[d] \in Nat /\ dims[d] < Width
         /\ dataset.element_size \in Nat \ {0}
         /\ Product(dims) \in Nat
         /\ \A p \in Nat : p <= Product(dims) =>
              p * dataset.element_size \in Nat /\ p < Width /\ p * dataset.element_size < Width
<1>1. dims \in Seq(0 .. Width - 1) /\ Width \in Nat \ {0} /\ MaxSize \in Nat \ {0}
  BY SliceConstants DEF IsDataset, dims
<1>2. \A d \in 1 .. Len(dims) : dims[d] \in 0 .. Width - 1
  BY <1>1, SeqElement
<1>3. dims \in Seq(Nat)
  BY <1>1
<1>4. dataset.element_size \in Nat \ {0} /\ Product(dims) * dataset.element_size + MaxSize <= Width
  BY DEF IsDataset, dims
<1>5. Product(dims) \in Nat
  BY <1>3, ProductType
<1>6. ASSUME NEW p \in Nat, p <= Product(dims)
      PROVE  p * dataset.element_size \in Nat /\ p < Width /\ p * dataset.element_size < Width
  <2>1. p * dataset.element_size <= Product(dims) * dataset.element_size
    BY <1>4, <1>5, <1>6, TimesMonotone
  <2>2. p * 1 <= p * dataset.element_size
    BY <1>4, TimesMonotone
  <2>3. p * dataset.element_size \in Nat /\ Product(dims) * dataset.element_size \in Nat /\ p * 1 = p
    BY <1>4, <1>5
  <2>. QED
    BY <1>1, <1>4, <2>1, <2>2, <2>3
<1>. QED
  BY <1>1, <1>2, <1>3, <1>4, <1>5, <1>6

LEMMA RowNoWrap ==
  ASSUME IsDataset(dataset), GoodRequest, slices # <<>>, Product(InnerCounts) <= Product(dims)
  PROVE  /\ NrElements = Product(InnerCounts)
         /\ RowBytes = Product(InnerCounts) * dataset.element_size
<1> DEFINE p == Product(InnerCounts)
<1>1. p \in Nat /\ p <= Product(dims) /\ Width \in Nat \ {0}
  BY InnerTypes, SliceConstants
<1>2. NrElements = p % Width /\ RowBytes = (NrElements * dataset.element_size) % Width
  BY DEF NrElements, RowBytes
<1> HIDE DEF p
<1>3. p * dataset.element_size \in Nat /\ p < Width /\ p * dataset.element_size < Width
  BY <1>1, DatasetFacts
<1>4. p % Width = p
  BY <1>1, <1>3, ModFacts
<1>5. (p * dataset.element_size) % Width = p * dataset.element_size
  BY <1>1, <1>3, ModFacts
<1>. QED
  BY <1>2, <1>4, <1>5 DEF p

(* If the bytes of a row do not wrap, the code's check says whether it fits *)
LEMMA RowInBuffer ==
  ASSUME IsDataset(dataset), GoodRequest, slices # <<>>, Product(InnerCounts) <= Product(dims),
         buffer_size \in Nat, RowFits
  PROVE  /\ Product(InnerCounts) * dataset.element_size <= buffer_size
         /\ \A n \in Nat : n <= ElementsPerBuffer \/ Product(InnerCounts) = 0 =>
              (n * Product(InnerCounts)) * dataset.element_size <= buffer_size
<1> DEFINE p == Product(InnerCounts)
           e == dataset.element_size
<1>1. p \in Nat /\ e \in Nat \ {0}
  BY InnerTypes, DatasetFacts
<1>2. NrElements = p /\ RowBytes = p * e
  BY RowNoWrap
<1>3. ElementsPerBuffer = IF p > 0 THEN buffer_size \div (p * e) ELSE 0
  BY <1>2 DEF ElementsPerBuffer
<1>4. p > 0 => ElementsPerBuffer >= 1
  BY <1>2 DEF RowFits
<1> HIDE DEF p, e
<1>5. CASE p = 0
  <2>1. p * e = 0 /\ \A n \in Nat : (n * p) * e = 0
    BY <1>1, <1>5
  <2>. QED
    BY <2>1 DEF p, e
<1>6. CASE p > 0
  <2>1. p * e \in Nat \ {0}
    BY <1>1, <1>6
  <2>2. p * e <= buffer_size
    BY <1>3, <1>4, <1>6, <2>1, DivFacts
  <2>3. ASSUME NEW n \in Nat, n <= ElementsPerBuffer PROVE (n * p) * e <= buffer_size
    <3>1. n * (p * e) <= buffer_size
      BY <1>3, <1>6, <2>1, <2>3, DivFacts
    <3>2. (n * p) * e = n * (p * e)
      BY <1>1
    <3>. QED
      BY <3>1, <3>2
  <2>. QED
    BY <1>6, <2>2, <2>3 DEF p, e
<1>. QED
  BY <1>1, <1>5, <1>6

(* A read delivers at most what the buffer holds *)
LEMMA ReadInBuffer ==
  ASSUME IsDataset(dataset), GoodRequest, slices # <<>>, buffer_size \in Nat, RowFits,
         rank > 0 => nr_elements_to_read \in Nat /\ nr_elements_to_read <= ElementsPerBuffer,
         CanRead
  PROVE  Cardinality(Selection) * dataset.element_size <= buffer_size
<1> DEFINE p == Product(InnerCounts)
           n == nr_elements_to_read
           c == Cardinality(Selection)
<1>1. p \in Nat /\ Product(dims) \in Nat /\ dataset.element_size \in Nat \ {0} /\ rank \in Nat
  BY InnerTypes, DatasetFacts DEF GoodRequest
<1>2. c <= Product(dims)
  <2>1. IsFiniteSet(Elements) /\ Cardinality(Elements) = Product(dims)
    <3>1. 0 \in Int /\ Product(dims) - 1 \in Int
      BY <1>1
    <3>2. /\ IsFiniteSet(0 .. Product(dims) - 1)
          /\ Cardinality(0 .. Product(dims) - 1) =
               IF 0 > Product(dims) - 1 THEN 0 ELSE (Product(dims) - 1) - 0 + 1
      BY <3>1, FS_Interval
    <3>. QED
      BY <1>1, <3>2 DEF Elements
  <2>2. Selection \in SUBSET Elements
    BY DEF Selection
  <2>. QED
    BY <2>1, <2>2, FS_Subset
<1>3. CASE rank = 0
  <2>1. c = 1
    BY <1>3 DEF CanRead
  <2>2. InnerCounts = <<>>
    BY <1>3, InnerTypes
  <2>3. p = 1
    BY <2>2, ProductEmpty
  <2>4. p <= Product(dims)
    BY <1>2, <2>1, <2>3
  <2>5. p * dataset.element_size <= buffer_size
    BY <2>4, RowInBuffer
  <2>. QED
    BY <2>1, <2>3, <2>5
<1>4. CASE rank > 0
  <2>1. c = n * p /\ n \in Nat /\ n <= ElementsPerBuffer
    BY <1>1, <1>4 DEF CanRead
  <2>2. CASE n = 0
    <3>1. c = 0
      BY <1>1, <2>1, <2>2
    <3>. QED
      BY <1>1, <3>1
  <2>3. CASE n > 0
    <3>1. 1 * p <= n * p
      BY <1>1, <2>1, <2>3, TimesMonotone
    <3>2. 1 * p = p /\ n * p \in Nat
      BY <1>1, <2>1
    <3>3. p <= Product(dims)
      BY <1>1, <1>2, <2>1, <3>1, <3>2
    <3>4. (n * p) * dataset.element_size <= buffer_size
      BY <2>1, <3>3, RowInBuffer
    <3>. QED
      BY <2>1, <3>4
  <2>. QED
    BY <2>1, <2>2, <2>3
<1>. QED
  BY <1>1, <1>3, <1>4

-----------------------------------------------------------------------------
(* Accepted slices *)

LEMMA EndsDoNotWrap ==
  ASSUME GoodRequest, NEW i \in 1 .. Len(slices), NEW d \in 1 .. rank
  PROVE  (slices[i].start[d] + slices[i].count[d]) % Width = slices[i].start[d] + slices[i].count[d]
<1>1. /\ slices[i].start[d] \in Nat /\ slices[i].count[d] \in Nat
      /\ slices[i].start[d] + slices[i].count[d] < Width
  BY SliceTypes
<1>2. slices[i].start[d] + slices[i].count[d] \in Nat
  BY <1>1
<1>3. Width \in Nat \ {0}
  BY SliceConstants
<1>. QED
  BY <1>1, <1>2, <1>3, ModFacts

LEMMA AcceptedApart ==
  ASSUME GoodRequest, rank > 0, NEW file_dims, SlicesAccepted(file_dims)
  PROVE  Apart
<1>1. rank \in Nat /\ 1 \in 1 .. rank /\ DOMAIN slices = 1 .. Len(slices) /\ Len(slices) \in Nat
  BY DEF GoodRequest
<1>2. ASSUME NEW i \in 2 .. Len(slices)
      PROVE  slices[i - 1].start[1] + slices[i - 1].count[1] <= slices[i].start[1]
  <2>1. i \in 1 .. Len(slices) /\ i - 1 \in 1 .. Len(slices) /\ i > 1
    BY <1>1
  <2>2. Follows(slices[i - 1], slices[i])
    BY <1>1, <2>1 DEF SlicesAccepted
  <2>3. (slices[i - 1].start[1] + slices[i - 1].count[1]) % Width <= slices[i].start[1]
    BY <2>2 DEF Follows
  <2>. QED
    BY <1>1, <2>1, <2>3, EndsDoNotWrap
<1>. QED
  BY <1>2 DEF Apart

(* Slices that follow their neighbours follow every slice before them *)
LEMMA ApartAll ==
  ASSUME GoodRequest, rank > 0, Apart,
         NEW i \in 1 .. Len(slices), NEW j \in 1 .. Len(slices), i < j
  PROVE  slices[i].start[1] + slices[i].count[1] <= slices[j].start[1]
<1> DEFINE S == { k \in 0 .. Len(slices) :
                    k > i => slices[i].start[1] + slices[i].count[1] <= slices[k].start[1] }
<1>1. Len(slices) \in Nat /\ 1 \in 1 .. rank
  BY DEF GoodRequest
<1>2. 0 \in S
  BY <1>1
<1>3. ASSUME NEW k \in 0 .. Len(slices) - 1, k \in S PROVE k + 1 \in S
  <2>1. CASE k = i
    <3>1. k + 1 \in 2 .. Len(slices) /\ (k + 1) - 1 = k
      BY <1>1, <2>1
    <3>2. slices[k].start[1] + slices[k].count[1] <= slices[k + 1].start[1]
      BY <3>1 DEF Apart
    <3>. QED
      BY <2>1, <3>1, <3>2
  <2>2. CASE k > i
    <3>1. k + 1 \in 2 .. Len(slices) /\ (k + 1) - 1 = k /\ k \in 1 .. Len(slices) /\ k + 1 \in 1 .. Len(slices)
      BY <1>1, <2>2
    <3>2. slices[k].start[1] + slices[k].count[1] <= slices[k + 1].start[1]
      BY <3>1 DEF Apart
    <3>3. slices[i].start[1] + slices[i].count[1] <= slices[k].start[1]
      BY <1>3, <2>2
    <3>4. slices[k].start[1] \in Nat /\ slices[k].count[1] \in Nat
      BY <1>1, <3>1, SliceTypes
    <3>5. slices[i].start[1] \in Nat /\ slices[i].count[1] \in Nat
      BY <1>1, SliceTypes
    <3>6. slices[k + 1].start[1] \in Nat
      BY <1>1, <3>1, SliceTypes
    <3>7. slices[i].start[1] + slices[i].count[1] <= slices[k + 1].start[1]
      <4>1. \A a, b, x, y, z \in Nat : a + b <= x /\ x + y <= z => a + b <= z
        OBVIOUS
      <4>. QED
        BY <3>2, <3>3, <3>4, <3>5, <3>6, <4>1
    <3>. QED
      BY <3>1, <3>7
  <2>3. CASE k < i
    BY <1>1, <2>3
  <2>. QED
    BY <2>1, <2>2, <2>3
<1>4. j \in S => slices[i].start[1] + slices[i].count[1] <= slices[j].start[1]
  OBVIOUS
<1> HIDE DEF S
<1>5. 0 .. Len(slices) \subseteq S
  BY <1>1, <1>2, <1>3, Induction
<1>. QED
  BY <1>1, <1>4, <1>5

(* ... and they are alike in all dimensions but the first *)
LEMMA AlikeAll ==
  ASSUME GoodRequest, rank > 0, NEW file_dims, SlicesAccepted(file_dims), NEW i \in 1 .. Len(slices)
  PROVE  \A d \in 2 .. rank :
           slices[i].start[d] = slices[1].start[d] /\ slices[i].count[d] = slices[1].count[d]
<1> DEFINE Alike(k) == \A d \in 2 .. rank :
             slices[k].start[d] = slices[1].start[d] /\ slices[k].count[d] = slices[1].count[d]
           S == { k \in 0 .. Len(slices) : k > 0 => Alike(k) }
<1>1. Len(slices) \in Nat /\ DOMAIN slices = 1 .. Len(slices) /\ rank \in Nat
  BY DEF GoodRequest
<1>2. 0 \in S
  BY <1>1
<1>3. ASSUME NEW k \in 0 .. Len(slices) - 1, k \in S PROVE k + 1 \in S
  <2>1. CASE k = 0
    BY <1>1, <2>1
  <2>2. CASE k > 0
    <3>1. k + 1 \in 1 .. Len(slices) /\ (k + 1) - 1 = k /\ k + 1 > 1
      BY <1>1, <2>2
    <3>2. Follows(slices[(k + 1) - 1], slices[k + 1])
      BY <1>1, <3>1 DEF SlicesAccepted
    <3>3. \A d \in 2 .. rank :
            slices[k].start[d] = slices[k + 1].start[d] /\ slices[k].count[d] = slices[k + 1].count[d]
      BY <3>1, <3>2 DEF Follows
    <3>4. Alike(k)
      BY <1>3, <2>2
    <3>5. Alike(k + 1)
      BY <3>3, <3>4
    <3> HIDE DEF Alike
    <3>. QED
      BY <3>1, <3>5
  <2>. QED
    BY <2>1, <2>2
<1>4. i \in S => Alike(i)
  OBVIOUS
<1> HIDE DEF S, Alike
<1>5. 0 .. Len(slices) \subseteq S
  BY <1>1, <1>2, <1>3, Induction
<1>6. Alike(i)
  BY <1>1, <1>4, <1>5
<1>. QED
  BY <1>6 DEF Alike

LEMMA FileDimsExact ==
  ASSUME IsDataset(dataset), RankMatches, NEW file_dims \in FileDims
  PROVE  \A d \in 1 .. rank : file_dims[d] = dims[d]
<1>1. PICK g : file_dims = [d \in 1 .. rank |-> IF d <= Len(dims) THEN dims[d] ELSE g[d]]
  BY DEF FileDims
<1>. QED
  BY <1>1 DEF RankMatches

LEMMA TotalCountFacts ==
  ASSUME GoodRequest, slices # <<>>, rank > 0 => Apart
  PROVE  /\ TotalCount \in Seq(Nat) /\ Len(TotalCount) = rank
         /\ rank > 0 => TotalCount[1] = RowsOf(Len(slices))
         /\ \A d \in 2 .. rank : TotalCount[d] = slices[1].count[d]
         /\ Product(TotalCount) \in Nat
<1>1. /\ 1 \in 1 .. Len(slices) /\ InnerCounts \in Seq(Nat)
      /\ Len(InnerCounts) = IF rank = 0 THEN 0 ELSE rank - 1
      /\ \A d \in 1 .. rank - 1 : InnerCounts[d] = slices[1].count[d + 1]
  BY InnerTypes
<1>2. rank \in Nat /\ Len(slices) \in Nat
  BY DEF GoodRequest
<1>3. CASE rank = 0
  BY <1>3, ProductEmpty DEF TotalCount
<1>4. CASE rank > 0
  <2> DEFINE R == RowsOf(Len(slices))
  <2>1. R \in Nat
    BY <1>1, <1>2, <1>4, RowsFacts
  <2>2. TotalCount = <<R>> \o InnerCounts
    BY <1>4 DEF TotalCount
  <2> HIDE DEF R
  <2>3. TotalCount \in Seq(Nat) /\ Len(TotalCount) = rank /\ TotalCount[1] = R
    BY <1>1, <1>2, <1>4, <2>1, <2>2
  <2>4. ASSUME NEW d \in 2 .. rank PROVE TotalCount[d] = slices[1].count[d]
    <3>1. d - 1 \in 1 .. rank - 1 /\ (d - 1) + 1 = d /\ d - 1 \in 1 .. Len(InnerCounts)
      BY <1>1, <1>2, <1>4
    <3>2. TotalCount[d] = InnerCounts[d - 1]
      BY <1>1, <1>2, <2>1, <2>2, <3>1
    <3>. QED
      BY <1>1, <3>1, <3>2
  <2>5. Product(TotalCount) \in Nat
    BY <2>3, ProductType
  <2>. QED
    BY <1>4, <2>3, <2>4, <2>5 DEF R
<1>. QED
  BY <1>2, <1>3, <1>4

(* The start and the count of a slice, as sequences *)
LEMMA SliceSequences ==
  ASSUME GoodRequest, NEW i \in 1 .. Len(slices)
  PROVE  /\ slices[i].start \in Seq(Nat) /\ Len(slices[i].start) = rank
         /\ slices[i].count \in Seq(Nat) /\ Len(slices[i].count) = rank
<1>1. slices[i] \in SliceRecords
  BY SeqElement DEF GoodRequest
<1>. QED
  BY <1>1 DEF GoodRequest, SliceRecords

LEMMA SameInner ==
  ASSUME NEW n \in Nat \ {0}, NEW s \in Seq(Nat), Len(s) = n, NEW t \in Seq(Nat), Len(t) = n
  PROVE  SubSeq(s, 2, n) = SubSeq(t, 2, n) <=> \A d \in 2 .. n : s[d] = t[d]
<1>1. ASSUME NEW u \in Seq(Nat), Len(u) = n
      PROVE  /\ SubSeq(u, 2, n) \in Seq(Nat) /\ Len(SubSeq(u, 2, n)) = n - 1
             /\ \A d \in 1 .. n - 1 : SubSeq(u, 2, n)[d] = u[d + 1]
  <2>1. 2 \in 1 .. Len(u) + 1 /\ n \in 2 - 1 .. Len(u)
    BY <1>1
  <2>2. /\ SubSeq(u, 2, n) \in Seq(Nat) /\ Len(SubSeq(u, 2, n)) = n - 2 + 1
        /\ \A d \in 1 .. n - 2 + 1 : SubSeq(u, 2, n)[d] = u[2 + d - 1]
    BY <2>1, SubSeqProperties
  <2>3. n - 2 + 1 = n - 1 /\ \A d \in 1 .. n - 1 : 2 + d - 1 = d + 1
    OBVIOUS
  <2>. QED
    BY <2>2, <2>3
<1>2. ASSUME SubSeq(s, 2, n) = SubSeq(t, 2, n), NEW d \in 2 .. n PROVE s[d] = t[d]
  <2>1. d - 1 \in 1 .. n - 1 /\ (d - 1) + 1 = d
    OBVIOUS
  <2>2. SubSeq(s, 2, n)[d - 1] = s[d] /\ SubSeq(t, 2, n)[d - 1] = t[d]
    BY <1>1, <2>1
  <2>. QED
    BY <1>2, <2>2
<1>3. ASSUME \A d \in 2 .. n : s[d] = t[d] PROVE SubSeq(s, 2, n) = SubSeq(t, 2, n)
  <2>1. \A d \in 1 .. n - 1 : SubSeq(s, 2, n)[d] = SubSeq(t, 2, n)[d]
    <3>1. ASSUME NEW d \in 1 .. n - 1 PROVE SubSeq(s, 2, n)[d] = SubSeq(t, 2, n)[d]
      <4>1. d + 1 \in 2 .. n
        OBVIOUS
      <4>2. SubSeq(s, 2, n)[d] = s[d + 1] /\ SubSeq(t, 2, n)[d] = t[d + 1]
        BY <1>1
      <4>. QED
        BY <1>3, <4>1, <4>2
    <3>. QED
      BY <3>1
  <2>2. /\ SubSeq(s, 2, n) \in Seq(Nat) /\ Len(SubSeq(s, 2, n)) = n - 1
        /\ SubSeq(t, 2, n) \in Seq(Nat) /\ Len(SubSeq(t, 2, n)) = n - 1
    BY <1>1
  <2> DEFINE x == SubSeq(s, 2, n)
             y == SubSeq(t, 2, n)
  <2>3. x \in Seq(Nat) /\ y \in Seq(Nat) /\ Len(x) = Len(y) /\ \A d \in 1 .. Len(x) : x[d] = y[d]
    BY <2>1, <2>2
  <2> HIDE DEF x, y
  <2>4. x = y
    BY <2>3, SeqEqual
  <2>. QED
    BY <2>4 DEF x, y
<1>. QED
  BY <1>2, <1>3

(* What is accepted is right *)
LEMMA AcceptedRight ==
  ASSUME IsDataset(dataset), GoodRequest, buffer_size \in Nat, RankMatches,
         slices # <<>>, RowFits, NEW file_dims \in FileDims, SlicesAccepted(file_dims),
         dataset.kind # "fixed" => NrEntries <= MaxSize
  PROVE  SlicesRight /\ (Product(dims) > 0 => RowFitsBuffer)
<1>1. /\ rank \in Nat /\ Len(dims) = rank /\ DOMAIN slices = 1 .. Len(slices) /\ 1 \in 1 .. Len(slices)
      /\ Len(slices) \in Nat /\ Width \in Nat \ {0}
  BY InnerTypes, SliceConstants DEF GoodRequest, RankMatches
<1>2. dims \in Seq(Nat) /\ Product(dims) \in Nat /\ \A d \in 1 .. Len(dims) : dims[d] \in Nat
  BY DatasetFacts
<1>3. rank <= MaxDims /\ Len(slices) <= MaxSlices
  BY DEF SlicesAccepted
<1>4. rank > 0 => Apart
  BY AcceptedApart
<1>5. ASSUME rank > 0, NEW i \in 1 .. Len(slices), NEW d \in 1 .. rank
      PROVE  slices[i].start[d] + slices[i].count[d] <= dims[d]
  <2>1. InFile(slices[i], file_dims)
    BY <1>1, <1>5 DEF SlicesAccepted
  <2>2. (slices[i].start[d] + slices[i].count[d]) % Width <= file_dims[d]
    BY <2>1 DEF InFile
  <2>3. file_dims[d] = dims[d]
    BY FileDimsExact
  <2>. QED
    BY <2>2, <2>3, EndsDoNotWrap
<1>6. ASSUME rank > 0, NEW i \in 1 .. Len(slices), NEW j \in 1 .. Len(slices)
      PROVE  /\ i < j => slices[i].start[1] + slices[i].count[1] <= slices[j].start[1]
             /\ SubSeq(slices[i].start, 2, rank) = SubSeq(slices[j].start, 2, rank)
             /\ SubSeq(slices[i].count, 2, rank) = SubSeq(slices[j].count, 2, rank)
  <2>1. i < j => slices[i].start[1] + slices[i].count[1] <= slices[j].start[1]
    BY <1>4, <1>6, ApartAll
  <2>2. \A d \in 2 .. rank : slices[i].start[d] = slices[1].start[d] /\ slices[i].count[d] = slices[1].count[d]
    BY <1>6, AlikeAll
  <2>3. \A d \in 2 .. rank : slices[j].start[d] = slices[1].start[d] /\ slices[j].count[d] = slices[1].count[d]
    BY <1>6, AlikeAll
  <2>4. \A d \in 2 .. rank : slices[i].start[d] = slices[j].start[d] /\ slices[i].count[d] = slices[j].count[d]
    BY <2>2, <2>3
  <2>5. rank \in Nat \ {0}
    BY <1>1, <1>6
  <2>6. SubSeq(slices[i].start, 2, rank) = SubSeq(slices[j].start, 2, rank)
    BY <2>4, <2>5, SliceSequences, SameInner
  <2>7. SubSeq(slices[i].count, 2, rank) = SubSeq(slices[j].count, 2, rank)
    BY <2>4, <2>5, SliceSequences, SameInner
  <2>. QED
    BY <2>1, <2>6, <2>7
<1>7. Product(TotalCount) <= Product(dims)
  <2>1. ASSUME NEW d \in 1 .. rank PROVE TotalCount[d] <= dims[d]
    <3>1. rank > 0
      BY <1>1
    <3>2. CASE d = 1
      <4>1. TotalCount[1] = RowsOf(Len(slices)) /\ Len(slices) \in 1 .. Len(slices) /\ 1 \in 1 .. rank
        BY <1>1, <1>4, <3>1, TotalCountFacts
      <4>2. RowsOf(Len(slices)) <= slices[Len(slices)].start[1] + slices[Len(slices)].count[1]
        BY <1>4, <3>1, <4>1, RowsFacts
      <4>3. slices[Len(slices)].start[1] + slices[Len(slices)].count[1] <= dims[1]
        BY <1>5, <3>1, <4>1
      <4>4. RowsOf(Len(slices)) \in Nat
        BY <1>1, <1>4, <3>1, RowsFacts
      <4>5. slices[Len(slices)].start[1] \in Nat /\ slices[Len(slices)].count[1] \in Nat
        BY <4>1, SliceTypes
      <4>6. dims[1] \in Nat
        BY <1>1, <1>2, <4>1
      <4>7. \A a, b, x, y \in Nat : a <= b + x /\ b + x <= y => a <= y
        OBVIOUS
      <4>. QED
        BY <3>2, <4>1, <4>2, <4>3, <4>4, <4>5, <4>6, <4>7
    <3>3. CASE d # 1
      <4>1. d \in 2 .. rank
        BY <1>1, <3>3
      <4>2. TotalCount[d] = slices[1].count[d]
        BY <1>4, <4>1, TotalCountFacts
      <4>3. slices[1].start[d] + slices[1].count[d] <= dims[d]
        BY <1>1, <1>5, <3>1
      <4>4. slices[1].start[d] \in Nat /\ slices[1].count[d] \in Nat
        BY <1>1, SliceTypes
      <4>5. dims[d] \in Nat
        BY <1>1, <1>2
      <4>6. \A a, b, c \in Nat : a + b <= c => b <= c
        OBVIOUS
      <4>. QED
        BY <4>2, <4>3, <4>4, <4>5, <4>6
    <3>. QED
      BY <3>2, <3>3
  <2>2. TotalCount \in Seq(Nat) /\ Len(TotalCount) = rank
    BY <1>4, TotalCountFacts
  <2>. QED
    BY <1>1, <1>2, <2>1, <2>2, ProductMonotone
<1>8. dataset.kind # "fixed" => Product(TotalCount) <= MaxSize
  <2>1. Product(TotalCount) \in Nat
    BY <1>4, TotalCountFacts
  <2>2. Product(TotalCount) < Width
    BY <1>7, <2>1, DatasetFacts
  <2>3. Product(TotalCount) % Width = Product(TotalCount)
    BY <1>1, <2>1, <2>2, ModFacts
  <2>. QED
    BY <2>3 DEF NrEntries
<1>9. ASSUME Product(dims) > 0 PROVE RowFitsBuffer
  <2>1. Product(InnerCounts) <= Product(dims)
    <3>1. CASE rank = 0
      <4>1. Product(InnerCounts) = 1
        <5>1. InnerCounts = <<>>
          BY <3>1, InnerTypes
        <5>. QED
          BY <5>1, ProductEmpty
      <4>. QED
        BY <1>2, <1>9, <4>1
    <3>2. CASE rank > 0
      <4>1. 1 \in 1 .. Len(dims)
        BY <1>1, <3>2
      <4>2. dims[1] # 0
        BY <1>2, <1>9, <4>1, ProductZero
      <4>3. dims[1] > 0
        BY <1>2, <4>1, <4>2
      <4>4. InnerCounts \in Seq(Nat) /\ Len(InnerCounts) = rank - 1
        BY <3>2, InnerTypes
      <4>5. ASSUME NEW d \in 1 .. Len(InnerCounts) PROVE InnerCounts[d] <= dims[d + 1]
        <5>1. d \in 1 .. rank - 1 /\ d + 1 \in 1 .. rank
          BY <1>1, <4>4
        <5>2. InnerCounts[d] = slices[1].count[d + 1]
          BY <5>1, InnerTypes
        <5>3. slices[1].start[d + 1] + slices[1].count[d + 1] <= dims[d + 1]
          BY <1>1, <1>5, <3>2, <5>1
        <5>4. slices[1].start[d + 1] \in Nat /\ slices[1].count[d + 1] \in Nat
          BY <1>1, <5>1, SliceTypes
        <5>5. dims[d + 1] \in Nat
          BY <1>1, <1>2, <5>1
        <5>6. \A a, b, c \in Nat : a + b <= c => b <= c
          OBVIOUS
        <5>. QED
          BY <5>2, <5>3, <5>4, <5>5, <5>6
      <4>6. Len(dims) = Len(InnerCounts) + 1
        BY <1>1, <4>4
      <4>. QED
        BY <1>2, <4>3, <4>4, <4>5, <4>6, RowProduct
    <3>. QED
      BY <1>1, <3>1, <3>2
  <2>. QED
    BY <2>1, RowInBuffer DEF RowFitsBuffer
<1>. QED
  BY <1>1, <1>3, <1>5, <1>6, <1>8, <1>9 DEF SlicesRight

LEMMA RightApart ==
  ASSUME GoodRequest, rank > 0, SlicesRight
  PROVE  Apart
<1>1. ASSUME NEW i \in 2 .. Len(slices)
      PROVE  slices[i - 1].start[1] + slices[i - 1].count[1] <= slices[i].start[1]
  <2>1. i - 1 \in DOMAIN slices /\ i \in DOMAIN slices /\ i - 1 < i
    BY DEF GoodRequest
  <2>. QED
    BY <2>1 DEF SlicesRight
<1>. QED
  BY <1>1 DEF Apart

(* What is right passes every check, and is not divided by zero *)
LEMMA RightAccepted ==
  ASSUME IsDataset(dataset), GoodRequest, buffer_size \in 0 .. Width - 1, RankMatches,
         SlicesRight, RowFitsBuffer
  PROVE  /\ slices # <<>> /\ Divides /\ RowFits
         /\ \A file_dims \in FileDims : SlicesAccepted(file_dims)
         /\ dataset.kind # "fixed" => NrEntries <= MaxSize
<1> DEFINE p == Product(InnerCounts)
           e == dataset.element_size
<1>1. slices # <<>> /\ Len(slices) <= MaxSlices /\ rank <= MaxDims
  BY DEF SlicesRight
<1>2. /\ rank \in Nat /\ DOMAIN slices = 1 .. Len(slices) /\ Len(slices) \in Nat
      /\ Width \in Nat \ {0} /\ MaxSize \in Nat
  BY SliceConstants DEF GoodRequest
<1>3. p \in Nat /\ e \in Nat \ {0} /\ p * e <= buffer_size
  BY <1>1, InnerTypes, DatasetFacts DEF RowFitsBuffer
<1>4. NrElements = p % Width /\ RowBytes = (NrElements * e) % Width
  BY DEF NrElements, RowBytes
<1> HIDE DEF p, e
<1>5. NrElements = p /\ RowBytes = p * e
  <2>1. p * 1 <= p * e
    BY <1>3, TimesMonotone
  <2>2. p * 1 = p /\ p * e \in Nat
    BY <1>3
  <2>3. p < Width /\ p * e < Width
    BY <1>2, <1>3, <2>1, <2>2
  <2>4. p % Width = p
    BY <1>2, <1>3, <2>3, ModFacts
  <2>5. (p * e) % Width = p * e
    BY <1>2, <2>2, <2>3, ModFacts
  <2>. QED
    BY <1>4, <2>4, <2>5
<1>6. Divides /\ RowFits
  <2>1. CASE p = 0
    BY <1>5, <2>1 DEF Divides, RowFits
  <2>2. CASE p > 0
    <3>1. p * e \in Nat \ {0}
      BY <1>3, <2>2
    <3>2. buffer_size \div (p * e) >= 1
      BY <1>3, <3>1, DivFacts
    <3>3. ElementsPerBuffer >= 1
      BY <1>5, <2>2, <3>2 DEF ElementsPerBuffer
    <3>. QED
      BY <1>5, <3>1, <3>3 DEF Divides, RowFits
  <2>. QED
    BY <1>3, <2>1, <2>2
<1>8. rank > 0 => Apart
  BY RightApart
<1>9. ASSUME NEW file_dims \in FileDims PROVE SlicesAccepted(file_dims)
  <2>1. ASSUME rank > 0, NEW i \in 1 .. Len(slices) PROVE InFile(slices[i], file_dims)
    <3>1. ASSUME NEW d \in 1 .. rank
          PROVE  (slices[i].start[d] + slices[i].count[d]) % Width <= file_dims[d]
      <4>1. slices[i].start[d] + slices[i].count[d] <= dims[d]
        BY <1>2, <2>1 DEF SlicesRight
      <4>. QED
        BY <4>1, EndsDoNotWrap, FileDimsExact
    <3>. QED
      BY <3>1 DEF InFile
  <2>2. ASSUME rank > 0, NEW i \in 1 .. Len(slices), i > 1 PROVE Follows(slices[i - 1], slices[i])
    <3>1. i - 1 \in 1 .. Len(slices) /\ i \in 2 .. Len(slices) /\ 1 \in 1 .. rank /\ rank \in Nat \ {0}
      BY <1>2, <2>2
    <3>2. slices[i - 1].start[1] + slices[i - 1].count[1] <= slices[i].start[1]
      BY <1>8, <2>2, <3>1 DEF Apart
    <3>3. (slices[i - 1].start[1] + slices[i - 1].count[1]) % Width <= slices[i].start[1]
      BY <3>1, <3>2, EndsDoNotWrap
    <3>4. slices[i - 1].start[1] \in Nat /\ slices[i - 1].count[1] \in Nat
      BY <3>1, SliceTypes
    <3>5. slices[i].start[1] \in Nat
      BY <3>1, SliceTypes
    <3>6. slices[i].start[1] >= slices[i - 1].start[1]
      <4>1. \A a, b, c \in Nat : a + b <= c => c >= a
        OBVIOUS
      <4>. QED
        BY <3>2, <3>4, <3>5, <4>1
    <3>7. /\ SubSeq(slices[i - 1].start, 2, rank) = SubSeq(slices[i].start, 2, rank)
          /\ SubSeq(slices[i - 1].count, 2, rank) = SubSeq(slices[i].count, 2, rank)
      BY <1>2, <2>2, <3>1 DEF SlicesRight
    <3>8. /\ slices[i - 1].start \in Seq(Nat) /\ Len(slices[i - 1].start) = rank
          /\ slices[i - 1].count \in Seq(Nat) /\ Len(slices[i - 1].count) = rank
      BY <3>1, SliceSequences
    <3>9. /\ slices[i].start \in Seq(Nat) /\ Len(slices[i].start) = rank
          /\ slices[i].count \in Seq(Nat) /\ Len(slices[i].count) = rank
      BY SliceSequences
    <3>10. \A d \in 2 .. rank : slices[i - 1].start[d] = slices[i].start[d]
      BY <3>1, <3>7, <3>8, <3>9, SameInner
    <3>11. \A d \in 2 .. rank : slices[i - 1].count[d] = slices[i].count[d]
      BY <3>1, <3>7, <3>8, <3>9, SameInner
    <3>. QED
      BY <3>3, <3>6, <3>10, <3>11 DEF Follows
  <2>. QED
    BY <1>1, <1>2, <2>1, <2>2 DEF SlicesAccepted
<1>10. dataset.kind # "fixed" => NrEntries <= MaxSize
  <2>1. Product(TotalCount) \in Nat
    BY <1>1, <1>8, TotalCountFacts
  <2>2. /\ Product(TotalCount) % Width <= Product(TotalCount)
        /\ Product(TotalCount) % Width \in 0 .. Width - 1
    BY <1>2, <2>1, ModFacts
  <2>3. dataset.kind # "fixed" => Product(TotalCount) <= MaxSize
    BY DEF SlicesRight
  <2>. QED
    BY <1>2, <2>1, <2>2, <2>3 DEF NrEntries
<1>. QED
  BY <1>1, <1>6, <1>9, <1>10

-----------------------------------------------------------------------------
(* The inductive invariant *)

(* Before the header of the data is written *)
Before == {"open", "links", "object", "begin"}

(* A file, a dataset and slices are what the code may be given *)
InputInv ==
  /\ buffer_size \in 0 .. Width - 1
  /\ file = NoFile \/ file \in Files
  /\ pc \in {"object", "begin"} \/ Running => IsDataset(dataset)
  /\ pc = "begin" \/ Running => GoodRequest
  /\ pc # "end" => result = "none"
  /\ pc \in Before => slice_nr = 0 /\ offset_in_slice = 0 /\ selected = <<>>

(* What the checks of the slices leave *)
AcceptedInv ==
  Running =>
    /\ slices # <<>> /\ Divides /\ RowFits
    /\ elements_per_buffer = ElementsPerBuffer
    /\ rank > 0 => Apart

(* The place in the slices: nothing is left if rows are empty *)
CursorInv ==
  Running /\ rank > 0 =>
    /\ {elements_left_total, slice_nr, offset_in_slice, elements_per_buffer} \subseteq Nat
    /\ slice_nr <= Len(slices)
    /\ offset_in_slice > 0 => slice_nr < Len(slices) /\ offset_in_slice < slices[slice_nr + 1].count[1]
    /\ IF Product(InnerCounts) = 0 THEN elements_left_total = 0 ELSE elements_left_total = RowsLeft

(* The rows chosen for a buffer *)
ChoiceInv ==
  /\ Running => selected \in Seq([start : Nat, count : Nat]) /\ Len(selected) <= MaxSelections
  /\ pc = "select" =>
       /\ rank > 0 /\ Product(InnerCounts) > 0
       /\ {elements_left_in_buffer, nr_elements_to_read} \subseteq Nat
       /\ elements_left_in_buffer <= elements_left_total
       /\ nr_elements_to_read + elements_left_in_buffer <= elements_per_buffer
  /\ pc = "read" /\ rank > 0 => nr_elements_to_read \in Nat /\ nr_elements_to_read <= elements_per_buffer

SliceInv == InputInv /\ AcceptedInv /\ CursorInv /\ ChoiceInv /\ AcceptsExactly

(* All of it is about the input *)
LEMMA InputSame ==
  ASSUME UNCHANGED input
  PROVE  /\ dataset' = dataset /\ rank' = rank /\ slices' = slices /\ dims' = dims /\ buffer_size' = buffer_size
         /\ GoodRequest' <=> GoodRequest
         /\ Apart' <=> Apart
         /\ (Divides' <=> Divides) /\ (RowFits' <=> RowFits)
         /\ ElementsPerBuffer' = ElementsPerBuffer
         /\ Product(InnerCounts)' = Product(InnerCounts)
         /\ \A k : RowsOf(k)' = RowsOf(k)
         /\ Product(dims)' = Product(dims)
         /\ RankMatches' <=> RankMatches
         /\ SlicesRight' <=> SlicesRight
         /\ RowFitsBuffer' <=> RowFitsBuffer
<1>1. dataset' = dataset /\ request' = request /\ buffer_size' = buffer_size
  BY DEF input
<1>2. rank' = rank /\ slices' = slices /\ dims' = dims
  BY <1>1 DEF rank, slices, dims
<1>3. (GoodRequest' <=> GoodRequest) /\ (Apart' <=> Apart)
  BY <1>2 DEF GoodRequest, Apart
<1>4. InnerCounts' = InnerCounts
  BY <1>2 DEF InnerCounts
<1>5. Product(InnerCounts)' = Product(InnerCounts) /\ Product(dims)' = Product(dims)
  BY <1>2, <1>4
<1>6. NrElements' = NrElements /\ RowBytes' = RowBytes
  BY <1>1, <1>5 DEF NrElements, RowBytes
<1>7. ElementsPerBuffer' = ElementsPerBuffer
  BY <1>1, <1>6 DEF ElementsPerBuffer
<1>8. (Divides' <=> Divides) /\ (RowFits' <=> RowFits)
  BY <1>6, <1>7 DEF Divides, RowFits
<1>9. \A k : RowsOf(k)' = RowsOf(k)
  BY <1>2 DEF RowsOf
<1>10. TotalCount' = TotalCount
  BY <1>2, <1>4, <1>9 DEF TotalCount
<1>11. SlicesRight' <=> SlicesRight
  BY <1>1, <1>2, <1>10 DEF SlicesRight
<1>12. (RowFitsBuffer' <=> RowFitsBuffer) /\ (RankMatches' <=> RankMatches)
  BY <1>1, <1>2, <1>5 DEF RowFitsBuffer, RankMatches
<1>. QED
  BY <1>1, <1>2, <1>3, <1>5, <1>7, <1>8, <1>9, <1>11, <1>12

(* A return that promises nothing *)
LEMMA Ended ==
  ASSUME SliceInv, pc' = "end", result' \notin {"ok", "refused", "died"},
         UNCHANGED <<buffer_size, file>>
  PROVE  SliceInv'
<1>1. ~Running'
  BY DEF Running
<1>. QED
  BY <1>1 DEF SliceInv, InputInv, AcceptedInv, CursorInv, ChoiceInv, AcceptsExactly, Before

(* From object to object *)
LEMMA WalksOn ==
  ASSUME SliceInv, pc \in Before, pc' \in {"open", "links"},
         UNCHANGED <<buffer_size, file, result, slice_nr, offset_in_slice, selected>>
  PROVE  SliceInv'
<1>1. ~Running'
  BY DEF Running
<1>2. result = "none"
  BY DEF SliceInv, InputInv, Before
<1>. QED
  BY <1>1, <1>2 DEF SliceInv, InputInv, AcceptedInv, CursorInv, ChoiceInv, AcceptsExactly, Before

(* From read to packing to the next read *)
LEMMA RunsOn ==
  ASSUME SliceInv, Running, pc' \in {"next", "body"} \/ (pc = "select" /\ pc' = "read"),
         UNCHANGED <<input, result, elements_per_buffer, cursor, choice, file>>
  PROVE  SliceInv'
<1>1. Running' /\ pc' # "begin" /\ pc' # "select" /\ pc' # "end" /\ pc' \notin Before
  BY DEF Running, Before
<1>2. /\ elements_left_total' = elements_left_total /\ slice_nr' = slice_nr
      /\ offset_in_slice' = offset_in_slice /\ selected' = selected
      /\ nr_elements_to_read' = nr_elements_to_read /\ elements_per_buffer' = elements_per_buffer
      /\ elements_left_in_buffer' = elements_left_in_buffer /\ file' = file /\ result' = result
  BY DEF cursor, choice
<1>3. InputInv'
  BY <1>1, <1>2, InputSame DEF SliceInv, InputInv, Running
<1>4. AcceptedInv'
  BY <1>1, <1>2, InputSame DEF SliceInv, AcceptedInv
<1>5. RowsLeft' = RowsLeft
  BY <1>2, InputSame DEF RowsLeft
<1>6. CursorInv'
  BY <1>1, <1>2, <1>5, InputSame DEF SliceInv, CursorInv
<1>7. ChoiceInv'
  <2>1. ASSUME pc = "select", rank > 0 PROVE nr_elements_to_read \in Nat /\ nr_elements_to_read <= elements_per_buffer
    BY <2>1 DEF SliceInv, ChoiceInv, CursorInv, Running
  <2>. QED
    BY <1>1, <1>2, <2>1, InputSame DEF SliceInv, ChoiceInv
<1>8. AcceptsExactly'
  BY <1>1, <1>2, InputSame DEF SliceInv, AcceptsExactly, InputInv, Running
<1>. QED
  BY <1>3, <1>4, <1>6, <1>7, <1>8 DEF SliceInv

-----------------------------------------------------------------------------
(* Every step keeps it *)

(* Requests are refused only if they ought to be *)
LEMMA RefusesRight ==
  ASSUME SliceInv, DivideByZero \/ Refuse, UNCHANGED walk
  PROVE  SliceInv'
<1>1. pc = "begin" /\ pc' = "end" /\ result' \in {"refused", "died"} /\ UNCHANGED input /\ file' = file
  BY DEF DivideByZero, Refuse, End, walk
<1>2. ~Running'
  BY <1>1 DEF Running
<1>3. IsDataset(dataset) /\ GoodRequest /\ buffer_size \in 0 .. Width - 1
  BY <1>1 DEF SliceInv, InputInv
<1>4. ASSUME RankMatches, SlicesRight, RowFitsBuffer PROVE FALSE
  <2>1. /\ slices # <<>> /\ Divides /\ RowFits
        /\ \A file_dims \in FileDims : SlicesAccepted(file_dims)
        /\ dataset.kind # "fixed" => NrEntries <= MaxSize
    BY <1>3, <1>4, RightAccepted
  <2>2. CASE DivideByZero
    BY <2>1, <2>2 DEF DivideByZero, Divides
  <2>3. CASE Refuse
    <3>1. \/ slices = <<>> \/ ~RowFits \/ \E file_dims \in FileDims : ~SlicesAccepted(file_dims)
          \/ dataset.kind # "fixed" /\ NrEntries > MaxSize
      BY <2>3 DEF Refuse
    <3>2. CASE dataset.kind # "fixed" /\ NrEntries > MaxSize
      <4>1. MaxSize \in Nat /\ Width \in Nat \ {0}
        BY SliceConstants
      <4>2. rank > 0 => Apart
        BY <1>3, <1>4, RightApart
      <4>3. Product(TotalCount) \in Nat
        BY <1>3, <2>1, <4>2, TotalCountFacts
      <4>4. Product(TotalCount) % Width \in 0 .. Width - 1
        BY <4>1, <4>3, ModFacts
      <4>. QED
        BY <2>1, <3>2, <4>1, <4>4 DEF NrEntries
    <3>. QED
      BY <2>1, <3>1, <3>2
  <2>. QED
    BY <2>2, <2>3
<1>5. AcceptsExactly'
  BY <1>1, <1>2, <1>4, InputSame DEF AcceptsExactly
<1>. QED
  BY <1>1, <1>2, <1>3, <1>5, InputSame DEF SliceInv, InputInv, AcceptedInv, CursorInv, ChoiceInv, Before

LEMMA PerBufferType ==
  ASSUME GoodRequest, slices # <<>>, IsDataset(dataset), buffer_size \in 0 .. Width - 1, Divides
  PROVE  ElementsPerBuffer \in Nat
<1>1. Product(InnerCounts) \in Nat /\ dataset.element_size \in Nat
  BY InnerTypes, DatasetFacts
<1>2. Width \in Nat \ {0}
  BY SliceConstants
<1>3. NrElements \in 0 .. Width - 1
  BY <1>1, <1>2, ModFacts DEF NrElements
<1>4. NrElements * dataset.element_size \in Nat
  BY <1>1, <1>2, <1>3
<1>5. RowBytes \in 0 .. Width - 1
  BY <1>2, <1>4, ModFacts DEF RowBytes
<1>6. CASE NrElements = 0
  BY <1>6 DEF ElementsPerBuffer
<1>7. CASE NrElements > 0
  <2>1. RowBytes \in Nat \ {0} /\ buffer_size \in Nat
    BY <1>2, <1>5, <1>7 DEF Divides
  <2>2. buffer_size \div RowBytes \in Nat
    BY <2>1, DivFacts
  <2>. QED
    BY <1>7, <2>2 DEF ElementsPerBuffer
<1>. QED
  BY <1>2, <1>3, <1>6, <1>7

(* What multislice_init makes of elements_left_total *)
ElementsLeft ==
  IF \E d \in 1 .. rank : TotalCount[d] = 0 THEN 0 ELSE IF rank = 0 THEN 1 ELSE TotalCount[1]

LEMMA LeftAtFirst ==
  ASSUME GoodRequest, slices # <<>>, rank > 0, Apart
  PROVE  /\ ElementsLeft \in Nat
         /\ IF Product(InnerCounts) = 0 THEN ElementsLeft = 0 ELSE ElementsLeft = RowsOf(Len(slices))
<1>1. /\ TotalCount \in Seq(Nat) /\ Len(TotalCount) = rank
      /\ TotalCount[1] = RowsOf(Len(slices))
      /\ \A d \in 2 .. rank : TotalCount[d] = slices[1].count[d]
  BY TotalCountFacts
<1>2. rank \in Nat /\ RowsOf(Len(slices)) \in Nat
  BY RowsFacts DEF GoodRequest
<1>3. /\ InnerCounts \in Seq(Nat) /\ Len(InnerCounts) = rank - 1
      /\ \A d \in 1 .. rank - 1 : InnerCounts[d] = slices[1].count[d + 1]
  BY InnerTypes
<1>4. CASE Product(InnerCounts) = 0
  <2>1. PICK d \in 1 .. rank - 1 : InnerCounts[d] = 0
    BY <1>3, <1>4, ProductZero
  <2>2. d + 1 \in 2 .. rank /\ d + 1 \in 1 .. rank
    BY <1>2
  <2>3. TotalCount[d + 1] = 0
    BY <1>1, <1>3, <2>1, <2>2
  <2>. QED
    BY <1>4, <2>2, <2>3 DEF ElementsLeft
<1>5. CASE Product(InnerCounts) # 0
  <2>1. ASSUME NEW d \in 1 .. rank, TotalCount[d] = 0 PROVE d = 1
    <3>1. SUFFICES ASSUME d # 1 PROVE FALSE
      OBVIOUS
    <3>2. d \in 2 .. rank /\ d - 1 \in 1 .. rank - 1 /\ (d - 1) + 1 = d
      BY <1>2, <3>1
    <3>3. InnerCounts[d - 1] = 0
      <4>1. InnerCounts[d - 1] = slices[1].count[(d - 1) + 1]
        BY <1>3, <3>2, Zenon
      <4>2. TotalCount[d] = slices[1].count[d]
        BY <1>1, <3>2, Zenon
      <4>. QED
        BY <2>1, <3>2, <4>1, <4>2, Zenon
    <3>4. d - 1 \in 1 .. Len(InnerCounts)
      BY <1>3, <3>2
    <3>. QED
      BY <1>3, <1>5, <3>3, <3>4, ProductZero
  <2>2. CASE \E d \in 1 .. rank : TotalCount[d] = 0
    BY <1>1, <1>2, <1>5, <2>1, <2>2 DEF ElementsLeft
  <2>3. CASE ~\E d \in 1 .. rank : TotalCount[d] = 0
    BY <1>1, <1>2, <1>5, <2>3 DEF ElementsLeft
  <2>. QED
    BY <2>2, <2>3
<1>. QED
  BY <1>4, <1>5

LEMMA StartsRight ==
  ASSUME SliceInv, Start, UNCHANGED walk
  PROVE  SliceInv'
<1>1. /\ pc = "begin" /\ pc' = "next" /\ slices # <<>> /\ Divides /\ RowFits
      /\ dataset.kind # "fixed" => NrEntries <= MaxSize
      /\ elements_per_buffer' = ElementsPerBuffer
      /\ elements_left_total' = ElementsLeft
      /\ UNCHANGED input /\ UNCHANGED <<result, slice_nr, offset_in_slice, choice, file>>
  BY DEF Start, ElementsLeft, walk
<1>2. PICK file_dims \in FileDims : SlicesAccepted(file_dims)
  BY DEF Start
<1>3. /\ IsDataset(dataset) /\ GoodRequest /\ buffer_size \in 0 .. Width - 1 /\ result = "none"
      /\ slice_nr = 0 /\ offset_in_slice = 0 /\ selected = <<>> /\ (file = NoFile \/ file \in Files)
  BY <1>1 DEF SliceInv, InputInv, Before
<1>4. Running' /\ pc' # "select" /\ pc' # "read" /\ pc' \notin Before /\ pc' # "end" /\ selected' = selected
  BY <1>1 DEF Running, Before, choice
<1>5. buffer_size \in Nat /\ MaxSelections \in Nat
  BY <1>3, SliceConstants
<1>6. rank > 0 => Apart
  BY <1>2, <1>3, AcceptedApart
<1>7. InputInv'
  BY <1>1, <1>3, <1>4, InputSame DEF InputInv
<1>8. AcceptedInv'
  BY <1>1, <1>6, InputSame DEF AcceptedInv
<1>9. CursorInv'
  <2>1. SUFFICES ASSUME rank > 0
                 PROVE  /\ {ElementsLeft, 0, ElementsPerBuffer} \subseteq Nat
                        /\ 0 <= Len(slices)
                        /\ IF Product(InnerCounts) = 0 THEN ElementsLeft = 0
                           ELSE ElementsLeft = RowsOf(Len(slices)) - RowsOf(0) - 0
    BY <1>1, <1>3, InputSame DEF CursorInv, RowsLeft
  <2>2. ElementsPerBuffer \in Nat
    BY <1>1, <1>3, PerBufferType
  <2>3. RowsOf(0) = 0 /\ RowsOf(Len(slices)) \in Nat /\ Len(slices) \in Nat
    BY <1>3, <1>6, <2>1, RowsFacts DEF GoodRequest
  <2>. QED
    BY <1>1, <1>3, <1>6, <2>1, <2>2, <2>3, LeftAtFirst
<1>10. ChoiceInv'
  BY <1>3, <1>4, <1>5 DEF ChoiceInv
<1>11. AcceptsExactly'
  <2>1. RankMatches => SlicesRight /\ (Product(dims) > 0 => RowFitsBuffer)
    BY <1>1, <1>2, <1>3, <1>5, AcceptedRight
  <2>. QED
    BY <1>1, <1>3, <2>1, InputSame DEF AcceptsExactly
<1>. QED
  BY <1>7, <1>8, <1>9, <1>10, <1>11 DEF SliceInv

LEMMA MinFacts ==
  ASSUME NEW a \in Nat, NEW b \in Nat
  PROVE  MinSize(a, b) \in Nat /\ MinSize(a, b) <= a /\ MinSize(a, b) <= b
  BY DEF MinSize

LEMMA SelectsNext ==
  ASSUME SliceInv, SelectNext, UNCHANGED walk
  PROVE  SliceInv'
<1>1. pc = "next" /\ Running /\ UNCHANGED input /\ elements_per_buffer' = elements_per_buffer /\ file' = file
  BY DEF SelectNext, Running, header, walk
<1>2. CASE elements_left_total = 0 /\ End("ok")
  <2>1. pc' = "end" /\ ~Running' /\ result' = "ok"
    BY <1>2 DEF End, Running
  <2>2. AcceptsExactly'
    BY <1>1, <2>1, InputSame DEF SliceInv, AcceptsExactly
  <2>. QED
    BY <1>1, <2>1, <2>2, InputSame DEF SliceInv, InputInv, AcceptedInv, CursorInv, ChoiceInv, Before
<1>3. CASE /\ rank = 0 /\ pc' = "read"
           /\ UNCHANGED <<result, slice_nr, offset_in_slice, elements_left_in_buffer, selected>>
  <2>1. Running' /\ pc' \notin Before /\ pc' # "end" /\ pc' # "select" /\ pc' # "begin" /\ ~(rank' > 0)
    BY <1>1, <1>3, InputSame DEF Running, Before
  <2>2. InputInv'
    BY <1>1, <1>3, <2>1, InputSame DEF SliceInv, InputInv
  <2>3. AcceptedInv'
    BY <1>1, <1>3, <2>1, InputSame DEF SliceInv, AcceptedInv
  <2>4. CursorInv' /\ ChoiceInv'
    BY <1>1, <1>3, <2>1 DEF SliceInv, CursorInv, ChoiceInv
  <2>5. AcceptsExactly'
    BY <1>1, <1>3, <2>1, InputSame DEF SliceInv, AcceptsExactly
  <2>. QED
    BY <2>2, <2>3, <2>4, <2>5 DEF SliceInv
<1>4. CASE /\ elements_left_total > 0 /\ rank > 0 /\ pc' = "select"
           /\ nr_elements_to_read' = 0 /\ selected' = <<>>
           /\ elements_left_in_buffer' = MinSize(elements_per_buffer, elements_left_total)
           /\ UNCHANGED <<result, cursor>>
  <2>1. Running' /\ pc' \notin Before /\ pc' # "end" /\ pc' # "read" /\ pc' # "begin"
    BY <1>1, <1>4 DEF Running, Before
  <2>2. /\ elements_left_total' = elements_left_total /\ slice_nr' = slice_nr
        /\ offset_in_slice' = offset_in_slice /\ result' = result
    BY <1>4 DEF cursor
  <2>3. elements_left_total \in Nat /\ elements_per_buffer \in Nat /\ Product(InnerCounts) # 0
    BY <1>1, <1>4 DEF SliceInv, CursorInv
  <2>4. Product(InnerCounts) \in Nat
    BY <1>1, InnerTypes DEF SliceInv, InputInv, AcceptedInv
  <2>5. InputInv'
    BY <1>1, <2>1, <2>2, InputSame DEF SliceInv, InputInv
  <2>6. AcceptedInv'
    BY <1>1, <2>1, InputSame DEF SliceInv, AcceptedInv
  <2>7. RowsLeft' = RowsLeft
    BY <1>1, <2>2, InputSame DEF RowsLeft
  <2>8. CursorInv'
    BY <1>1, <2>1, <2>2, <2>7, InputSame DEF SliceInv, CursorInv
  <2>9. ChoiceInv'
    <3>1. MaxSelections \in Nat
      BY SliceConstants
    <3>2. /\ MinSize(elements_per_buffer, elements_left_total) \in Nat
          /\ MinSize(elements_per_buffer, elements_left_total) <= elements_per_buffer
          /\ MinSize(elements_per_buffer, elements_left_total) <= elements_left_total
      BY <2>3, MinFacts
    <3>3. 0 + MinSize(elements_per_buffer, elements_left_total) <= elements_per_buffer
      BY <2>3, <3>2
    <3>4. Product(InnerCounts) > 0
      BY <2>3, <2>4
    <3>. QED
      BY <1>1, <1>4, <2>1, <2>2, <3>1, <3>2, <3>3, <3>4, InputSame DEF ChoiceInv
  <2>10. AcceptsExactly'
    BY <1>1, <2>1, <2>2, InputSame DEF SliceInv, AcceptsExactly
  <2>. QED
    BY <2>5, <2>6, <2>8, <2>9, <2>10 DEF SliceInv
<1>. QED
  BY <1>2, <1>3, <1>4 DEF SelectNext

LEMMA SelectsSlice ==
  ASSUME SliceInv, SelectSlice, UNCHANGED walk
  PROVE  SliceInv'
<1> DEFINE k == slice_nr + 1
           s == slices[k]
           c == s.count[1]
           n == ElementsToRead(s)
<1>1. pc = "select" /\ pc' = pc /\ Running /\ Running' /\ pc' \notin Before /\ pc' # "end"
  BY DEF SelectSlice, Running, Before
<1>2. /\ UNCHANGED input /\ elements_per_buffer' = elements_per_buffer /\ file' = file /\ result' = result
      /\ elements_left_in_buffer > 0 /\ Len(selected) < MaxSelections
  BY DEF SelectSlice, Selecting, header, walk
<1>3. /\ GoodRequest /\ rank > 0 /\ Apart /\ slices # <<>> /\ rank \in Nat /\ Len(slices) \in Nat
      /\ Product(InnerCounts) > 0 /\ Product(InnerCounts) \in Nat
  BY <1>1, InnerTypes DEF SliceInv, InputInv, AcceptedInv, ChoiceInv, GoodRequest
<1>4. /\ elements_left_total \in Nat /\ slice_nr \in Nat /\ offset_in_slice \in Nat /\ elements_per_buffer \in Nat
      /\ slice_nr <= Len(slices)
      /\ offset_in_slice > 0 => slice_nr < Len(slices) /\ offset_in_slice < c
      /\ elements_left_total = RowsLeft
  BY <1>1, <1>3 DEF SliceInv, CursorInv
<1>5. /\ elements_left_in_buffer \in Nat /\ nr_elements_to_read \in Nat
      /\ elements_left_in_buffer <= elements_left_total
      /\ nr_elements_to_read + elements_left_in_buffer <= elements_per_buffer
      /\ selected \in Seq([start : Nat, count : Nat])
  BY <1>1 DEF SliceInv, ChoiceInv
<1>6. RowsLeft = RowsOf(Len(slices)) - RowsOf(slice_nr) - offset_in_slice
  BY DEF RowsLeft
<1>7. slice_nr < Len(slices)
  <2>1. SUFFICES ASSUME slice_nr = Len(slices) PROVE FALSE
    BY <1>3, <1>4
  <2>2. offset_in_slice = 0
    BY <1>3, <1>4, <2>1
  <2>3. RowsOf(Len(slices)) \in Nat
    BY <1>3, RowsFacts
  <2>4. RowsLeft = 0
    BY <1>6, <2>1, <2>2, <2>3
  <2>. QED
    BY <1>2, <1>4, <1>5, <2>4
<1>8. k \in 1 .. Len(slices) /\ 1 \in 1 .. rank /\ k - 1 = slice_nr
  BY <1>3, <1>4, <1>7
<1>9. c \in Nat /\ s.start[1] \in Nat /\ offset_in_slice <= c
  BY <1>3, <1>4, <1>8, SliceTypes
<1>10. n \in Nat /\ n <= c - offset_in_slice /\ n <= elements_left_in_buffer
  <2>1. c - offset_in_slice \in Nat
    BY <1>4, <1>9
  <2>. QED
    BY <1>5, <2>1, MinFacts DEF ElementsToRead
<1>11. RowsOf(k) = RowsOf(slice_nr) + c
  BY <1>3, <1>8, RowsFacts
<1>12. RowsOf(k) \in Nat /\ RowsOf(slice_nr) \in Nat /\ RowsOf(Len(slices)) \in Nat
  BY <1>3, <1>4, <1>8, RowsFacts
<1>13. /\ selected' = IF n > 0 THEN Append(selected, [start |-> s.start[1] + offset_in_slice, count |-> n])
                       ELSE selected
       /\ offset_in_slice' = IF offset_in_slice + n >= c THEN 0 ELSE offset_in_slice + n
       /\ slice_nr' = IF offset_in_slice + n >= c THEN k ELSE slice_nr
       /\ elements_left_in_buffer' = elements_left_in_buffer - n
       /\ elements_left_total' = elements_left_total - n
       /\ nr_elements_to_read' = nr_elements_to_read + n
  BY DEF SelectSlice, SliceDone
<1>14. InputInv'
  BY <1>1, <1>2, InputSame DEF SliceInv, InputInv
<1>15. AcceptedInv'
  BY <1>1, <1>2, InputSame DEF SliceInv, AcceptedInv
<1>16. AcceptsExactly'
  BY <1>1, <1>2, InputSame DEF SliceInv, AcceptsExactly
<1> HIDE DEF k, c, n
<1>17. elements_left_total' \in Nat
  BY <1>4, <1>5, <1>10, <1>13
<1>18. /\ slice_nr' \in Nat /\ offset_in_slice' \in Nat /\ slice_nr' <= Len(slices)
       /\ offset_in_slice' > 0 => slice_nr' = slice_nr /\ slice_nr' < Len(slices) /\ offset_in_slice' < c
       /\ elements_left_total' = RowsOf(Len(slices)) - RowsOf(slice_nr') - offset_in_slice'
  <2>1. CASE offset_in_slice + n >= c
    <3>1. offset_in_slice + n = c /\ slice_nr' = k /\ offset_in_slice' = 0
      BY <1>4, <1>9, <1>10, <1>13, <2>1
    <3>2. RowsOf(slice_nr') = RowsOf(slice_nr) + c
      BY <1>11, <3>1
    <3>3. elements_left_total' = RowsOf(Len(slices)) - RowsOf(slice_nr) - offset_in_slice - n
      BY <1>4, <1>6, <1>13
    <3>4. elements_left_total' = RowsOf(Len(slices)) - RowsOf(slice_nr') - offset_in_slice'
      BY <1>4, <1>9, <1>10, <1>12, <3>1, <3>2, <3>3
    <3>. QED
      BY <1>3, <1>8, <3>1, <3>4
  <2>2. CASE ~(offset_in_slice + n >= c)
    <3>1. slice_nr' = slice_nr /\ offset_in_slice' = offset_in_slice + n /\ offset_in_slice' < c
      BY <1>4, <1>9, <1>10, <1>13, <2>2
    <3>2. elements_left_total' = RowsOf(Len(slices)) - RowsOf(slice_nr) - offset_in_slice - n
      BY <1>4, <1>6, <1>13
    <3>3. elements_left_total' = RowsOf(Len(slices)) - RowsOf(slice_nr') - offset_in_slice'
      BY <1>4, <1>9, <1>10, <1>12, <3>1, <3>2
    <3>. QED
      BY <1>4, <1>7, <1>10, <3>1, <3>3
  <2>. QED
    BY <2>1, <2>2
<1>19. RowsLeft' = RowsOf(Len(slices)) - RowsOf(slice_nr') - offset_in_slice'
  <2>1. slices' = slices
    BY <1>2, InputSame
  <2>. QED
    BY <2>1 DEF RowsLeft, RowsOf
<1>20. CursorInv'
  <2>1. slices' = slices /\ rank' = rank /\ Product(InnerCounts)' = Product(InnerCounts)
    BY <1>2, InputSame
  <2>2. offset_in_slice' > 0 => slice_nr' < Len(slices) /\ offset_in_slice' < slices[slice_nr' + 1].count[1]
    BY <1>18 DEF c, k
  <2>3. Product(InnerCounts) # 0
    BY <1>3
  <2>. QED
    BY <1>2, <1>4, <1>17, <1>18, <1>19, <2>1, <2>2, <2>3 DEF CursorInv
<1>21. selected' \in Seq([start : Nat, count : Nat]) /\ Len(selected') <= MaxSelections
  <2>1. MaxSelections \in Nat /\ Len(selected) \in Nat
    BY <1>5, SliceConstants
  <2>2. CASE n > 0
    <3> DEFINE x == [start |-> s.start[1] + offset_in_slice, count |-> n]
    <3>1. x \in [start : Nat, count : Nat]
      BY <1>4, <1>9, <1>10, SMTT(40)
    <3>2. selected' = Append(selected, x)
      BY <1>13, <2>2
    <3> HIDE DEF x
    <3>3. Len(Append(selected, x)) = Len(selected) + 1 /\ Append(selected, x) \in Seq([start : Nat, count : Nat])
      BY <1>5, <3>1, AppendProperties
    <3>. QED
      BY <1>2, <2>1, <3>2, <3>3
  <2>3. CASE ~(n > 0)
    BY <1>2, <1>5, <1>13, <2>1, <2>3
  <2>. QED
    BY <2>2, <2>3
<1>22. ChoiceInv'
  <2>1. /\ elements_left_in_buffer' \in Nat /\ nr_elements_to_read' \in Nat
        /\ elements_left_in_buffer' <= elements_left_total'
        /\ nr_elements_to_read' + elements_left_in_buffer' <= elements_per_buffer
    BY <1>4, <1>5, <1>10, <1>13
  <2>2. rank' = rank /\ Product(InnerCounts)' = Product(InnerCounts)
    BY <1>2, InputSame
  <2>3. pc' # "read"
    BY <1>1
  <2>. QED
    BY <1>2, <1>3, <1>21, <2>1, <2>2, <2>3 DEF ChoiceInv
<1>. QED
  BY <1>14, <1>15, <1>16, <1>20, <1>22 DEF SliceInv

LEMMA OpensDataset ==
  ASSUME SliceInv, OpenDataset
  PROVE  SliceInv'
<1>1. /\ pc = "open" /\ pc' = "object" /\ Target \in DOMAIN file /\ file[Target].type = "dataset"
      /\ dataset' = file[Target].dataset
      /\ UNCHANGED <<buffer_size, result, slice_nr, offset_in_slice, selected, file>>
  BY DEF OpenDataset, cursor, choice
<1>2. file \in Files
  BY <1>1 DEF SliceInv, InputInv, NoFile
<1>3. IsDataset(file[Target].dataset)
  BY <1>1, <1>2, ObjectConstants
<1>4. IsDataset(dataset')
  BY <1>1, <1>3
<1>5. ~Running' /\ result = "none"
  BY <1>1 DEF Running, SliceInv, InputInv
<1>. QED
  BY <1>1, <1>4, <1>5 DEF SliceInv, InputInv, AcceptedInv, CursorInv, ChoiceInv, AcceptsExactly, Before

LEMMA PacksDataset ==
  ASSUME SliceInv, PackDataset, UNCHANGED walk
  PROVE  SliceInv'
<1>1. /\ pc = "object" /\ file' = file /\ result = "none"
      /\ UNCHANGED <<dataset, buffer_size, slice_nr, offset_in_slice, selected>>
  BY DEF PackDataset, cursor, choice, walk, SliceInv, InputInv
<1>2. CASE Len(dims) > MaxDims /\ End("refused") /\ UNCHANGED request
  <2>1. pc' = "end" /\ ~Running' /\ result' = "refused"
    BY <1>2 DEF End, Running
  <2>2. rank' = rank /\ dims' = dims /\ slices' = slices
    BY <1>1, <1>2 DEF rank, dims, slices
  <2>3. ASSUME RankMatches', SlicesRight' PROVE FALSE
    <3>1. rank' = Len(dims') /\ rank' <= MaxDims
      BY <2>3 DEF RankMatches, SlicesRight
    <3>2. Len(dims) \in Nat /\ MaxDims \in Nat
      BY <1>1, DatasetFacts, SliceConstants DEF SliceInv, InputInv
    <3>. QED
      BY <1>2, <2>2, <3>1, <3>2
  <2>. QED
    BY <1>1, <2>1, <2>3 DEF SliceInv, InputInv, AcceptedInv, CursorInv, ChoiceInv, AcceptsExactly, Before
<1>3. CASE End("no_data")
  BY <1>1, <1>3, Ended DEF End
<1>4. CASE /\ request' = [rank |-> Len(dims),
                          slices |-> <<[start |-> [d \in DOMAIN dims |-> 0], count |-> dims]>>]
           /\ pc' = "begin" /\ UNCHANGED result
  <2>1. IsDataset(dataset)
    BY <1>1 DEF SliceInv, InputInv
  <2>2. /\ dims \in Seq(Nat) /\ Len(dims) \in Nat /\ DOMAIN dims = 1 .. Len(dims)
        /\ \A d \in 1 .. Len(dims) : dims[d] \in Nat /\ dims[d] < Width
    BY <2>1, DatasetFacts
  <2> DEFINE zeros == [d \in DOMAIN dims |-> 0]
             whole == [start |-> zeros, count |-> dims]
  <2>3. zeros \in Seq(Nat) /\ Len(zeros) = Len(dims) /\ \A d \in 1 .. Len(dims) : zeros[d] = 0
    BY <2>2
  <2>4. rank' = Len(dims) /\ slices' = <<whole>>
    BY <1>4 DEF rank, slices
  <2> HIDE DEF zeros
  <2>5. whole \in SliceRecords /\ whole.start = zeros /\ whole.count = dims
    BY <2>2, <2>3 DEF SliceRecords
  <2>6. \A d \in 1 .. Len(dims) : zeros[d] + dims[d] < Width
    BY <2>2, <2>3
  <2> HIDE DEF whole
  <2>7. /\ <<whole>> \in Seq(SliceRecords) /\ Len(<<whole>>) = 1 /\ <<whole>>[1] = whole
        /\ \A i \in 1 .. 1 : i = 1
    BY <2>5
  <2>8. GoodRequest'
    BY <2>2, <2>3, <2>4, <2>5, <2>6, <2>7 DEF GoodRequest
  <2>9. ~Running' /\ pc' # "end"
    BY <1>4 DEF Running
  <2>. QED
    BY <1>1, <1>4, <2>1, <2>8, <2>9
      DEF SliceInv, InputInv, AcceptedInv, CursorInv, ChoiceInv, AcceptsExactly, Before
<1>. QED
  BY <1>2, <1>3, <1>4 DEF PackDataset

LEMMA ReturnsToGroup ==
  ASSUME SliceInv, DatasetPacked
  PROVE  SliceInv'
<1>1. pc' = "links" /\ result' = "none" /\ slice_nr' = 0 /\ offset_in_slice' = 0 /\ selected' = <<>>
      /\ buffer_size' = buffer_size /\ file' = file
  BY DEF DatasetPacked, walk
<1>2. ~Running'
  BY <1>1 DEF Running
<1>. QED
  BY <1>1, <1>2 DEF SliceInv, InputInv, AcceptedInv, CursorInv, ChoiceInv, AcceptsExactly, Before

LEMMA RequestsGood ==
  ASSUME request \in Requests
  PROVE  GoodRequest
<1>1. /\ rank \in Nat /\ slices \in Seq(SliceRecords) /\ Width \in Nat \ {0}
      /\ \A s \in ToSet(slices) :
           /\ Len(s.start) = rank /\ Len(s.count) = rank
           /\ \A d \in 1 .. rank : {s.start[d], s.count[d]} \subseteq 0 .. (Width \div 2) - 1
  BY SliceConstants DEF rank, slices, SliceRecords
<1>2. ASSUME NEW i \in 1 .. Len(slices) PROVE slices[i] \in ToSet(slices)
  BY <1>1, <1>2 DEF ToSet
<1>3. \A a, b \in 0 .. (Width \div 2) - 1 : a + b < Width
  <2>1. Width \div 2 \in Int /\ Width = 2 * (Width \div 2) + (Width % 2) /\ Width % 2 \in 0 .. 1
    BY <1>1
  <2>. QED
    BY <1>1, <2>1
<1>4. ASSUME NEW i \in 1 .. Len(slices)
      PROVE  /\ Len(slices[i].start) = rank /\ Len(slices[i].count) = rank
             /\ \A d \in 1 .. rank : slices[i].start[d] + slices[i].count[d] < Width
  <2>1. slices[i] \in ToSet(slices)
    BY <1>2
  <2>. QED
    BY <1>1, <1>3, <2>1
<1>. QED
  BY <1>1, <1>4 DEF GoodRequest

LEMMA SliceInvInit == WalkInit => SliceInv
<1> SUFFICES ASSUME WalkInit PROVE SliceInv
  OBVIOUS
<1>1. /\ pc \in {"begin", "open"} /\ result = "none" /\ slice_nr = 0 /\ offset_in_slice = 0 /\ selected = <<>>
      /\ buffer_size \in BufferSizes /\ (file = NoFile \/ file \in Files)
      /\ pc = "begin" => dataset \in Datasets /\ request \in Requests
  BY DEF WalkInit, Init, Fresh
<1>2. buffer_size \in 0 .. Width - 1
  BY <1>1, SliceConstants
<1>3. pc = "begin" => IsDataset(dataset) /\ GoodRequest
  BY <1>1, RequestsGood, SliceConstants
<1>4. ~Running /\ pc # "object"
  BY <1>1 DEF Running
<1>. QED
  BY <1>1, <1>2, <1>3, <1>4 DEF SliceInv, InputInv, AcceptedInv, CursorInv, ChoiceInv, AcceptsExactly, Before

LEMMA WalkKeeps ==
  ASSUME SliceInv, Walk
  PROVE  SliceInv'
<1>1. CASE OpenFails
  BY <1>1, Ended DEF OpenFails, End, input, walk
<1>2. CASE WalkFails
  BY <1>2, Ended DEF WalkFails, End, input, walk
<1>3. ASSUME pc = "open", Continue, UNCHANGED <<input, header, cursor, choice, packing, file, max_depth, stack>>
      PROVE  SliceInv'
  <2>1. UNCHANGED <<buffer_size, file, slice_nr, offset_in_slice, selected>>
    BY <1>3 DEF input, cursor, choice
  <2>2. CASE End("walked")
    BY <2>1, <2>2, Ended DEF End
  <2>3. CASE pc' = "links" /\ UNCHANGED result
    BY <1>3, <2>1, <2>3, WalksOn DEF Before
  <2>. QED
    BY <1>3, <2>2, <2>3 DEF Continue
<1>4. CASE OpenTooDeep
  BY <1>3, <1>4 DEF OpenTooDeep
<1>5. CASE OpenUnknown
  BY <1>3, <1>5 DEF OpenUnknown
<1>6. CASE OpenGroup
  <2>1. /\ pc = "open" /\ pc' = "links"
        /\ UNCHANGED <<buffer_size, file, result, slice_nr, offset_in_slice, selected>>
    BY <1>6 DEF OpenGroup, input, cursor, choice
  <2>. QED
    BY <2>1, WalksOn DEF Before
<1>7. CASE OpenDataset
  BY <1>7, OpensDataset
<1>8. CASE VisitLink
  <2>1. /\ pc = "links" /\ pc' \in {"open", "links"}
        /\ UNCHANGED <<buffer_size, file, result, slice_nr, offset_in_slice, selected>>
    BY <1>8 DEF VisitLink, input, cursor, choice
  <2>. QED
    BY <2>1, WalksOn DEF Before
<1>9. CASE GroupPacked
  <2>1. pc = "links" /\ UNCHANGED <<buffer_size, file, slice_nr, offset_in_slice, selected>>
    BY <1>9 DEF GroupPacked, input, cursor, choice
  <2>2. CASE End("walked")
    BY <2>1, <2>2, Ended DEF End
  <2>3. CASE UNCHANGED <<pc, result>>
    BY <2>1, <2>3, WalksOn DEF Before
  <2>. QED
    BY <1>9, <2>2, <2>3 DEF GroupPacked
<1>10. CASE DatasetPacked
  BY <1>10, ReturnsToGroup
<1>. QED
  BY <1>1, <1>2, <1>4, <1>5, <1>6, <1>7, <1>8, <1>9, <1>10 DEF Walk

LEMMA SlicesKeep ==
  ASSUME SliceInv, Next, UNCHANGED walk
  PROVE  SliceInv'
<1>0. file' = file
  BY DEF walk
<1>1. CASE PackDataset
  BY <1>1, PacksDataset
<1>2. CASE DivideByZero \/ Refuse
  BY <1>2, RefusesRight
<1>3. CASE Start
  BY <1>3, StartsRight
<1>4. CASE SelectNext
  BY <1>4, SelectsNext
<1>5. CASE SelectSlice
  BY <1>5, SelectsSlice
<1>6. CASE Selected
  <2>1. /\ pc = "select" /\ pc' = "read" /\ Running
        /\ UNCHANGED <<input, result, elements_per_buffer, cursor, choice, file>>
    BY <1>0, <1>6 DEF Selected, header, Running
  <2>. QED
    BY <2>1, RunsOn
<1>7. CASE Read
  <2>1. pc = "read" /\ Running /\ UNCHANGED <<input, elements_per_buffer, cursor, choice, file>>
    BY <1>0, <1>7 DEF Read, header, Running
  <2>2. CASE pc' = "body" /\ UNCHANGED result
    BY <2>1, <2>2, RunsOn
  <2>3. CASE End("failed")
    BY <2>1, <2>3, Ended DEF End, input
  <2>. QED
    BY <1>7, <2>2, <2>3 DEF Read
<1>8. CASE PackBin \/ PackElement
  <2>1. /\ pc = "body" /\ pc' = "body" /\ Running
        /\ UNCHANGED <<input, result, elements_per_buffer, cursor, choice, file>>
    BY <1>0, <1>8 DEF PackBin, PackElement, header, Running
  <2>. QED
    BY <2>1, RunsOn
<1>9. CASE Packed
  <2>1. /\ pc' = "next" /\ Running
        /\ UNCHANGED <<input, result, elements_per_buffer, cursor, choice, file>>
    BY <1>0, <1>9 DEF Packed, header, Running
  <2>. QED
    BY <2>1, RunsOn
<1>10. CASE PackNested
  BY <1>0, <1>10, Ended DEF PackNested, End, input
<1>11. CASE Fail
  BY <1>0, <1>11, Ended DEF Fail, End, input
<1>. QED
  BY <1>1, <1>2, <1>3, <1>4, <1>5, <1>6, <1>7, <1>8, <1>9, <1>10, <1>11 DEF Next

LEMMA StutterKeeps ==
  ASSUME SliceInv, UNCHANGED allvars
  PROVE  SliceInv'
<1>1. /\ UNCHANGED input /\ UNCHANGED <<pc, result, elements_per_buffer, cursor, choice, file>>
      /\ UNCHANGED <<elements_left_total, slice_nr, offset_in_slice, elements_left_in_buffer, selected, nr_elements_to_read>>
  BY DEF allvars, vars, walk, header, cursor, choice
<1>2. (Running' <=> Running) /\ RowsLeft' = RowsLeft
  BY <1>1, InputSame DEF Running, RowsLeft
<1>3. InputInv'
  BY <1>1, <1>2, InputSame DEF SliceInv, InputInv
<1>4. AcceptedInv'
  BY <1>1, <1>2, InputSame DEF SliceInv, AcceptedInv
<1>5. CursorInv'
  BY <1>1, <1>2, InputSame DEF SliceInv, CursorInv
<1>6. ChoiceInv'
  BY <1>1, <1>2, InputSame DEF SliceInv, ChoiceInv
<1>7. AcceptsExactly'
  BY <1>1, <1>2, InputSame DEF SliceInv, AcceptsExactly
<1>. QED
  BY <1>3, <1>4, <1>5, <1>6, <1>7 DEF SliceInv

LEMMA SliceInvariant == WalkSpec => []SliceInv
<1>1. SliceInv /\ [WalkNext]_allvars => SliceInv'
  <2> SUFFICES ASSUME SliceInv, [WalkNext]_allvars PROVE SliceInv'
    OBVIOUS
  <2>1. CASE Walk
    BY <2>1, WalkKeeps
  <2>2. CASE Next /\ UNCHANGED walk
    BY <2>2, SlicesKeep
  <2>3. CASE UNCHANGED allvars
    BY <2>3, StutterKeeps
  <2>. QED
    BY <2>1, <2>2, <2>3 DEF WalkNext
<1>. QED
  BY <1>1, SliceInvInit, PTL DEF WalkSpec

-----------------------------------------------------------------------------
(* Results *)

(* multislice_init accepts exactly the requests that are inside the dataset, *)
(* ascending and apart, whose rows fit in the buffer, for datasets and       *)
(* requests of any rank and size and for any width of hsize_t: the checks of *)
(* neighbours are enough for all pairs, and no wrapped product lets a wrong  *)
(* request through or turns a right one away.  Sums cannot wrap, since the   *)
(* Java binding refuses negative starts and counts.                          *)
THEOREM SlicesAcceptedExactly == WalkSpec => []AcceptsExactly
<1>1. SliceInv => AcceptsExactly
  BY DEF SliceInv
<1>. QED
  BY <1>1, SliceInvariant, PTL

(* H5Dread is never asked for more than the read buffer holds, whatever the  *)
(* rank of the request and the wrapping of the bytes of a row.               *)
THEOREM ReadAlwaysFits == WalkSpec => []ReadFits
<1>1. SliceInv => ReadFits
  <2> SUFFICES ASSUME SliceInv, pc = "read", CanRead
               PROVE  Cardinality(Selection) * dataset.element_size <= buffer_size
    BY DEF ReadFits
  <2>1. Running
    BY DEF Running
  <2>2. /\ IsDataset(dataset) /\ GoodRequest /\ slices # <<>> /\ buffer_size \in 0 .. Width - 1 /\ RowFits
        /\ elements_per_buffer = ElementsPerBuffer
        /\ rank > 0 => nr_elements_to_read \in Nat /\ nr_elements_to_read <= elements_per_buffer
    BY <2>1 DEF SliceInv, InputInv, AcceptedInv, ChoiceInv
  <2>3. buffer_size \in Nat
    BY <2>2, SliceConstants
  <2>. QED
    BY <2>2, <2>3, ReadInBuffer
<1>. QED
  BY <1>1, SliceInvariant, PTL

(* The assertions of multislice_select_next_buffer_data hold for any list of *)
(* slices, empty ones included, and any buffer: the cursor never passes the  *)
(* last slice while rows are left, and what is left is what was not selected.*)
THEOREM CursorAlwaysSound == WalkSpec => []CursorSound
<1>1. SliceInv => CursorSound
  <2> SUFFICES ASSUME SliceInv, Running, rank > 0, Product(InnerCounts) > 0
               PROVE  /\ Len(selected) <= MaxSelections
                      /\ elements_left_total = RowsLeft
                      /\ elements_left_total > 0 => slice_nr < Len(slices)
                      /\ pc = "select" => elements_left_in_buffer <= elements_left_total
                      /\ offset_in_slice > 0 => offset_in_slice < slices[slice_nr + 1].count[1]
    BY DEF CursorSound
  <2>1. /\ elements_left_total \in Nat /\ slice_nr \in Nat /\ offset_in_slice \in Nat
        /\ slice_nr <= Len(slices)
        /\ offset_in_slice > 0 => slice_nr < Len(slices) /\ offset_in_slice < slices[slice_nr + 1].count[1]
        /\ Product(InnerCounts) # 0 => elements_left_total = RowsLeft
    BY DEF SliceInv, CursorInv
  <2>2. GoodRequest /\ slices # <<>> /\ Apart /\ Len(slices) \in Nat
    BY DEF SliceInv, InputInv, AcceptedInv, GoodRequest
  <2>3. elements_left_total = RowsLeft
    BY <2>1
  <2>4. ASSUME elements_left_total > 0 PROVE slice_nr < Len(slices)
    <3>1. SUFFICES ASSUME slice_nr = Len(slices) PROVE FALSE
      BY <2>1, <2>2
    <3>2. offset_in_slice = 0
      BY <2>1, <2>2, <3>1
    <3>3. RowsOf(Len(slices)) \in Nat
      BY <2>2, RowsFacts
    <3>4. RowsLeft = 0
      BY <3>1, <3>2, <3>3 DEF RowsLeft
    <3>. QED
      BY <2>3, <2>4, <3>4
  <2>5. Len(selected) <= MaxSelections /\ (pc = "select" => elements_left_in_buffer <= elements_left_total)
    BY DEF SliceInv, ChoiceInv
  <2>. QED
    BY <2>1, <2>3, <2>4, <2>5
<1>. QED
  BY <1>1, SliceInvariant, PTL
=============================================================================
