-------------------------- MODULE SliceOutputProofs --------------------------
(***************************************************************************)
(* Proofs about what MultiSlice sends, as PackObject runs it, for datasets *)
(* and requests of any rank and size: the header that is written before    *)
(* anything is read announces what is packed later, and the bytes are      *)
(* those of the slices, in their order.                                    *)
(***************************************************************************)
EXTENDS MultiSliceProofs

-----------------------------------------------------------------------------
(* Sequences put together from sequences, through what they are on the way *)

Joins(g, s, T) ==
  /\ g \in [0 .. Len(s) -> Seq(T)]
  /\ g[0] = <<>> /\ \A n \in 1 .. Len(s) : g[n] = g[n - 1] \o s[n]

LEMMA EmptyIsUnit ==
  ASSUME NEW T, NEW s \in Seq(T)
  PROVE  <<>> \o s = s /\ s \o <<>> = s /\ <<>> \in Seq(T)
<1>1. <<>> \in Seq(T) /\ Len(<<>>) = 0
  OBVIOUS
<1>. QED
  BY <1>1, ConcatEmptySeq

LEMMA NatConcat == \A x, y, z \in Seq(Nat) : (x \o y) \o z = x \o (y \o z)
<1> DEFINE T == Nat
<1> HIDE DEF T
<1>1. \A x, y, z \in Seq(T) : (x \o y) \o z = x \o (y \o z)
  BY ConcatAssociative
<1>. QED
  BY <1>1, Zenon DEF T

LEMMA FlattenIs ==
  ASSUME NEW T, NEW s \in Seq(Seq(T)), NEW g, Joins(g, s, T)
  PROVE  FlattenSeq(s) = g[Len(s)]
<1> DEFINE F(p) == [i \in 1 .. Len(s) |-> IF i = 1 THEN s[i] ELSE p[i - 1] \o s[i]]
           p == CHOOSE p : p = F(p)
           h == [i \in 1 .. Len(s) |-> g[i]]
           S == { k \in 0 .. Len(s) : k > 0 => p[k] = g[k] }
<1>1. Len(s) \in Nat /\ \A n \in 1 .. Len(s) : s[n] \in Seq(T)
  OBVIOUS
<1>2. CASE Len(s) = 0
  <2>1. s = <<>> /\ FlattenSeq(s) = s
    BY <1>2 DEF FlattenSeq
  <2>. QED
    BY <1>2, <2>1 DEF Joins
<1>3. CASE Len(s) # 0
  <2>1. ASSUME NEW i \in 1 .. Len(s) PROVE h[i] = IF i = 1 THEN s[i] ELSE h[i - 1] \o s[i]
    <3>1. CASE i = 1
      <4>1. g[i] = g[i - 1] \o s[i] /\ g[0] = <<>>
        BY DEF Joins
      <4>2. i - 1 = 0 /\ s[i] \in Seq(T)
        BY <1>1, <3>1
      <4>3. g[i] = <<>> \o s[i]
        BY <4>1, <4>2
      <4>4. g[i] = s[i]
        BY <4>2, <4>3, EmptyIsUnit
      <4>. QED
        BY <3>1, <4>4
    <3>2. CASE i # 1
      <4>1. i - 1 \in 1 .. Len(s)
        BY <1>1, <3>2
      <4>2. h[i] = g[i] /\ h[i - 1] = g[i - 1]
        BY <4>1
      <4>. QED
        BY <3>2, <4>2 DEF Joins
    <3>. QED
      BY <3>1, <3>2
  <2>2. h = F(h)
    <3> HIDE DEF h
    <3>1. DOMAIN h = 1 .. Len(s) /\ h = [i \in 1 .. Len(s) |-> h[i]]
      BY DEF h
    <3>. QED
      BY <2>1, <3>1
  <2>3. p = F(p)
    <3> HIDE DEF h
    <3>. QED
      BY <2>2
  <2>4. FlattenSeq(s) = p[Len(s)]
    BY <1>3 DEF FlattenSeq
  <2>5. p[1] = s[1] /\ \A n \in 2 .. Len(s) : p[n] = p[n - 1] \o s[n]
    <3> HIDE DEF p
    <3>1. DOMAIN p = 1 .. Len(s) /\ \A i \in 1 .. Len(s) : p[i] = IF i = 1 THEN s[i] ELSE p[i - 1] \o s[i]
      BY <2>3
    <3>2. 1 \in 1 .. Len(s)
      BY <1>1, <1>3
    <3>3. \A n \in 2 .. Len(s) : n \in 1 .. Len(s) /\ n # 1
      BY <1>1
    <3>. QED
      BY <3>1, <3>2, <3>3
  <2> HIDE DEF p, F
  <2>6. 0 \in S
    BY <1>1
  <2>7. ASSUME NEW k \in 0 .. Len(s) - 1, k \in S PROVE k + 1 \in S
    <3>1. k + 1 \in 1 .. Len(s) /\ (k + 1) - 1 = k
      BY <1>1
    <3>2. g[k + 1] = g[k] \o s[k + 1]
      BY <3>1 DEF Joins
    <3>3. CASE k = 0
      <4>1. g[0] = <<>> /\ k + 1 = 1
        BY <3>3 DEF Joins
      <4>3. g[1] = <<>> \o s[1] /\ s[1] \in Seq(T)
        BY <1>1, <3>1, <3>2, <3>3, <4>1
      <4>4. g[1] = s[1]
        BY <4>3, EmptyIsUnit
      <4>2. p[1] = g[1]
        BY <2>5, <4>4
      <4>. QED
        BY <1>1, <3>1, <3>3, <4>2
    <3>4. CASE k > 0
      <4>1. p[k] = g[k] /\ k + 1 \in 2 .. Len(s)
        BY <2>7, <3>1, <3>4
      <4>2. p[k + 1] = p[k] \o s[k + 1]
        BY <2>5, <3>1, <4>1
      <4>3. p[k + 1] = g[k + 1]
        BY <3>2, <4>1, <4>2, Zenon
      <4>. QED
        BY <3>1, <4>3
    <3>. QED
      BY <3>3, <3>4
  <2>8. Len(s) \in S => p[Len(s)] = g[Len(s)]
    BY <1>1, <1>3
  <2> HIDE DEF S
  <2>9. 0 .. Len(s) \subseteq S
    BY <1>1, <2>6, <2>7, Induction
  <2>. QED
    BY <1>1, <2>4, <2>8, <2>9
<1>. QED
  BY <1>2, <1>3

LEMMA FlattenOf ==
  ASSUME NEW T, NEW s \in Seq(Seq(T))
  PROVE  \E g : Joins(g, s, T) /\ FlattenSeq(s) = g[Len(s)]
<1> DEFINE step == [n \in 1 .. Len(s) |-> [x \in Seq(T) |-> x \o s[n]]]
<1>1. Len(s) \in Nat /\ \A n \in 1 .. Len(s) : s[n] \in Seq(T)
  OBVIOUS
<1>2. \A n \in 1 .. Len(s), x \in Seq(T) : x \o s[n] \in Seq(T)
  BY <1>1
<1>3. step \in [1 .. Len(s) -> [Seq(T) -> Seq(T)]]
  BY <1>2
<1>4. \A n \in 1 .. Len(s), x \in Seq(T) : step[n][x] = x \o s[n]
  OBVIOUS
<1>5. <<>> \in Seq(T)
  OBVIOUS
<1> HIDE DEF step
<1>6. PICK g \in [0 .. Len(s) -> Seq(T)] : Computes(g, Len(s), <<>>, step)
  BY <1>1, <1>3, <1>5, RecursionExists
<1>7. \A n \in 1 .. Len(s) : n - 1 \in 0 .. Len(s)
  BY <1>1
<1>8. Joins(g, s, T)
  <2>1. ASSUME NEW n \in 1 .. Len(s) PROVE g[n] = g[n - 1] \o s[n]
    <3>1. g[n - 1] \in Seq(T)
      BY <1>7
    <3>2. g[n] = step[n][g[n - 1]]
      BY <1>6 DEF Computes
    <3>. QED
      BY <1>4, <3>1, <3>2
  <2>. QED
    BY <1>6, <2>1 DEF Joins, Computes
<1>. QED
  BY <1>8, FlattenIs

Upto(s, k) == [i \in 1 .. k |-> s[i]]

LEMMA JoinTwice ==
  \A T : \A x, y, z \in Seq(T) : (x \o y) \o z = x \o (y \o z)
<1>1. SUFFICES ASSUME NEW T, NEW x \in Seq(T), NEW y \in Seq(T), NEW z \in Seq(T)
               PROVE  (x \o y) \o z = x \o (y \o z)
  OBVIOUS
<1>. QED
  BY ConcatAssociative

(* What the first k of s are put together to, for every k *)
LEMMA FlattenPrefixes ==
  ASSUME NEW T, NEW s \in Seq(Seq(T)), NEW g, Joins(g, s, T), NEW k \in 0 .. Len(s)
  PROVE  FlattenSeq(Upto(s, k)) = g[k]
<1> DEFINE t == [i \in 1 .. k |-> s[i]]
           h == [n \in 0 .. k |-> g[n]]
<1>1. t \in Seq(Seq(T)) /\ Len(t) = k
  OBVIOUS
<1>2. h \in [0 .. k -> Seq(T)] /\ h[0] = <<>> /\ h[k] = g[k]
  <2>1. g \in [0 .. Len(s) -> Seq(T)] /\ g[0] = <<>>
    BY DEF Joins
  <2>2. 0 \in 0 .. k /\ k \in 0 .. k /\ \A n \in 0 .. k : n \in 0 .. Len(s)
    OBVIOUS
  <2>3. \A n \in 0 .. k : g[n] \in Seq(T)
    BY <2>1, <2>2
  <2>. QED
    BY <2>1, <2>2, <2>3
<1>3. ASSUME NEW n \in 1 .. k PROVE h[n] = h[n - 1] \o t[n]
  <2>1. n \in 1 .. Len(s) /\ n \in 0 .. k /\ n - 1 \in 0 .. k
    OBVIOUS
  <2>2. h[n] = g[n] /\ h[n - 1] = g[n - 1] /\ t[n] = s[n]
    BY <2>1
  <2>. QED
    BY <2>1, <2>2 DEF Joins
<1> HIDE DEF t, h
<1>4. Joins(h, t, T)
  BY <1>1, <1>2, <1>3 DEF Joins
<1>5. FlattenSeq(t) = g[k]
  BY <1>1, <1>2, <1>4, FlattenIs
<1>. QED
  BY <1>5 DEF t, Upto

LEMMA FlattenType ==
  ASSUME NEW T, NEW s \in Seq(Seq(T))
  PROVE  FlattenSeq(s) \in Seq(T)
<1>1. PICK g : Joins(g, s, T) /\ FlattenSeq(s) = g[Len(s)]
  BY FlattenOf
<1>. QED
  BY <1>1 DEF Joins

LEMMA FlattenConcat ==
  ASSUME NEW T, NEW s \in Seq(Seq(T)), NEW t \in Seq(Seq(T))
  PROVE  FlattenSeq(s \o t) = FlattenSeq(s) \o FlattenSeq(t)
<1> DEFINE u == s \o t
           L == Len(s)
           M == Len(t)
<1>1. /\ u \in Seq(Seq(T)) /\ Len(u) = L + M /\ L \in Nat /\ M \in Nat
      /\ \A i \in 1 .. L : u[i] = s[i]
      /\ \A i \in 1 .. M : u[L + i] = t[i] /\ t[i] \in Seq(T)
  <2>1. /\ u \in Seq(Seq(T)) /\ Len(u) = L + M /\ L \in Nat /\ M \in Nat
        /\ \A i \in 1 .. L + M : u[i] = IF i <= L THEN s[i] ELSE t[i - L]
    BY ConcatProperties
  <2>2. \A i \in 1 .. M : t[i] \in Seq(T)
    OBVIOUS
  <2> HIDE DEF u, L, M
  <2>3. ASSUME NEW i \in 1 .. M PROVE u[L + i] = t[i]
    <3>1. L + i \in 1 .. L + M /\ ~(L + i <= L) /\ (L + i) - L = i
      BY <2>1
    <3>. QED
      BY <2>1, <3>1
  <2>. QED
    BY <2>1, <2>2, <2>3
<1>2. Upto(u, L) = s
  <2>1. s = [i \in 1 .. L |-> s[i]]
    OBVIOUS
  <2>. QED
    BY <1>1, <2>1 DEF Upto
<1> HIDE DEF u
<1>3. PICK g : Joins(g, u, T) /\ FlattenSeq(u) = g[Len(u)]
  BY <1>1, FlattenOf
<1>4. PICK h : Joins(h, t, T) /\ FlattenSeq(t) = h[M]
  BY FlattenOf
<1>5. FlattenSeq(s) = g[L]
  <2>1. L \in 0 .. Len(u)
    BY <1>1
  <2>2. FlattenSeq(Upto(u, L)) = g[L]
    BY <1>1, <1>3, <2>1, FlattenPrefixes
  <2>. QED
    BY <1>2, <2>2
<1> DEFINE a == FlattenSeq(s)
           S == { k \in 0 .. M : g[L + k] = a \o h[k] }
<1>6. a \in Seq(T)
  BY FlattenType
<1> HIDE DEF a, L, M
<1>7. 0 \in S
  <2>1. h[0] = <<>> /\ L + 0 = L /\ 0 \in 0 .. M
    BY <1>1, <1>4 DEF Joins
  <2>2. g[L] = a
    BY <1>5 DEF a
  <2>3. a \o <<>> = a
    BY <1>6, EmptyIsUnit
  <2>4. g[L + 0] = a \o h[0]
    BY <2>1, <2>2, <2>3, Zenon
  <2>. QED
    BY <2>1, <2>4
<1>8. ASSUME NEW k \in 0 .. M - 1, k \in S PROVE k + 1 \in S
  <2>1. /\ k + 1 \in 1 .. M /\ (k + 1) - 1 = k /\ k \in 0 .. M
        /\ L + (k + 1) \in 1 .. Len(u) /\ (L + (k + 1)) - 1 = L + k
    BY <1>1
  <2>2. h[k + 1] = h[k] \o t[k + 1] /\ h[k] \in Seq(T)
    <3>1. M = Len(t)
      BY DEF M
    <3>2. h[k + 1] = h[(k + 1) - 1] \o t[k + 1] /\ h[k] \in Seq(T)
      BY <1>4, <2>1, <3>1 DEF Joins
    <3>. QED
      BY <2>1, <3>2, Zenon
  <2>3. g[L + (k + 1)] = g[L + k] \o u[L + (k + 1)]
    <3>1. g[L + (k + 1)] = g[(L + (k + 1)) - 1] \o u[L + (k + 1)]
      BY <1>3, <2>1 DEF Joins
    <3>. QED
      BY <2>1, <3>1, Zenon
  <2>4. u[L + (k + 1)] = t[k + 1] /\ t[k + 1] \in Seq(T)
    <3>1. \A i \in 1 .. M : u[L + i] = t[i] /\ t[i] \in Seq(T)
      BY <1>1
    <3>2. k + 1 \in 1 .. M
      BY <2>1
    <3>. QED
      BY <3>1, <3>2, Zenon
  <2>5. g[L + k] = a \o h[k]
    BY <1>8
  <2>6. (a \o h[k]) \o t[k + 1] = a \o (h[k] \o t[k + 1])
    <3>1. a \in Seq(T) /\ h[k] \in Seq(T) /\ t[k + 1] \in Seq(T)
      BY <1>6, <2>2, <2>4
    <3> HIDE DEF S
    <3>2. \A x, y, z \in Seq(T) : (x \o y) \o z = x \o (y \o z)
      BY JoinTwice, SMTT(60)
    <3>. QED
      BY <3>1, <3>2, Zenon
  <2>7. g[L + (k + 1)] = a \o h[k + 1]
    BY <2>2, <2>3, <2>4, <2>5, <2>6, Zenon
  <2>. QED
    BY <2>1, <2>7
<1>9. M \in S => g[L + M] = a \o h[M]
  OBVIOUS
<1> HIDE DEF S
<1>10. 0 .. M \subseteq S
  BY <1>1, <1>7, <1>8, Induction
<1>. QED
  BY <1>1, <1>3, <1>4, <1>9, <1>10 DEF a, u

(* If all of them are of one length *)
LEMMA FlattenLength ==
  ASSUME NEW T, NEW s \in Seq(Seq(T)), NEW m \in Nat, \A i \in 1 .. Len(s) : Len(s[i]) = m
  PROVE  Len(FlattenSeq(s)) = Len(s) * m
<1>1. PICK g : Joins(g, s, T) /\ FlattenSeq(s) = g[Len(s)]
  BY FlattenOf
<1>2. Len(s) \in Nat /\ \A i \in 1 .. Len(s) : s[i] \in Seq(T)
  OBVIOUS
<1> DEFINE S == { k \in 0 .. Len(s) : Len(g[k]) = k * m }
<1>3. 0 \in S
  <2>1. Len(g[0]) = 0
    BY <1>1 DEF Joins
  <2>. QED
    BY <1>2, <2>1
<1>4. ASSUME NEW k \in 0 .. Len(s) - 1, k \in S PROVE k + 1 \in S
  <2>1. k + 1 \in 1 .. Len(s) /\ (k + 1) - 1 = k /\ k \in 0 .. Len(s)
    BY <1>2
  <2>2. g[k + 1] = g[k] \o s[k + 1] /\ g[k] \in Seq(T) /\ s[k + 1] \in Seq(T)
    <3>1. g[k + 1] = g[(k + 1) - 1] \o s[k + 1] /\ g[k] \in Seq(T)
      BY <1>1, <2>1 DEF Joins
    <3>2. s[k + 1] \in Seq(T)
      BY <1>2, <2>1
    <3>. QED
      BY <2>1, <3>1, <3>2, Zenon
  <2>3. Len(g[k] \o s[k + 1]) = Len(g[k]) + Len(s[k + 1])
    BY <2>2, ConcatProperties
  <2>4. Len(g[k]) = k * m /\ Len(s[k + 1]) = m
    BY <1>4, <2>1
  <2>5. Len(g[k + 1]) = k * m + m
    BY <2>2, <2>3, <2>4, Zenon
  <2>6. k * m + m = (k + 1) * m
    OBVIOUS
  <2>. QED
    BY <2>1, <2>5, <2>6
<1>5. Len(s) \in S => Len(g[Len(s)]) = Len(s) * m
  OBVIOUS
<1> HIDE DEF S
<1>6. 0 .. Len(s) \subseteq S
  BY <1>2, <1>3, <1>4, Induction
<1>. QED
  BY <1>1, <1>2, <1>5, <1>6

-----------------------------------------------------------------------------
(* Counting *)

LEMMA ProductRest ==
  ASSUME NEW s \in Seq(Nat), NEW t \in Seq(Nat), Len(t) = Len(s) + 1,
         \A d \in 1 .. Len(s) : t[d + 1] = s[d]
  PROVE  Product(t) = t[1] * Product(s)
<1>1. PICK g : Multiplies(g, s) /\ Product(s) = g[Len(s)]
  BY ProductOf
<1>2. PICK h : Multiplies(h, t) /\ Product(t) = h[Len(t)]
  BY ProductOf
<1> DEFINE S == { k \in 0 .. Len(s) : h[k + 1] = t[1] * g[k] }
<1>3. Len(s) \in Nat /\ t[1] \in Nat
  OBVIOUS
<1>4. 0 \in S
  <2>1. g[0] = 1 /\ h[0] = 1 /\ h[1] = h[0] * t[1]
    BY <1>1, <1>2, <1>3 DEF Multiplies
  <2>. QED
    BY <1>3, <2>1
<1>5. ASSUME NEW k \in 0 .. Len(s) - 1, k \in S PROVE k + 1 \in S
  <2>1. /\ k + 1 \in 1 .. Len(s) /\ (k + 1) - 1 = k /\ k \in 0 .. Len(s)
        /\ k + 2 \in 1 .. Len(t) /\ (k + 2) - 1 = k + 1 /\ (k + 1) + 1 = k + 2
    BY <1>3
  <2>2. g[k + 1] = g[k] * s[k + 1] /\ h[k + 2] = h[k + 1] * t[k + 2]
    BY <1>1, <1>2, <2>1 DEF Multiplies
  <2>3. g[k] \in Nat /\ s[k + 1] \in Nat
    <3>1. g[k] \in Nat
      BY <1>1, <2>1 DEF Multiplies
    <3>2. s[k + 1] \in Nat
      BY <2>1, SeqElement
    <3>. QED
      BY <3>1, <3>2
  <2>4. t[k + 2] = s[k + 1]
    BY <2>1
  <2>5. h[k + 1] = t[1] * g[k]
    BY <1>5
  <2>6. \A x, y, z \in Nat : (x * y) * z = x * (y * z)
    OBVIOUS
  <2>7. (t[1] * g[k]) * s[k + 1] = t[1] * (g[k] * s[k + 1])
    BY <1>3, <2>3, <2>6
  <2>. QED
    BY <2>1, <2>2, <2>4, <2>5, <2>7
<1>6. Len(s) \in S => h[Len(s) + 1] = t[1] * g[Len(s)]
  OBVIOUS
<1> HIDE DEF S
<1>7. 0 .. Len(s) \subseteq S
  BY <1>3, <1>4, <1>5, Induction
<1>. QED
  BY <1>1, <1>2, <1>3, <1>6, <1>7

LEMMA TotalAppend ==
  ASSUME NEW s \in Seq(Nat), NEW x \in Nat
  PROVE  /\ Total(<<>>) = 0 /\ Total(s) \in Nat
         /\ Total(Append(s, x)) = (Total(s) + x) % Width
<1> DEFINE c == Append(s, x)
           L == Len(s) + 1
<1>1. /\ L \in Nat /\ c \in [1 .. L -> Nat] /\ c[L] = x /\ L - 1 = Len(s) /\ Len(s) \in Nat
      /\ \A i \in 1 .. Len(s) : c[i] = s[i]
  <2>1. /\ c \in Seq(Nat) /\ Len(c) = Len(s) + 1 /\ Len(s) \in Nat
        /\ \A i \in 1 .. Len(s) : c[i] = s[i]
        /\ c[Len(s) + 1] = x
    BY AppendProperties
  <2> HIDE DEF c
  <2>2. c \in [1 .. L -> Nat]
    BY <2>1
  <2>. QED
    BY <2>1, <2>2
<1>2. c = [i \in 1 .. L |-> c[i]] /\ s = [i \in 1 .. Len(s) |-> c[i]]
  <2>1. s = [i \in 1 .. Len(s) |-> s[i]]
    OBVIOUS
  <2> HIDE DEF c
  <2>. QED
    BY <1>1, <2>1
<1>3. <<>> = [i \in 1 .. 0 |-> c[i]]
  <2> HIDE DEF c
  <2>1. [i \in 1 .. 0 |-> c[i]] \in Seq(Nat) /\ Len([i \in 1 .. 0 |-> c[i]]) = 0
    OBVIOUS
  <2>. QED
    BY <2>1, EmptySeq
<1> HIDE DEF c
<1>4. PICK g : Adds(g, L, c) /\ \A k \in 0 .. L : Total([i \in 1 .. k |-> c[i]]) = g[k]
  BY <1>1, TotalsOf
<1>5. L \in 0 .. L /\ Len(s) \in 0 .. L /\ 0 \in 0 .. L /\ L \in 1 .. L
  BY <1>1
<1>6. Total(c) = g[L] /\ Total(s) = g[Len(s)] /\ Total(<<>>) = g[0]
  BY <1>2, <1>3, <1>4, <1>5, Zenon
<1>7. g[L] = (g[L - 1] + c[L]) % Width /\ g[0] = 0 /\ g[Len(s)] \in Nat
  BY <1>4, <1>5 DEF Adds
<1>. QED
  BY <1>1, <1>6, <1>7 DEF c

(* Bins of m bytes but for the last: how many d bytes take *)
LEMMA BinsTaken ==
  ASSUME NEW m \in Nat \ {0}, NEW d \in Nat, NEW l \in Nat, NEW left \in Nat, l * m + left = d
  PROVE  /\ left > 0 => l + 1 <= (d + m - 1) \div m
         /\ left > 0 /\ left <= m => (d + m - 1) \div m = l + 1
         /\ (m - 1) \div m = 0
<1> DEFINE q == (d + m - 1) \div m
           r == (d + m - 1) % m
<1>1. d + m - 1 \in Nat
  OBVIOUS
<1>2. q \in Nat /\ r \in 0 .. m - 1 /\ d + m - 1 = m * q + r
  BY <1>1
<1>3. (m - 1) \div m = 0
  <2> DEFINE u == (m - 1) \div m
             v == (m - 1) % m
  <2>1. u \in Nat /\ v \in 0 .. m - 1 /\ m - 1 = m * u + v
    OBVIOUS
  <2> HIDE DEF u, v
  <2>2. ASSUME u >= 1 PROVE FALSE
    <3>1. m * 1 <= m * u
      BY <2>1, <2>2, TimesMonotone
    <3>. QED
      BY <2>1, <3>1
  <2>3. u = 0
    BY <2>1, <2>2
  <2>. QED
    BY <2>3 DEF u
<1> HIDE DEF q, r
<1>4. ASSUME left > 0, q <= l PROVE FALSE
  <2>1. m * q <= m * l
    BY <1>2, <1>4, TimesMonotone
  <2>2. m * l = l * m
    OBVIOUS
  <2>. QED
    BY <1>2, <1>4, <2>1, <2>2
<1>5. ASSUME left > 0, left <= m, q >= l + 2 PROVE FALSE
  <2>1. m * (l + 2) <= m * q
    BY <1>2, <1>5, TimesMonotone
  <2>2. m * (l + 2) = l * m + 2 * m
    OBVIOUS
  <2>. QED
    BY <1>2, <1>5, <2>1, <2>2
<1>6. left > 0 => l + 1 <= q
  BY <1>2, <1>4
<1>7. left > 0 /\ left <= m => q = l + 1
  BY <1>2, <1>5, <1>6
<1>. QED
  BY <1>3, <1>6, <1>7 DEF q

-----------------------------------------------------------------------------
(* The order of the file *)

(* How many of S come before e *)
RankIn(S, e) == Cardinality({ f \in S : f < e })

LEMMA RankFacts ==
  ASSUME NEW S \in SUBSET Nat, IsFiniteSet(S)
  PROVE  /\ Cardinality(S) \in Nat
         /\ \A e \in S : RankIn(S, e) \in 0 .. Cardinality(S) - 1
         /\ \A e, f \in S : e < f => RankIn(S, e) < RankIn(S, f)
<1> DEFINE B(e) == { f \in S : f < e }
<1>1. Cardinality(S) \in Nat
  BY FS_CardinalityType
<1>2. ASSUME NEW e \in S PROVE IsFiniteSet(B(e)) /\ Cardinality(B(e)) \in Nat /\ Cardinality(B(e)) < Cardinality(S)
  <2>1. B(e) \in SUBSET S /\ e \notin B(e)
    OBVIOUS
  <2> HIDE DEF B
  <2>2. IsFiniteSet(B(e)) /\ Cardinality(B(e)) <= Cardinality(S) /\ (Cardinality(S) = Cardinality(B(e)) => S = B(e))
    BY <2>1, FS_Subset
  <2>3. Cardinality(B(e)) \in Nat
    BY <2>2, FS_CardinalityType
  <2>. QED
    BY <1>1, <2>1, <2>2, <2>3
<1>3. ASSUME NEW e \in S, NEW f \in S, e < f PROVE Cardinality(B(e)) < Cardinality(B(f))
  <2>0. \A x, y, z \in Nat : x < y /\ y < z => x < z
    OBVIOUS
  <2>1. B(e) \in SUBSET B(f) /\ e \in B(f) /\ e \notin B(e)
    <3>1. e \in Nat /\ f \in Nat /\ ~(e < e)
      OBVIOUS
    <3>2. \A x \in B(e) : x \in S /\ x \in Nat /\ x < e
      OBVIOUS
    <3>3. \A x \in B(e) : x \in S /\ x < f
      BY <1>3, <2>0, <3>1, <3>2
    <3>. QED
      BY <1>3, <3>1, <3>3
  <2>2. IsFiniteSet(B(f)) /\ Cardinality(B(f)) \in Nat /\ Cardinality(B(e)) \in Nat
    BY <1>2
  <2> HIDE DEF B
  <2>3. Cardinality(B(e)) <= Cardinality(B(f)) /\ (Cardinality(B(f)) = Cardinality(B(e)) => B(f) = B(e))
    BY <2>1, <2>2, FS_Subset
  <2>. QED
    BY <2>1, <2>2, <2>3
<1>4. \A e : RankIn(S, e) = Cardinality(B(e))
  BY DEF RankIn
<1> HIDE DEF B
<1>. QED
  BY <1>1, <1>2, <1>3, <1>4

(* Every place is taken, once *)
LEMMA RankTaken ==
  ASSUME NEW S \in SUBSET Nat, IsFiniteSet(S), NEW i \in 1 .. Cardinality(S)
  PROVE  /\ \E e \in S : RankIn(S, e) = i - 1
         /\ \A e, f \in S : RankIn(S, e) = RankIn(S, f) => e = f
<1> DEFINE n == Cardinality(S)
           g == [e \in S |-> RankIn(S, e)]
<1>1. n \in Nat /\ \A e \in S : RankIn(S, e) \in 0 .. n - 1
  BY RankFacts
<1>2. ASSUME NEW e \in S, NEW f \in S, RankIn(S, e) = RankIn(S, f) PROVE e = f
  <2>1. e \in Nat /\ f \in Nat /\ RankIn(S, e) \in Int
    BY <1>1
  <2>2. ~(RankIn(S, e) < RankIn(S, f)) /\ ~(RankIn(S, f) < RankIn(S, e))
    BY <1>2, <2>1
  <2>3. ~(e < f) /\ ~(f < e)
    BY <2>2, RankFacts
  <2>. QED
    BY <2>1, <2>3
<1>3. IsFiniteSet(0 .. n - 1) /\ Cardinality(0 .. n - 1) = n
  <2>1. 0 \in Int /\ n - 1 \in Int
    BY <1>1
  <2>2. /\ IsFiniteSet(0 .. n - 1)
        /\ Cardinality(0 .. n - 1) = IF 0 > n - 1 THEN 0 ELSE (n - 1) - 0 + 1
    BY <2>1, FS_Interval
  <2>. QED
    BY <1>1, <2>2
<1>4. g \in Injection(S, 0 .. n - 1)
  <2>1. g \in [S -> 0 .. n - 1]
    BY <1>1
  <2>2. \A e, f \in S : g[e] = g[f] => e = f
    BY <1>2
  <2> HIDE DEF g
  <2>. QED
    BY <2>1, <2>2 DEF Injection, IsInjective
<1>5. \A e \in S : g[e] = RankIn(S, e)
  OBVIOUS
<1> HIDE DEF g
<1>6. g \in Surjection(S, 0 .. n - 1)
  BY <1>3, <1>4, FS_Injection
<1>7. \E e \in S : g[e] = i - 1
  <2>1. i - 1 \in 0 .. n - 1
    BY <1>1
  <2>. QED
    BY <1>6, <2>1 DEF Surjection
<1>. QED
  BY <1>2, <1>5, <1>7

LEMMA OrderFacts ==
  ASSUME NEW S \in SUBSET Nat, IsFiniteSet(S)
  PROVE  /\ Cardinality(S) \in Nat
         /\ InFileOrder(S) \in Seq(S) /\ InFileOrder(S) \in Seq(Nat)
         /\ Len(InFileOrder(S)) = Cardinality(S)
         /\ \A i \in 1 .. Cardinality(S), e \in S : RankIn(S, e) = i - 1 => InFileOrder(S)[i] = e
<1>1. Cardinality(S) \in Nat
  BY RankFacts
<1> DEFINE Ranked(i) == CHOOSE e \in S : RankIn(S, e) = i - 1
<1>2. InFileOrder(S) = [i \in 1 .. Cardinality(S) |-> Ranked(i)]
  BY DEF InFileOrder, RankIn
<1>3. ASSUME NEW i \in 1 .. Cardinality(S)
      PROVE  /\ Ranked(i) \in S
             /\ \A e \in S : RankIn(S, e) = i - 1 => Ranked(i) = e
  <2>1. \E e \in S : RankIn(S, e) = i - 1
    BY RankTaken
  <2>2. Ranked(i) \in S /\ RankIn(S, Ranked(i)) = i - 1
    BY <2>1
  <2>3. \A e, f \in S : RankIn(S, e) = RankIn(S, f) => e = f
    BY RankTaken
  <2> HIDE DEF Ranked
  <2>. QED
    BY <2>2, <2>3
<1> HIDE DEF Ranked
<1> DEFINE q == InFileOrder(S)
<1>4. q = [i \in 1 .. Cardinality(S) |-> Ranked(i)]
  BY <1>2
<1> HIDE DEF q
<1>5. q \in [1 .. Cardinality(S) -> S]
  BY <1>3, <1>4
<1>6. q \in Seq(S) /\ Len(q) = Cardinality(S)
  BY <1>1, <1>5
<1>7. q \in Seq(Nat)
  <2>1. q \in [1 .. Cardinality(S) -> Nat]
    BY <1>5
  <2>. QED
    BY <1>1, <2>1
<1>8. \A i \in 1 .. Cardinality(S), e \in S : RankIn(S, e) = i - 1 => q[i] = e
  BY <1>3, <1>4
<1>. QED
  BY <1>1, <1>6, <1>7, <1>8 DEF q

(* What comes before is read before *)
LEMMA OrderUnion ==
  ASSUME NEW A \in SUBSET Nat, NEW B \in SUBSET Nat, IsFiniteSet(A), IsFiniteSet(B),
         \A a \in A, b \in B : a < b
  PROVE  InFileOrder(A \cup B) = InFileOrder(A) \o InFileOrder(B)
<1> DEFINE U == A \cup B
           n == Cardinality(A)
           m == Cardinality(B)
<1>1. U \in SUBSET Nat /\ A \cap B = {} /\ n \in Nat /\ m \in Nat
  <2>1. n \in Nat /\ m \in Nat
    BY FS_CardinalityType
  <2>2. \A a \in A : a \notin B
    <3>1. \A a \in Nat : ~(a < a)
      OBVIOUS
    <3>. QED
      BY <3>1
  <2>. QED
    BY <2>1, <2>2
<1>2. IsFiniteSet(U) /\ Cardinality(U) = n + m
  <2>1. IsFiniteSet(U) /\ Cardinality(U) = n + m - Cardinality(A \cap B)
    BY FS_Union
  <2>2. Cardinality(A \cap B) = 0
    BY <1>1, FS_EmptySet
  <2>. QED
    BY <1>1, <2>1, <2>2
<1>3. ASSUME NEW e \in A PROVE RankIn(U, e) = RankIn(A, e)
  <2>1. { f \in U : f < e } = { f \in A : f < e }
    <3>1. \A f \in B : ~(f < e)
      <4>1. \A f \in B : e < f /\ f \in Nat /\ e \in Nat
        OBVIOUS
      <4>. QED
        BY <4>1
    <3>. QED
      BY <3>1
  <2>. QED
    BY <2>1 DEF RankIn
<1>4. ASSUME NEW e \in B PROVE RankIn(U, e) = n + RankIn(B, e) /\ RankIn(B, e) \in Nat
  <2> DEFINE C == { f \in B : f < e }
  <2>1. { f \in U : f < e } = A \cup C
    OBVIOUS
  <2>2. C \in SUBSET B /\ A \cap C = {}
    BY <1>1
  <2> HIDE DEF C
  <2>3. IsFiniteSet(C) /\ Cardinality(C) \in Nat
    BY <2>2, FS_Subset, FS_CardinalityType
  <2>4. Cardinality(A \cup C) = n + Cardinality(C) - Cardinality(A \cap C)
    BY <2>3, FS_Union
  <2>5. Cardinality(A \cap C) = 0
    BY <2>2, FS_EmptySet
  <2>6. RankIn(B, e) = Cardinality(C)
    BY DEF RankIn, C
  <2>7. RankIn(U, e) = Cardinality(A \cup C)
    BY <2>1 DEF RankIn
  <2>. QED
    BY <1>1, <2>3, <2>4, <2>5, <2>6, <2>7
<1> DEFINE u == InFileOrder(U)
           a == InFileOrder(A)
           b == InFileOrder(B)
<1>5. /\ u \in Seq(Nat) /\ Len(u) = n + m
      /\ \A i \in 1 .. n + m, e \in U : RankIn(U, e) = i - 1 => u[i] = e
  BY <1>1, <1>2, OrderFacts
<1>6. a \in Seq(Nat) /\ Len(a) = n /\ \A i \in 1 .. n, e \in A : RankIn(A, e) = i - 1 => a[i] = e
  BY OrderFacts
<1>7. b \in Seq(Nat) /\ Len(b) = m /\ \A i \in 1 .. m, e \in B : RankIn(B, e) = i - 1 => b[i] = e
  BY OrderFacts
<1>8. \A i \in 1 .. n : \E e \in A : RankIn(A, e) = i - 1
  BY RankTaken
<1>9. \A i \in 1 .. m : \E e \in B : RankIn(B, e) = i - 1
  BY RankTaken
<1>10. \A e \in A : e \in U
  OBVIOUS
<1>11. \A e \in B : e \in U
  OBVIOUS
<1> HIDE DEF U, u, a, b, n, m
<1>12. /\ a \o b \in Seq(Nat) /\ Len(a \o b) = n + m
       /\ \A i \in 1 .. n + m : (a \o b)[i] = IF i <= n THEN a[i] ELSE b[i - n]
  BY <1>6, <1>7, ConcatProperties
<1>13. ASSUME NEW i \in 1 .. n + m PROVE u[i] = (a \o b)[i]
  <2>1. CASE i <= n
    <3>1. i \in 1 .. n
      BY <1>1, <2>1
    <3>2. PICK e \in A : RankIn(A, e) = i - 1
      BY <1>8, <3>1
    <3>3. a[i] = e
      BY <1>6, <3>1, <3>2
    <3>4. u[i] = e
      BY <1>3, <1>5, <1>10, <3>2
    <3>. QED
      BY <1>12, <2>1, <3>3, <3>4
  <2>2. CASE ~(i <= n)
    <3>1. i - n \in 1 .. m /\ n + ((i - n) - 1) = i - 1
      BY <1>1, <2>2
    <3>2. PICK e \in B : RankIn(B, e) = (i - n) - 1
      BY <1>9, <3>1
    <3>3. b[i - n] = e
      BY <1>7, <3>1, <3>2
    <3>4. RankIn(U, e) = i - 1
      BY <1>4, <3>1, <3>2
    <3>5. u[i] = e
      BY <1>5, <1>11, <3>4
    <3>. QED
      BY <1>12, <2>2, <3>3, <3>5
  <2>. QED
    BY <2>1, <2>2
<1>14. u = a \o b
  <2> DEFINE v == a \o b
  <2>1. v \in Seq(Nat) /\ Len(u) = Len(v) /\ \A i \in 1 .. Len(u) : u[i] = v[i]
    BY <1>5, <1>12, <1>13, Zenon
  <2> HIDE DEF v
  <2>2. u = v
    BY <1>5, <2>1, SeqEqual
  <2>. QED
    BY <2>2 DEF v
<1>. QED
  BY <1>14 DEF u, a, b, U

-----------------------------------------------------------------------------
(* What is packed of elements *)

UnitSize == IF dataset.kind = "fixed" THEN dataset.element_size ELSE 1

LEMMA UnitsType ==
  ASSUME IsDataset(dataset), NEW e \in Nat
  PROVE  UnitSize \in Nat \ {0} /\ Units(e) \in Seq(Nat) /\ Len(Units(e)) = UnitSize
<1> DEFINE z == dataset.element_size
           bytes == [i \in 1 .. z |-> e * z + i - 1]
<1>1. z \in Nat \ {0}
  BY DatasetFacts
<1>2. Units(e) = IF dataset.kind = "fixed" THEN bytes ELSE <<e>>
  BY DEF Units
<1> HIDE DEF z
<1>3. \A i \in 1 .. z : e * z + i - 1 \in Nat
  BY <1>1
<1>4. bytes \in [1 .. z -> Nat]
  BY <1>3
<1> HIDE DEF bytes
<1>5. bytes \in Seq(Nat) /\ Len(bytes) = z
  BY <1>1, <1>4
<1>6. <<e>> \in Seq(Nat) /\ Len(<<e>>) = 1
  OBVIOUS
<1>. QED
  BY <1>1, <1>2, <1>5, <1>6 DEF UnitSize, z

UnitLists(s) == [i \in DOMAIN s |-> Units(s[i])]

LEMMA UnitListsFacts ==
  ASSUME IsDataset(dataset), NEW s \in Seq(Nat)
  PROVE  /\ UnitLists(s) \in Seq(Seq(Nat)) /\ Len(UnitLists(s)) = Len(s)
         /\ \A i \in 1 .. Len(s) : UnitLists(s)[i] = Units(s[i]) /\ Len(UnitLists(s)[i]) = UnitSize
<1>1. Len(s) \in Nat /\ DOMAIN s = 1 .. Len(s) /\ \A i \in 1 .. Len(s) : s[i] \in Nat
  OBVIOUS
<1>2. \A i \in 1 .. Len(s) : Units(s[i]) \in Seq(Nat) /\ Len(Units(s[i])) = UnitSize
  BY <1>1, UnitsType
<1> DEFINE u == UnitLists(s)
<1>3. u = [i \in 1 .. Len(s) |-> Units(s[i])]
  BY <1>1 DEF UnitLists
<1> HIDE DEF u
<1>4. u \in [1 .. Len(s) -> Seq(Nat)] /\ \A i \in 1 .. Len(s) : u[i] = Units(s[i])
  BY <1>2, <1>3
<1>5. u \in Seq(Seq(Nat)) /\ Len(u) = Len(s)
  BY <1>1, <1>4
<1>. QED
  BY <1>2, <1>4, <1>5 DEF u

LEMMA UnitsOfFacts ==
  ASSUME IsDataset(dataset), NEW s \in Seq(Nat)
  PROVE  UnitsOf(s) \in Seq(Nat) /\ Len(UnitsOf(s)) = Len(s) * UnitSize
<1> DEFINE u == UnitLists(s)
<1>1. u \in Seq(Seq(Nat)) /\ Len(u) = Len(s) /\ \A i \in 1 .. Len(u) : Len(u[i]) = UnitSize
  BY UnitListsFacts
<1>2. UnitsOf(s) = FlattenSeq(u)
  BY DEF UnitsOf, UnitLists
<1>3. UnitSize \in Nat
  BY UnitsType
<1> HIDE DEF u
<1>4. FlattenSeq(u) \in Seq(Nat) /\ Len(FlattenSeq(u)) = Len(u) * UnitSize
  BY <1>1, <1>3, FlattenType, FlattenLength
<1>. QED
  BY <1>1, <1>2, <1>4

LEMMA UnitsOfConcat ==
  ASSUME IsDataset(dataset), NEW s \in Seq(Nat), NEW t \in Seq(Nat)
  PROVE  UnitsOf(s \o t) = UnitsOf(s) \o UnitsOf(t)
<1> DEFINE c == s \o t
           u == UnitLists(s)
           v == UnitLists(t)
           w == UnitLists(c)
<1>1. /\ c \in Seq(Nat) /\ Len(c) = Len(s) + Len(t)
      /\ \A i \in 1 .. Len(s) + Len(t) : c[i] = IF i <= Len(s) THEN s[i] ELSE t[i - Len(s)]
  BY ConcatProperties
<1>2. UnitsOf(c) = FlattenSeq(w) /\ UnitsOf(s) = FlattenSeq(u) /\ UnitsOf(t) = FlattenSeq(v)
  BY DEF UnitsOf, UnitLists
<1>3. Len(s) \in Nat /\ Len(t) \in Nat
  OBVIOUS
<1> HIDE DEF c
<1>4. w \in Seq(Seq(Nat)) /\ Len(w) = Len(c) /\ \A i \in 1 .. Len(c) : w[i] = Units(c[i])
  BY <1>1, UnitListsFacts
<1>5. u \in Seq(Seq(Nat)) /\ Len(u) = Len(s) /\ \A i \in 1 .. Len(s) : u[i] = Units(s[i])
  BY UnitListsFacts
<1>6. v \in Seq(Seq(Nat)) /\ Len(v) = Len(t) /\ \A i \in 1 .. Len(t) : v[i] = Units(t[i])
  BY UnitListsFacts
<1> HIDE DEF u, v, w
<1> DEFINE x == u \o v
<1>7. /\ x \in Seq(Seq(Nat)) /\ Len(x) = Len(u) + Len(v)
      /\ \A i \in 1 .. Len(u) + Len(v) : x[i] = IF i <= Len(u) THEN u[i] ELSE v[i - Len(u)]
  <2>1. ASSUME NEW y \in Seq(Seq(Nat)), NEW z \in Seq(Seq(Nat))
        PROVE  /\ y \o z \in Seq(Seq(Nat)) /\ Len(y \o z) = Len(y) + Len(z)
               /\ \A i \in 1 .. Len(y) + Len(z) : (y \o z)[i] = IF i <= Len(y) THEN y[i] ELSE z[i - Len(y)]
    BY <2>1, ConcatProperties
  <2>. QED
    BY <1>5, <1>6, <2>1
<1> HIDE DEF x
<1>8. ASSUME NEW i \in 1 .. Len(w) PROVE w[i] = x[i]
  <2>1. CASE i <= Len(s)
    <3>1. i \in 1 .. Len(s) /\ i \in 1 .. Len(c)
      BY <1>1, <1>3, <1>4, <2>1
    <3>2. c[i] = s[i] /\ x[i] = u[i]
      BY <1>1, <1>3, <1>4, <1>5, <1>6, <1>7, <2>1, <3>1
    <3>3. w[i] = Units(c[i]) /\ u[i] = Units(s[i])
      BY <1>4, <1>5, <3>1
    <3>. QED
      BY <3>2, <3>3
  <2>2. CASE ~(i <= Len(s))
    <3>1. i - Len(s) \in 1 .. Len(t) /\ i \in 1 .. Len(c)
      BY <1>1, <1>3, <1>4, <2>2
    <3>2. c[i] = t[i - Len(s)] /\ x[i] = v[i - Len(s)]
      BY <1>1, <1>3, <1>4, <1>5, <1>6, <1>7, <2>2, <3>1
    <3>3. w[i] = Units(c[i]) /\ v[i - Len(s)] = Units(t[i - Len(s)])
      BY <1>4, <1>6, <3>1
    <3>. QED
      BY <3>2, <3>3
  <2>. QED
    BY <2>1, <2>2
<1>9. Len(w) = Len(x)
  BY <1>1, <1>4, <1>5, <1>6, <1>7
<1>10. w = x
  BY <1>4, <1>7, <1>8, <1>9, SeqEqual
<1>11. FlattenSeq(x) = FlattenSeq(u) \o FlattenSeq(v)
  BY <1>5, <1>6, FlattenConcat DEF x
<1>12. UnitsOf(c) = UnitsOf(s) \o UnitsOf(t)
  BY <1>2, <1>10, <1>11, Zenon
<1>. QED
  BY <1>12 DEF c

-----------------------------------------------------------------------------
(* Rows of the file: elements of one value of the first coordinate *)

RowSize == Product(SubSeq(dims, 2, Len(dims)))

LEMMA RowSizeFacts ==
  ASSUME IsDataset(dataset), dims # <<>>
  PROVE  /\ 1 \in 1 .. Len(dims) /\ dims[1] \in Nat /\ RowSize \in Nat
         /\ Product(dims) = dims[1] * RowSize
<1> DEFINE s == SubSeq(dims, 2, Len(dims))
<1>1. dims \in Seq(Nat) /\ Len(dims) \in Nat \ {0}
  BY DatasetFacts, EmptySeq
<1>2. 1 \in 1 .. Len(dims) /\ dims[1] \in Nat
  BY <1>1, SeqElement
<1>3. 2 \in 1 .. Len(dims) + 1 /\ Len(dims) \in 2 - 1 .. Len(dims)
  BY <1>1
<1>4. /\ s \in Seq(Nat) /\ Len(s) = Len(dims) - 2 + 1
      /\ \A d \in 1 .. Len(dims) - 2 + 1 : s[d] = dims[2 + d - 1]
  <2>1. ASSUME NEW u \in Seq(Nat), NEW n \in Nat, n = Len(u), 2 \in 1 .. Len(u) + 1, n \in 2 - 1 .. Len(u)
        PROVE  /\ SubSeq(u, 2, n) \in Seq(Nat) /\ Len(SubSeq(u, 2, n)) = n - 2 + 1
               /\ \A d \in 1 .. n - 2 + 1 : SubSeq(u, 2, n)[d] = u[2 + d - 1]
    BY <2>1, SubSeqProperties
  <2>. QED
    BY <1>1, <1>3, <2>1
<1> HIDE DEF s
<1>5. Len(dims) = Len(s) + 1 /\ \A d \in 1 .. Len(s) : dims[d + 1] = s[d]
  <2>1. Len(s) = Len(dims) - 1
    BY <1>1, <1>4
  <2>2. ASSUME NEW d \in 1 .. Len(s) PROVE dims[d + 1] = s[d]
    <3>1. d \in 1 .. Len(dims) - 2 + 1 /\ 2 + d - 1 = d + 1
      BY <1>1, <2>1
    <3>. QED
      BY <1>4, <3>1
  <2>. QED
    BY <1>1, <2>1, <2>2
<1>6. Product(dims) = dims[1] * Product(s)
  BY <1>1, <1>4, <1>5, ProductRest
<1>7. Product(s) \in Nat
  BY <1>4, ProductType
<1>. QED
  BY <1>2, <1>6, <1>7 DEF RowSize, s

LEMMA FirstCoordinate ==
  ASSUME IsDataset(dataset), dims # <<>>, NEW e \in Elements
  PROVE  /\ e \in Nat /\ RowSize \in Nat \ {0}
         /\ Coordinate(e, 1) = e \div RowSize
         /\ e \div RowSize \in 0 .. dims[1] - 1
         /\ e % RowSize \in 0 .. RowSize - 1
         /\ e = RowSize * (e \div RowSize) + (e % RowSize)
<1>1. dims[1] \in Nat /\ RowSize \in Nat /\ Product(dims) = dims[1] * RowSize
  BY RowSizeFacts
<1>2. e \in Nat /\ e < dims[1] * RowSize
  BY <1>1 DEF Elements
<1>3. RowSize \in Nat \ {0}
  <2>1. SUFFICES ASSUME RowSize = 0 PROVE FALSE
    BY <1>1
  <2>2. dims[1] * 0 = 0
    BY <1>1
  <2>. QED
    BY <1>2, <2>1, <2>2
<1> DEFINE q == e \div RowSize
           r == e % RowSize
<1>4. q \in Nat /\ r \in 0 .. RowSize - 1 /\ e = RowSize * q + r
  BY <1>2, <1>3
<1>5. Coordinate(e, 1) = q % dims[1]
  <2>1. 1 + 1 = 2
    OBVIOUS
  <2>2. Coordinate(e, 1) = (e \div Product(SubSeq(dims, 1 + 1, Len(dims)))) % dims[1]
    BY DEF Coordinate
  <2>. QED
    BY <2>1, <2>2, Zenon DEF RowSize
<1> HIDE DEF q, r
<1>6. q < dims[1]
  <2>1. SUFFICES ASSUME dims[1] <= q PROVE FALSE
    BY <1>1, <1>4
  <2>2. RowSize * dims[1] <= RowSize * q
    BY <1>1, <1>3, <1>4, <2>1, TimesMonotone
  <2>3. RowSize * dims[1] = dims[1] * RowSize /\ RowSize * q \in Nat /\ dims[1] * RowSize \in Nat
    BY <1>1, <1>4
  <2>. QED
    BY <1>2, <1>4, <2>2, <2>3
<1>7. q % dims[1] = q
  <2>1. dims[1] \in Nat \ {0}
    BY <1>1, <1>4, <1>6
  <2>. QED
    BY <1>4, <1>6, <2>1, ModFacts
<1>. QED
  BY <1>1, <1>2, <1>3, <1>4, <1>5, <1>6, <1>7 DEF q, r

(* The rows of what was selected *)
SelectedRows == UNION { s.start .. s.start + s.count - 1 : s \in ToSet(selected) }

LEMMA ElementsFinite ==
  ASSUME IsDataset(dataset)
  PROVE  /\ Elements \in SUBSET Nat /\ IsFiniteSet(Elements)
         /\ \A S \in SUBSET Elements : S \in SUBSET Nat /\ IsFiniteSet(S)
<1>1. Product(dims) \in Nat
  BY DatasetFacts
<1>2. Elements \in SUBSET Nat
  BY <1>1 DEF Elements
<1>3. IsFiniteSet(Elements)
  <2>1. 0 \in Int /\ Product(dims) - 1 \in Int
    BY <1>1
  <2>. QED
    BY <2>1, FS_Interval DEF Elements
<1>4. ASSUME NEW S \in SUBSET Elements PROVE S \in SUBSET Nat /\ IsFiniteSet(S)
  BY <1>2, <1>3, FS_Subset
<1>. QED
  BY <1>2, <1>3, <1>4

LEMMA WithinRow ==
  ASSUME dims # <<>>, IsDataset(dataset), NEW e, NEW s, Within(e, Slab(s))
  PROVE  Coordinate(e, 1) \in s.start .. s.start + s.count - 1
<1>1. 1 \in DOMAIN dims
  <2>1. 1 \in 1 .. Len(dims)
    BY RowSizeFacts
  <2>2. dims \in Seq(Nat)
    BY DatasetFacts
  <2>. QED
    BY <2>1, <2>2
<1>2. DOMAIN Slab(s) = DOMAIN dims /\ Slab(s)[1] = s
  BY <1>1 DEF Slab
<1>. QED
  BY <1>1, <1>2 DEF Within

(* No more than whole rows are selected *)
LEMMA SelectionBound ==
  ASSUME IsDataset(dataset), rank > 0, rank \in Nat, dims # <<>>, IsFiniteSet(SelectedRows)
  PROVE  Cardinality(Selection) <= Cardinality(SelectedRows) * RowSize
<1> DEFINE R == SelectedRows
           T == R \X (0 .. RowSize - 1)
           g == [e \in Selection |-> <<e \div RowSize, e % RowSize>>]
<1>1. Selection \in SUBSET Elements
  BY DEF Selection
<1>2. ASSUME NEW e \in Selection PROVE e \div RowSize \in R
  <2>1. e \in Elements
    BY <1>1
  <2>2. PICK s \in ToSet(selected) : Within(e, Slab(s))
    BY DEF Selection
  <2>3. Coordinate(e, 1) = e \div RowSize
    BY <2>1, FirstCoordinate
  <2>4. e \div RowSize \in s.start .. s.start + s.count - 1
    BY <2>2, <2>3, WithinRow
  <2>. QED
    BY <2>4 DEF SelectedRows
<1>3. RowSize \in Nat
  BY RowSizeFacts
<1>4. IsFiniteSet(0 .. RowSize - 1) /\ Cardinality(0 .. RowSize - 1) = RowSize
  <2>1. 0 \in Int /\ RowSize - 1 \in Int
    BY <1>3
  <2>2. /\ IsFiniteSet(0 .. RowSize - 1)
        /\ Cardinality(0 .. RowSize - 1) = IF 0 > RowSize - 1 THEN 0 ELSE (RowSize - 1) - 0 + 1
    BY <2>1, FS_Interval
  <2>. QED
    BY <1>3, <2>2
<1>5. IsFiniteSet(T) /\ Cardinality(T) = Cardinality(R) * RowSize
  BY <1>4, FS_Product
<1>6. g \in Injection(Selection, T)
  <2>1. ASSUME NEW e \in Selection
        PROVE  e \div RowSize \in R /\ e % RowSize \in 0 .. RowSize - 1 /\ e = RowSize * (e \div RowSize) + (e % RowSize)
    <3>1. e \in Elements
      BY <1>1
    <3>. QED
      BY <1>2, <3>1, FirstCoordinate
  <2>2. g \in [Selection -> T]
    BY <2>1
  <2>3. ASSUME NEW e \in Selection, NEW f \in Selection, g[e] = g[f] PROVE e = f
    <3>1. e \div RowSize = f \div RowSize /\ e % RowSize = f % RowSize
      BY <2>3
    <3>2. e = RowSize * (e \div RowSize) + (e % RowSize)
      BY <2>1
    <3>3. f = RowSize * (f \div RowSize) + (f % RowSize)
      BY <2>1
    <3>4. e = RowSize * (f \div RowSize) + (f % RowSize)
      BY <3>1, <3>2, Zenon
    <3>. QED
      BY <3>3, <3>4, Zenon
  <2> HIDE DEF g, T
  <2>. QED
    BY <2>2, <2>3 DEF Injection, IsInjective
<1> HIDE DEF g, T
<1>7. Cardinality(Selection) <= Cardinality(T)
  BY <1>5, <1>6, FS_Injection
<1>. QED
  BY <1>5, <1>7

-----------------------------------------------------------------------------
(* Sizes of what was asked for *)

RowUnits == UnitSize * Product(InnerCounts)

(* All that was asked for is no more than the dataset holds, as it is if     *)
(* anything could be read                                                    *)
NoWrap == ElementsLeft * Product(InnerCounts) <= Product(dims)

LEMMA AskedFor ==
  ASSUME GoodRequest, slices # <<>>, rank > 0 => Apart
  PROVE  /\ ElementsLeft \in Nat /\ Product(InnerCounts) \in Nat
         /\ Product(TotalCount) = ElementsLeft * Product(InnerCounts)
         /\ rank = 0 => ElementsLeft = 1 /\ Product(InnerCounts) = 1
<1>1. Product(InnerCounts) \in Nat /\ rank \in Nat /\ Len(slices) \in Nat /\ InnerCounts \in Seq(Nat)
  BY InnerTypes DEF GoodRequest
<1>2. CASE rank = 0
  <2>1. InnerCounts = <<>> /\ TotalCount = <<>>
    BY <1>2, InnerTypes DEF TotalCount
  <2>2. Product(InnerCounts) = 1 /\ Product(TotalCount) = 1
    BY <2>1, ProductEmpty
  <2>3. ElementsLeft = 1
    BY <1>2 DEF ElementsLeft
  <2>. QED
    BY <2>2, <2>3
<1>3. CASE rank > 0
  <2> DEFINE R == RowsOf(Len(slices))
             p == Product(InnerCounts)
  <2>1. R \in Nat
    BY <1>1, <1>3, RowsFacts
  <2>2. ElementsLeft \in Nat /\ IF p = 0 THEN ElementsLeft = 0 ELSE ElementsLeft = R
    BY <1>3, LeftAtFirst
  <2>3. /\ TotalCount \in Seq(Nat) /\ Len(TotalCount) = rank /\ TotalCount[1] = R
        /\ \A d \in 2 .. rank : TotalCount[d] = slices[1].count[d]
    BY <1>3, TotalCountFacts
  <2>4. Len(InnerCounts) = rank - 1 /\ \A d \in 1 .. rank - 1 : InnerCounts[d] = slices[1].count[d + 1]
    BY <1>3, InnerTypes
  <2>5. Len(TotalCount) = Len(InnerCounts) + 1
    BY <1>1, <2>3, <2>4
  <2>6. ASSUME NEW d \in 1 .. Len(InnerCounts) PROVE TotalCount[d + 1] = InnerCounts[d]
    <3>1. d \in 1 .. rank - 1 /\ d + 1 \in 2 .. rank
      BY <1>1, <2>4
    <3>. QED
      BY <2>3, <2>4, <3>1
  <2>7. Product(TotalCount) = R * p
    BY <1>1, <2>3, <2>5, <2>6, ProductRest
  <2>8. p = 0 => R * p = 0 /\ ElementsLeft * p = 0
    BY <2>1, <2>2
  <2>. QED
    BY <1>1, <1>3, <2>2, <2>7, <2>8
<1>. QED
  BY <1>1, <1>2, <1>3

(* What the header announces, if nothing wraps *)
LEMMA NoWrapFacts ==
  ASSUME IsDataset(dataset), GoodRequest, slices # <<>>, rank > 0 => Apart, NoWrap
  PROVE  /\ dataset.kind = "fixed" =>
              /\ DataSize = ElementsLeft * RowUnits
              /\ NrBinsNeeded(DataSize) = (DataSize + MaxSize - 1) \div MaxSize
         /\ dataset.kind # "fixed" => NrEntries = ElementsLeft * RowUnits
<1> DEFINE t == ElementsLeft
           p == Product(InnerCounts)
           z == dataset.element_size
<1>1. t \in Nat /\ p \in Nat /\ Product(TotalCount) = t * p
  BY AskedFor
<1>2. z \in Nat \ {0} /\ Width \in Nat \ {0} /\ MaxSize \in Nat \ {0} /\ Product(dims) \in Nat
  BY DatasetFacts, SliceConstants
<1>3. Product(dims) * z + MaxSize <= Width
  BY DEF IsDataset, dims
<1>4. t * p <= Product(dims)
  BY DEF NoWrap
<1>5. DataSize = (Product(TotalCount) * z) % Width
  BY DEF DataSize
<1>6. NrBinsNeeded(DataSize) = ((DataSize + MaxSize - 1) % Width) \div MaxSize
  BY DEF NrBinsNeeded
<1>7. dataset.kind # "fixed" => NrEntries = Product(TotalCount) % Width /\ UnitSize = 1
  BY DEF NrEntries, UnitSize
<1>8. dataset.kind = "fixed" => UnitSize = z
  BY DEF UnitSize
<1>9. RowUnits = UnitSize * p
  BY DEF RowUnits
<1> HIDE DEF t, p, z
<1>10. (t * p) * z \in Nat /\ t * p \in Nat /\ t * p < Width /\ (t * p) * z < Width
  <2>1. t * p \in Nat
    BY <1>1
  <2>. QED
    BY <1>4, <2>1, DatasetFacts DEF z
<1>11. (t * p) * z <= Product(dims) * z
  BY <1>2, <1>4, <1>10, TimesMonotone
<1>12. DataSize = (t * p) * z
  <2>1. ((t * p) * z) % Width = (t * p) * z
    BY <1>2, <1>10, ModFacts
  <2>. QED
    BY <1>1, <1>5, <2>1
<1>13. (t * p) * z = t * (z * p)
  BY <1>1, <1>2
<1>14. (DataSize + MaxSize - 1) % Width = DataSize + MaxSize - 1
  <2>1. Product(dims) * z \in Nat
    BY <1>2
  <2>2. DataSize + MaxSize - 1 \in Nat /\ DataSize + MaxSize - 1 < Width
    BY <1>2, <1>3, <1>10, <1>11, <1>12, <2>1
  <2>. QED
    BY <1>2, <2>2, ModFacts
<1>15. (t * p) % Width = t * p
  BY <1>2, <1>10, ModFacts
<1>16. dataset.kind # "fixed" => NrEntries = t * RowUnits
  <2>1. 1 * p = p
    BY <1>1
  <2>. QED
    BY <1>1, <1>7, <1>9, <1>15, <2>1
<1>. QED
  BY <1>6, <1>8, <1>9, <1>12, <1>13, <1>14, <1>16 DEF t

(* Nothing is announced if nothing is asked for *)
LEMMA NothingAskedFor ==
  ASSUME IsDataset(dataset), GoodRequest, slices # <<>>, rank > 0 => Apart, ElementsLeft = 0
  PROVE  NoWrap
<1>1. ElementsLeft * Product(InnerCounts) = 0
  BY AskedFor
<1>. QED
  BY <1>1, DatasetFacts DEF NoWrap

(* DataSize is a size_t, and no bytes need no bins *)
LEMMA DataSizeFacts ==
  ASSUME IsDataset(dataset), GoodRequest, slices # <<>>, rank > 0 => Apart
  PROVE  /\ DataSize \in Nat /\ DataSize < Width
         /\ NrEntries \in Nat
         /\ NrBinsNeeded(0) = 0
<1>1. /\ Product(TotalCount) \in Nat /\ Width \in Nat \ {0} /\ MaxSize \in Nat \ {0}
      /\ dataset.element_size \in Nat
  BY TotalCountFacts, SliceConstants, DatasetFacts
<1>2. DataSize \in 0 .. Width - 1
  <2>1. Product(TotalCount) * dataset.element_size \in Nat
    BY <1>1
  <2>. QED
    BY <1>1, <2>1, ModFacts DEF DataSize
<1>3. ASSUME NEW b \in Nat PROVE NrBinsNeeded(b) \in Nat
  <2>1. b + MaxSize - 1 \in Nat
    BY <1>1
  <2>2. (b + MaxSize - 1) % Width \in Nat
    BY <1>1, <2>1, ModFacts
  <2>. QED
    BY <1>1, <2>2, DivFacts DEF NrBinsNeeded
<1>4. NrBinsNeeded(0) = 0
  <2> DEFINE x == (0 + MaxSize - 1) % Width
  <2>1. 0 + MaxSize - 1 \in Nat /\ 0 + MaxSize - 1 < MaxSize
    BY <1>1
  <2>2. x \in 0 .. Width - 1 /\ x <= 0 + MaxSize - 1
    BY <1>1, <2>1, ModFacts
  <2>3. NrBinsNeeded(0) = x \div MaxSize
    BY DEF NrBinsNeeded
  <2> HIDE DEF x
  <2>4. x \in Nat /\ x < MaxSize
    BY <1>1, <2>1, <2>2
  <2>5. x \div MaxSize \in Nat /\ ~(x \div MaxSize >= 1)
    BY <1>1, <2>4, DivFacts
  <2>. QED
    BY <2>3, <2>5
<1>5. NrEntries \in Nat
  <2>1. Product(TotalCount) % Width \in Nat
    BY <1>1, ModFacts
  <2>2. DataSize \in Nat
    BY <1>1, <1>2
  <2>. QED
    BY <1>3, <2>1, <2>2 DEF NrEntries
<1>. QED
  BY <1>1, <1>2, <1>4, <1>5

(* A read of anything shows that nothing wraps *)
LEMMA ReadNoWrap ==
  ASSUME IsDataset(dataset), GoodRequest, slices # <<>>, rank > 0 => Apart, CanRead,
         rank > 0 =>
           /\ nr_elements_to_read \in Nat \ {0} /\ Product(InnerCounts) > 0
           /\ IsFiniteSet(SelectedRows) /\ Cardinality(SelectedRows) <= nr_elements_to_read
           /\ dims # <<>> => RowsOf(Len(slices)) <= dims[1]
  PROVE  NoWrap
<1> DEFINE p == Product(InnerCounts)
           n == nr_elements_to_read
           c == Cardinality(Selection)
<1>1. p \in Nat /\ rank \in Nat /\ ElementsLeft \in Nat /\ Product(dims) \in Nat /\ Len(slices) \in Nat
  BY AskedFor, DatasetFacts DEF GoodRequest
<1>2. CASE rank = 0
  <2>1. p = 1 /\ ElementsLeft = 1
    BY <1>2, AskedFor
  <2>2. c = 1
    BY <1>2 DEF CanRead
  <2>3. Product(dims) # 0
    <3>1. SUFFICES ASSUME Product(dims) = 0 PROVE FALSE
      OBVIOUS
    <3>2. Selection = {}
      BY <1>2, <3>1 DEF Selection, Elements
    <3>. QED
      BY <2>2, <3>2, FS_EmptySet
  <2>. QED
    BY <1>1, <2>1, <2>3 DEF NoWrap
<1>3. CASE rank > 0
  <2>1. c = n * p /\ n \in Nat \ {0} /\ p > 0
    BY <1>1, <1>3 DEF CanRead
  <2>2. dims # <<>>
    <3>1. SUFFICES ASSUME dims = <<>> PROVE FALSE
      OBVIOUS
    <3>2. ToSet(selected) = {}
      BY <1>3, <3>1 DEF CanRead
    <3>3. Selection = {}
      BY <1>1, <1>3, <3>2 DEF Selection
    <3>4. c = 0
      BY <3>3, FS_EmptySet
    <3>. QED
      BY <1>1, <2>1, <3>4
  <2>3. RowSize \in Nat /\ dims[1] \in Nat /\ Product(dims) = dims[1] * RowSize
    BY <2>2, RowSizeFacts
  <2>4. c <= Cardinality(SelectedRows) * RowSize /\ Cardinality(SelectedRows) \in Nat
    BY <1>1, <1>3, <2>2, SelectionBound, FS_CardinalityType
  <2>5. Cardinality(SelectedRows) * RowSize <= n * RowSize
    BY <1>3, <2>1, <2>3, <2>4, TimesMonotone
  <2> HIDE DEF p, n, c
  <2>6. p <= RowSize
    <3>1. SUFFICES ASSUME RowSize < p PROVE FALSE
      BY <1>1, <2>3
    <3>2. n * (RowSize + 1) <= n * p
      BY <1>1, <2>1, <2>3, <3>1, TimesMonotone
    <3>3. n * (RowSize + 1) = n * RowSize + n
      BY <2>1, <2>3
    <3>4. Cardinality(SelectedRows) * RowSize \in Nat /\ n * RowSize \in Nat /\ n * p \in Nat
      BY <1>1, <2>1, <2>3, <2>4
    <3>. QED
      BY <2>1, <2>4, <2>5, <3>2, <3>3, <3>4
  <2>7. ElementsLeft <= dims[1]
    <3>1. ElementsLeft = RowsOf(Len(slices))
      BY <1>1, <1>3, <2>1, LeftAtFirst DEF p
    <3>. QED
      BY <1>3, <2>2, <3>1
  <2>8. ElementsLeft * p <= dims[1] * RowSize
    BY <1>1, <2>3, <2>6, <2>7, TimesMonotone
  <2>. QED
    BY <2>3, <2>8 DEF NoWrap, p
<1>. QED
  BY <1>1, <1>2, <1>3

-----------------------------------------------------------------------------
(* The inductive invariant *)

(* Rows selected and not read yet, and rows that were read *)
RowsChosen == IF pc \in {"select", "read"} THEN nr_elements_to_read ELSE 0
RowsTaken == ElementsLeft - elements_left_total - RowsChosen

FreshInv == pc \in Before => out = <<>> /\ buffer = <<>> /\ bins = <<>> /\ bytes_left_in_bin = 0

(* Rows and what was packed of them *)
CountInv ==
  Running =>
    /\ announced = NrEntries
    /\ elements_left_total \in 0 .. ElementsLeft
    /\ rank > 0 /\ dims # <<>> => RowsOf(Len(slices)) <= dims[1]
    /\ pc \in {"select", "read"} =>
         /\ nr_elements_to_read \in 0 .. ElementsLeft - elements_left_total
         /\ rank = 0 => nr_elements_to_read = 1
         /\ rank > 0 => IsFiniteSet(SelectedRows) /\ Cardinality(SelectedRows) <= nr_elements_to_read
    /\ pc # "body" => buffer = <<>>
    /\ out \in Seq(Nat) /\ buffer \in Seq(Nat)
    /\ Len(out) + Len(buffer) = RowsTaken * RowUnits
    /\ RowsTaken > 0 => NoWrap

(* Bytes and bins: all bins but the last are as large as they may be *)
BinsInv ==
  Running =>
    /\ bins \in Seq(1 .. MaxSize)
    /\ bins # <<>> => dataset.kind = "fixed" /\ RowsTaken > 0
    /\ dataset.kind = "fixed" =>
         /\ total_bytes_left \in Nat /\ bytes_left_in_bin \in Nat
         /\ total_bytes_left + bytes_left_in_bin + Len(out) = DataSize
         /\ Total(bins) = Len(out) + bytes_left_in_bin
         /\ IF total_bytes_left > 0 THEN Len(bins) * MaxSize + total_bytes_left = DataSize
            ELSE Len(bins) = announced

(* At the end *)
BinsFilled ==
  /\ Len(bins) <= announced
  /\ Total(bins) = IF dataset.kind = "fixed" THEN Len(out) + bytes_left_in_bin ELSE 0
  /\ \A i \in DOMAIN bins : bins[i] \in 1 .. MaxSize
AllPacked ==
  /\ BinsFilled
  /\ dataset.kind = "fixed" => bytes_left_in_bin = 0 /\ total_bytes_left = 0
  /\ announced = IF dataset.kind = "fixed" THEN Len(bins) ELSE Len(out)
EndInv == result = "ok" => pc = "end" /\ AllPacked

OutputInv == FreshInv /\ CountInv /\ BinsInv /\ EndInv

LEMMA SizesSame ==
  ASSUME UNCHANGED input
  PROVE  /\ ElementsLeft' = ElementsLeft /\ RowUnits' = RowUnits /\ UnitSize' = UnitSize
         /\ NrEntries' = NrEntries /\ DataSize' = DataSize
         /\ NoWrap' <=> NoWrap
<1>1. /\ dataset' = dataset /\ rank' = rank /\ slices' = slices /\ dims' = dims
      /\ Product(InnerCounts)' = Product(InnerCounts) /\ Product(dims)' = Product(dims)
  BY InputSame
<1>2. TotalCount' = TotalCount
  BY <1>1 DEF TotalCount, InnerCounts, RowsOf
<1>3. DataSize' = DataSize
  BY <1>1, <1>2 DEF DataSize
<1>4. NrEntries' = NrEntries
  BY <1>1, <1>2, <1>3 DEF NrEntries, NrBinsNeeded
<1>5. ElementsLeft' = ElementsLeft
  BY <1>1, <1>2 DEF ElementsLeft
<1>6. UnitSize' = UnitSize
  BY <1>1 DEF UnitSize
<1>. QED
  BY <1>1, <1>3, <1>4, <1>5, <1>6 DEF RowUnits, NoWrap

(* What every step in the loops may use *)
LEMMA RunningFacts ==
  ASSUME SliceInv, CountInv, Running
  PROVE  /\ IsDataset(dataset) /\ GoodRequest /\ slices # <<>> /\ (rank > 0 => Apart)
         /\ rank \in Nat /\ result = "none"
         /\ ElementsLeft \in Nat /\ RowUnits \in Nat /\ UnitSize \in Nat \ {0}
         /\ elements_left_total \in Nat /\ RowsTaken \in Nat /\ RowsTaken <= ElementsLeft
         /\ RowsTaken * RowUnits \in Nat /\ RowsTaken * RowUnits <= ElementsLeft * RowUnits
         /\ Len(out) \in Nat /\ Len(buffer) \in Nat /\ announced \in Nat
         /\ DataSize \in Nat /\ DataSize < Width
<1>1. IsDataset(dataset) /\ GoodRequest /\ slices # <<>> /\ (rank > 0 => Apart) /\ result = "none"
  BY DEF SliceInv, InputInv, AcceptedInv, Running
<1>2. rank \in Nat
  BY <1>1 DEF GoodRequest
<1>3. ElementsLeft \in Nat /\ Product(InnerCounts) \in Nat
  BY <1>1, AskedFor
<1>4. UnitSize \in Nat \ {0}
  <2>1. 0 \in Nat
    OBVIOUS
  <2>. QED
    BY <1>1, <2>1, UnitsType
<1>5. RowUnits \in Nat
  BY <1>3, <1>4 DEF RowUnits
<1>6. elements_left_total \in Nat /\ elements_left_total <= ElementsLeft
  BY <1>3 DEF CountInv
<1>7. RowsTaken \in Nat /\ RowsTaken <= ElementsLeft
  <2>1. CASE pc \in {"select", "read"}
    <3>1. nr_elements_to_read \in 0 .. ElementsLeft - elements_left_total
      BY <2>1 DEF CountInv
    <3>2. RowsTaken = ElementsLeft - elements_left_total - nr_elements_to_read
      BY <2>1 DEF RowsTaken, RowsChosen
    <3>. QED
      BY <1>3, <1>6, <3>1, <3>2
  <2>2. CASE pc \notin {"select", "read"}
    <3>1. RowsTaken = ElementsLeft - elements_left_total - 0
      BY <2>2 DEF RowsTaken, RowsChosen
    <3>. QED
      BY <1>3, <1>6, <3>1
  <2>. QED
    BY <2>1, <2>2
<1>8. RowsTaken * RowUnits \in Nat /\ RowsTaken * RowUnits <= ElementsLeft * RowUnits
  BY <1>3, <1>5, <1>7, TimesMonotone
<1>9. out \in Seq(Nat) /\ buffer \in Seq(Nat) /\ announced = NrEntries
  BY DEF CountInv
<1>10. DataSize \in Nat /\ DataSize < Width /\ NrEntries \in Nat
  BY <1>1, DataSizeFacts
<1>. QED
  BY <1>1, <1>2, <1>3, <1>4, <1>5, <1>6, <1>7, <1>8, <1>9, <1>10

LEMMA EndsOutput ==
  ASSUME ~Running', pc' \notin Before, result' # "ok"
  PROVE  OutputInv'
  BY DEF OutputInv, FreshInv, CountInv, BinsInv, EndInv

LEMMA WalksOutput ==
  ASSUME OutputInv, pc \in Before, pc' \in Before, result' # "ok", UNCHANGED packing
  PROVE  OutputInv'
<1>1. ~Running'
  BY DEF Running, Before
<1>2. out' = out /\ buffer' = buffer /\ bins' = bins /\ bytes_left_in_bin' = bytes_left_in_bin
  BY DEF packing
<1>. QED
  BY <1>1, <1>2 DEF OutputInv, FreshInv, CountInv, BinsInv, EndInv

(* Bins are no more than were announced, and filled *)
LEMMA BinsFit ==
  ASSUME SliceInv, CountInv, BinsInv, Running
  PROVE  BinsFilled
<1>1. /\ IsDataset(dataset) /\ GoodRequest /\ slices # <<>> /\ (rank > 0 => Apart)
      /\ announced \in Nat /\ DataSize \in Nat /\ MaxSize \in Nat \ {0} /\ announced = NrEntries
  BY RunningFacts, SliceConstants DEF CountInv
<1>2. /\ bins \in Seq(1 .. MaxSize)
      /\ bins # <<>> => dataset.kind = "fixed" /\ RowsTaken > 0
  BY DEF BinsInv
<1>3. \A i \in DOMAIN bins : bins[i] \in 1 .. MaxSize
  <2>1. DOMAIN bins = 1 .. Len(bins)
    BY <1>2
  <2>. QED
    BY <1>2, <2>1, SeqElement
<1>4. Len(bins) \in Nat
  BY <1>2
<1>5. CASE bins = <<>>
  <2>1. Len(bins) = 0 /\ Total(bins) = 0
    <3>1. <<>> \in Seq(Nat) /\ 0 \in Nat
      OBVIOUS
    <3>2. Total(<<>>) = 0
      BY <3>1, TotalAppend
    <3>. QED
      BY <1>5, <3>2
  <2>. QED
    BY <1>1, <1>3, <2>1 DEF BinsFilled, BinsInv
<1>6. CASE bins # <<>>
  <2>1. dataset.kind = "fixed" /\ NoWrap
    BY <1>2, <1>6 DEF CountInv
  <2>2. announced = (DataSize + MaxSize - 1) \div MaxSize
    BY <1>1, <2>1, NoWrapFacts DEF NrEntries
  <2>3. /\ total_bytes_left \in Nat
        /\ Total(bins) = Len(out) + bytes_left_in_bin
        /\ IF total_bytes_left > 0 THEN Len(bins) * MaxSize + total_bytes_left = DataSize
           ELSE Len(bins) = announced
    BY <2>1 DEF BinsInv
  <2>4. Len(bins) <= announced
    <3>1. CASE total_bytes_left > 0
      <4>1. Len(bins) + 1 <= (DataSize + MaxSize - 1) \div MaxSize
        BY <1>1, <1>4, <2>3, <3>1, BinsTaken
      <4>. QED
        BY <1>1, <1>4, <2>2, <4>1
    <3>2. CASE ~(total_bytes_left > 0)
      BY <1>1, <1>4, <2>3, <3>2
    <3>. QED
      BY <3>1, <3>2
  <2>. QED
    BY <1>3, <2>1, <2>3, <2>4 DEF BinsFilled
<1>. QED
  BY <1>5, <1>6

(* When no rows are left, all that was announced is packed *)
LEMMA EndsPacked ==
  ASSUME SliceInv, CountInv, BinsInv, pc = "next", elements_left_total = 0
  PROVE  AllPacked
<1>0. Running
  BY DEF Running
<1>1. /\ IsDataset(dataset) /\ GoodRequest /\ slices # <<>> /\ (rank > 0 => Apart)
      /\ ElementsLeft \in Nat /\ RowUnits \in Nat /\ Len(out) \in Nat /\ announced \in Nat /\ DataSize \in Nat
  BY <1>0, RunningFacts
<1>2. BinsFilled
  BY <1>0, BinsFit
<1>3. RowsTaken = ElementsLeft
  BY <1>1 DEF RowsTaken, RowsChosen
<1>4. NoWrap
  <2>1. CASE ElementsLeft = 0
    BY <1>1, <2>1, NothingAskedFor
  <2>2. CASE ElementsLeft # 0
    BY <1>0, <1>1, <1>3, <2>2 DEF CountInv
  <2>. QED
    BY <2>1, <2>2
<1>5. Len(out) = ElementsLeft * RowUnits /\ announced = NrEntries
  <2>1. buffer = <<>> /\ Len(out) + Len(buffer) = RowsTaken * RowUnits /\ announced = NrEntries
    BY <1>0 DEF CountInv
  <2>2. Len(buffer) = 0
    BY <2>1
  <2>. QED
    BY <1>1, <1>3, <2>1, <2>2
<1>6. CASE dataset.kind = "fixed"
  <2>1. DataSize = Len(out)
    BY <1>1, <1>4, <1>5, <1>6, NoWrapFacts
  <2>2. /\ total_bytes_left \in Nat /\ bytes_left_in_bin \in Nat
        /\ total_bytes_left + bytes_left_in_bin + Len(out) = DataSize
        /\ ~(total_bytes_left > 0) => Len(bins) = announced
    BY <1>0, <1>6 DEF BinsInv
  <2>3. total_bytes_left = 0 /\ bytes_left_in_bin = 0
    BY <1>1, <2>1, <2>2
  <2>. QED
    BY <1>2, <1>6, <2>2, <2>3 DEF AllPacked
<1>7. CASE dataset.kind # "fixed"
  <2>1. announced = Len(out)
    BY <1>1, <1>4, <1>5, <1>7, NoWrapFacts
  <2>. QED
    BY <1>2, <1>7, <2>1 DEF AllPacked
<1>. QED
  BY <1>6, <1>7

-----------------------------------------------------------------------------
(* Every step keeps it *)

(* What a pass of the loop over the slices selects *)
LEMMA SelectFacts ==
  ASSUME SliceInv, SelectSlice
  PROVE  LET s == slices[slice_nr + 1]
             n == ElementsToRead(s)
         IN /\ n \in Nat /\ n <= elements_left_total /\ n <= s.count[1] - offset_in_slice
            /\ s.start[1] \in Nat /\ s.count[1] \in Nat /\ offset_in_slice \in Nat
            /\ s.start[1] + offset_in_slice \in Nat
            /\ slice_nr \in Nat /\ slice_nr + 1 \in 1 .. Len(slices) /\ rank > 0
            /\ selected \in Seq([start : Nat, count : Nat])
<1> DEFINE k == slice_nr + 1
           s == slices[k]
           c == s.count[1]
           n == ElementsToRead(s)
<1>1. pc = "select" /\ Running /\ elements_left_in_buffer > 0
  BY DEF SelectSlice, Selecting, Running
<1>2. /\ GoodRequest /\ rank > 0 /\ Apart /\ slices # <<>> /\ rank \in Nat /\ Len(slices) \in Nat
      /\ Product(InnerCounts) > 0 /\ Product(InnerCounts) \in Nat
  <2>1. GoodRequest /\ rank > 0 /\ Apart /\ slices # <<>> /\ Product(InnerCounts) > 0
    BY <1>1 DEF SliceInv, InputInv, AcceptedInv, ChoiceInv
  <2>2. rank \in Nat /\ Len(slices) \in Nat
    BY <2>1 DEF GoodRequest
  <2>. QED
    BY <2>1, <2>2, InnerTypes
<1>3. /\ elements_left_total \in Nat /\ slice_nr \in Nat /\ offset_in_slice \in Nat
      /\ slice_nr <= Len(slices)
      /\ offset_in_slice > 0 => slice_nr < Len(slices) /\ offset_in_slice < c
      /\ elements_left_in_buffer \in Nat /\ elements_left_in_buffer <= elements_left_total
      /\ selected \in Seq([start : Nat, count : Nat])
  BY <1>1, <1>2 DEF SliceInv, CursorInv, ChoiceInv
<1>4. slice_nr < Len(slices)
  <2>1. elements_left_total = RowsOf(Len(slices)) - RowsOf(slice_nr) - offset_in_slice
    BY <1>1, <1>2 DEF SliceInv, CursorInv, RowsLeft
  <2>2. SUFFICES ASSUME slice_nr = Len(slices) PROVE FALSE
    BY <1>2, <1>3
  <2>3. offset_in_slice = 0
    BY <1>2, <1>3, <2>2
  <2>4. RowsOf(Len(slices)) \in Nat
    BY <1>2, RowsFacts
  <2>. QED
    BY <1>1, <1>3, <2>1, <2>2, <2>3, <2>4
<1>5. k \in 1 .. Len(slices) /\ 1 \in 1 .. rank
  BY <1>2, <1>3, <1>4
<1>6. c \in Nat /\ s.start[1] \in Nat /\ offset_in_slice <= c
  BY <1>2, <1>3, <1>5, SliceTypes
<1>7. n \in Nat /\ n <= c - offset_in_slice /\ n <= elements_left_in_buffer
  <2>1. c - offset_in_slice \in Nat
    BY <1>3, <1>6
  <2>. QED
    BY <1>3, <2>1, MinFacts DEF ElementsToRead
<1> HIDE DEF n, c, k, s
<1>8. s.start[1] + offset_in_slice \in Nat /\ n <= elements_left_total
  BY <1>3, <1>6, <1>7
<1>. QED
  BY <1>2, <1>3, <1>5, <1>6, <1>7, <1>8 DEF n, c, k, s

LEMMA OneMore ==
  ASSUME NEW Z, NEW x
  PROVE  UNION { s.start .. s.start + s.count - 1 : s \in Z \cup {x} } =
           (UNION { s.start .. s.start + s.count - 1 : s \in Z }) \cup (x.start .. x.start + x.count - 1)
<1> DEFINE I(s) == s.start .. s.start + s.count - 1
<1> HIDE DEF I
<1>1. UNION { I(s) : s \in Z \cup {x} } = (UNION { I(s) : s \in Z }) \cup I(x)
  <2>1. \A y : y \in UNION { I(s) : s \in Z \cup {x} } <=> \E s \in Z \cup {x} : y \in I(s)
    BY Zenon
  <2>2. \A y : y \in UNION { I(s) : s \in Z } <=> \E s \in Z : y \in I(s)
    BY Zenon
  <2>3. \A s : s \in Z \cup {x} <=> s \in Z \/ s = x
    BY Zenon
  <2>4. \A y : y \in UNION { I(s) : s \in Z \cup {x} } <=> y \in UNION { I(s) : s \in Z } \/ y \in I(x)
    BY <2>1, <2>2, <2>3, Zenon
  <2> DEFINE M == UNION { I(s) : s \in Z \cup {x} }
             U == UNION { I(s) : s \in Z }
             V == I(x)
  <2>5. \A y : y \in M <=> y \in U \/ y \in V
    BY <2>4
  <2> HIDE DEF M, U, V
  <2>6. M = U \cup V
    BY <2>5
  <2>. QED
    BY <2>6 DEF M, U, V
<1>. QED
  BY <1>1 DEF I

LEMMA MoreRows ==
  ASSUME selected \in Seq([start : Nat, count : Nat]), NEW f \in Nat, NEW n \in Nat,
         selected' = IF n > 0 THEN Append(selected, [start |-> f, count |-> n]) ELSE selected
  PROVE  SelectedRows' = SelectedRows \cup (f .. f + n - 1)
<1> DEFINE x == [start |-> f, count |-> n]
<1>1. CASE n > 0
  <2>1. ToSet(selected') = ToSet(selected) \cup {x}
    <3>1. x \in [start : Nat, count : Nat]
      OBVIOUS
    <3> HIDE DEF x
    <3>2. selected' = Append(selected, x)
      BY <1>1 DEF x
    <3>3. /\ Len(selected) \in Nat /\ DOMAIN selected = 1 .. Len(selected)
          /\ DOMAIN Append(selected, x) = 1 .. Len(selected) + 1
          /\ \A i \in 1 .. Len(selected) : Append(selected, x)[i] = selected[i]
          /\ Append(selected, x)[Len(selected) + 1] = x
      BY <3>1, AppendProperties
    <3>4. ASSUME NEW y PROVE y \in ToSet(Append(selected, x)) <=> y \in ToSet(selected) \/ y = x
      <4>1. ASSUME y \in ToSet(Append(selected, x)) PROVE y \in ToSet(selected) \/ y = x
        <5>1. PICK i \in 1 .. Len(selected) + 1 : y = Append(selected, x)[i]
          BY <3>3, <4>1 DEF ToSet
        <5>2. CASE i = Len(selected) + 1
          BY <3>3, <5>1, <5>2
        <5>3. CASE i # Len(selected) + 1
          <6>1. i \in 1 .. Len(selected)
            BY <3>3, <5>3
          <6>. QED
            BY <3>3, <5>1, <6>1 DEF ToSet
        <5>. QED
          BY <5>2, <5>3
      <4>2. ASSUME y \in ToSet(selected) PROVE y \in ToSet(Append(selected, x))
        <5>1. PICK i \in 1 .. Len(selected) : y = selected[i]
          BY <3>3, <4>2 DEF ToSet
        <5>2. i \in 1 .. Len(selected) + 1
          BY <3>3
        <5>. QED
          BY <3>3, <5>1, <5>2 DEF ToSet
      <4>3. ASSUME y = x PROVE y \in ToSet(Append(selected, x))
        <5>1. Len(selected) + 1 \in 1 .. Len(selected) + 1
          BY <3>3
        <5>. QED
          BY <3>3, <4>3, <5>1 DEF ToSet
      <4>. QED
        BY <4>1, <4>2, <4>3
    <3>. QED
      BY <3>2, <3>4
  <2>2. x.start = f /\ x.count = n
    OBVIOUS
  <2> HIDE DEF x
  <2>3. SelectedRows' = UNION { s.start .. s.start + s.count - 1 : s \in ToSet(selected) \cup {x} }
    BY <2>1 DEF SelectedRows
  <2>4. SelectedRows' = SelectedRows \cup (x.start .. x.start + x.count - 1)
    <3>1. UNION { s.start .. s.start + s.count - 1 : s \in ToSet(selected) \cup {x} } =
            (UNION { s.start .. s.start + s.count - 1 : s \in ToSet(selected) }) \cup (x.start .. x.start + x.count - 1)
      BY OneMore
    <3>. QED
      BY <2>3, <3>1 DEF SelectedRows
  <2>. QED
    BY <2>2, <2>4, Zenon
<1>2. CASE ~(n > 0)
  <2>1. f .. f + n - 1 = {} /\ selected' = selected
    BY <1>2
  <2>. QED
    BY <2>1 DEF SelectedRows
<1>. QED
  BY <1>1, <1>2

(* Nothing is packed and nothing is read *)
LEMMA KeepsOutput ==
  ASSUME SliceInv, OutputInv, Running, Running', UNCHANGED input, UNCHANGED <<result, announced, packing>>,
         RowsTaken' = RowsTaken, elements_left_total' \in 0 .. ElementsLeft,
         pc' # "body" => buffer = <<>>,
         pc' \in {"select", "read"} =>
           /\ nr_elements_to_read' \in 0 .. ElementsLeft - elements_left_total'
           /\ rank = 0 => nr_elements_to_read' = 1
           /\ rank > 0 => IsFiniteSet(SelectedRows') /\ Cardinality(SelectedRows') <= nr_elements_to_read'
  PROVE  OutputInv'
<1>1. /\ out' = out /\ buffer' = buffer /\ bins' = bins /\ bytes_left_in_bin' = bytes_left_in_bin
      /\ total_bytes_left' = total_bytes_left /\ announced' = announced /\ result' = result
  BY DEF packing
<1>2. pc' \notin Before /\ result = "none"
  BY RunningFacts DEF Running, Before, OutputInv
<1>3. /\ ElementsLeft' = ElementsLeft /\ RowUnits' = RowUnits /\ NrEntries' = NrEntries
      /\ DataSize' = DataSize /\ (NoWrap' <=> NoWrap) /\ rank' = rank /\ dims' = dims /\ slices' = slices
      /\ dataset' = dataset /\ \A k : RowsOf(k)' = RowsOf(k)
  BY SizesSame, InputSame
<1>4. CountInv'
  <2>1. /\ announced = NrEntries
        /\ rank > 0 /\ dims # <<>> => RowsOf(Len(slices)) <= dims[1]
        /\ out \in Seq(Nat) /\ buffer \in Seq(Nat)
        /\ Len(out) + Len(buffer) = RowsTaken * RowUnits
        /\ RowsTaken > 0 => NoWrap
    BY DEF OutputInv, CountInv
  <2>2. RowsOf(Len(slices))' = RowsOf(Len(slices))
    BY <1>3 DEF RowsOf
  <2>. QED
    BY <1>1, <1>3, <2>1, <2>2 DEF CountInv
<1>5. BinsInv'
  BY <1>1, <1>3 DEF OutputInv, BinsInv
<1>. QED
  BY <1>1, <1>2, <1>4, <1>5 DEF OutputInv, FreshInv, EndInv

LEMMA StartsOutput ==
  ASSUME SliceInv, OutputInv, Start
  PROVE  OutputInv'
<1>1. /\ pc = "begin" /\ pc' = "next" /\ slices # <<>>
      /\ elements_left_total' = ElementsLeft /\ announced' = NrEntries /\ total_bytes_left' = DataSize
      /\ UNCHANGED input /\ UNCHANGED <<result, bytes_left_in_bin, bins, buffer, out>>
  BY DEF Start, ElementsLeft
<1>2. PICK file_dims \in FileDims : SlicesAccepted(file_dims)
  BY DEF Start
<1>3. IsDataset(dataset) /\ GoodRequest /\ result = "none"
  BY <1>1 DEF SliceInv, InputInv
<1>4. rank > 0 => Apart
  BY <1>2, <1>3, AcceptedApart
<1>5. out = <<>> /\ buffer = <<>> /\ bins = <<>> /\ bytes_left_in_bin = 0
  BY <1>1 DEF OutputInv, FreshInv, Before
<1>6. /\ ElementsLeft' = ElementsLeft /\ RowUnits' = RowUnits /\ NrEntries' = NrEntries
      /\ DataSize' = DataSize /\ rank' = rank /\ dims' = dims /\ slices' = slices /\ dataset' = dataset
  BY <1>1, SizesSame, InputSame
<1>7. ElementsLeft \in Nat /\ RowUnits \in Nat /\ DataSize \in Nat /\ MaxSize \in Nat /\ NrBinsNeeded(0) = 0
  <2>1. UnitSize \in Nat
    <3>1. 0 \in Nat
      OBVIOUS
    <3>. QED
      BY <1>3, <3>1, UnitsType
  <2>. QED
    BY <1>1, <1>3, <1>4, <2>1, AskedFor, DataSizeFacts, SliceConstants DEF RowUnits
<1>8. RowsTaken' = 0
  <2>1. RowsChosen' = 0
    BY <1>1 DEF RowsChosen
  <2>2. RowsTaken' = ElementsLeft - ElementsLeft - 0
    BY <1>1, <1>6, <2>1 DEF RowsTaken
  <2>. QED
    BY <1>7, <2>2
<1>9. ASSUME rank > 0, dims # <<>> PROVE RowsOf(Len(slices)) <= dims[1]
  <2> DEFINE L == Len(slices)
  <2>1. rank \in Nat /\ 1 \in 1 .. rank /\ L \in 1 .. L /\ L \in DOMAIN slices /\ L \in 0 .. L
    BY <1>1, <1>3, <1>9, InnerTypes DEF GoodRequest
  <2>2. file_dims[1] = dims[1]
    <3>1. PICK g : file_dims = [d \in 1 .. rank |-> IF d <= Len(dims) THEN dims[d] ELSE g[d]]
      BY DEF FileDims
    <3>2. 1 <= Len(dims)
      <4>1. 1 \in 1 .. Len(dims)
        BY <1>3, <1>9, RowSizeFacts
      <4>2. Len(dims) \in Nat
        BY <1>3, DatasetFacts
      <4>. QED
        BY <4>1, <4>2
    <3>. QED
      BY <2>1, <3>1, <3>2
  <2>3. (slices[L].start[1] + slices[L].count[1]) % Width <= file_dims[1]
    BY <1>2, <1>9, <2>1 DEF SlicesAccepted, InFile
  <2>4. (slices[L].start[1] + slices[L].count[1]) % Width = slices[L].start[1] + slices[L].count[1]
    BY <1>3, <2>1, EndsDoNotWrap
  <2>5. RowsOf(L) <= slices[L].start[1] + slices[L].count[1] /\ RowsOf(L) \in Nat
    BY <1>3, <1>4, <1>9, <2>1, RowsFacts
  <2>6. slices[L].start[1] \in Nat /\ slices[L].count[1] \in Nat /\ dims[1] \in Nat
    BY <1>3, <1>9, <2>1, SliceTypes, RowSizeFacts
  <2> HIDE DEF L
  <2>7. RowsOf(L) <= dims[1]
    BY <2>2, <2>3, <2>4, <2>5, <2>6
  <2>. QED
    BY <2>7 DEF L
<1>10. <<>> \in Seq(Nat) /\ Len(<<>>) = 0 /\ Total(<<>>) = 0 /\ 0 * RowUnits = 0 /\ 0 * MaxSize = 0
  <2>1. <<>> \in Seq(Nat) /\ 0 \in Nat /\ Len(<<>>) = 0
    OBVIOUS
  <2>2. Total(<<>>) = 0
    BY <2>1, TotalAppend
  <2>3. 0 * RowUnits = 0 /\ 0 * MaxSize = 0
    BY <1>7
  <2>. QED
    BY <2>1, <2>2, <2>3
<1>11. CountInv'
  <2>1. RowsOf(Len(slices))' = RowsOf(Len(slices))
    BY <1>6 DEF RowsOf
  <2>2. Len(out') + Len(buffer') = RowsTaken' * RowUnits'
    BY <1>1, <1>5, <1>6, <1>8, <1>10
  <2>3. elements_left_total' \in 0 .. ElementsLeft' /\ ~(RowsTaken' > 0)
    BY <1>1, <1>6, <1>7, <1>8
  <2>. QED
    BY <1>1, <1>5, <1>6, <1>9, <1>10, <2>1, <2>2, <2>3 DEF CountInv
<1>12. BinsInv'
  <2>1. <<>> \in Seq(1 .. MaxSize)
    OBVIOUS
  <2>2. /\ DataSize + 0 + 0 = DataSize /\ 0 * MaxSize + DataSize = DataSize
        /\ ~(DataSize > 0) => DataSize = 0
    BY <1>7
  <2>3. dataset.kind = "fixed" => NrEntries = NrBinsNeeded(DataSize)
    BY DEF NrEntries
  <2>4. ~(DataSize > 0) /\ dataset.kind = "fixed" => 0 = NrEntries
    BY <1>7, <2>2, <2>3
  <2>. QED
    BY <1>1, <1>5, <1>6, <1>7, <1>10, <2>1, <2>2, <2>4 DEF BinsInv
<1>. QED
  BY <1>1, <1>3, <1>11, <1>12 DEF OutputInv, FreshInv, EndInv, Before

LEMMA SelectNextOutput ==
  ASSUME SliceInv, OutputInv, SelectNext
  PROVE  OutputInv'
<1>1. pc = "next" /\ Running /\ UNCHANGED input /\ announced' = announced /\ UNCHANGED packing
  BY DEF SelectNext, Running, header
<1>2. /\ ElementsLeft \in Nat /\ elements_left_total \in Nat /\ elements_left_total <= ElementsLeft
      /\ rank \in Nat /\ slices # <<>> /\ GoodRequest /\ (rank > 0 => Apart) /\ buffer = <<>>
  BY <1>1, RunningFacts DEF OutputInv, CountInv
<1>3. RowsTaken = ElementsLeft - elements_left_total - 0
  BY <1>1 DEF RowsTaken, RowsChosen
<1>4. ElementsLeft' = ElementsLeft /\ rank' = rank
  BY <1>1, SizesSame, InputSame
<1>5. CASE elements_left_total = 0 /\ End("ok")
  <2>1. pc' = "end" /\ ~Running' /\ result' = "ok" /\ pc' \notin Before
    BY <1>5 DEF End, Running, Before
  <2>2. AllPacked
    BY <1>1, <1>5, EndsPacked DEF OutputInv
  <2>3. /\ out' = out /\ bins' = bins /\ bytes_left_in_bin' = bytes_left_in_bin
        /\ total_bytes_left' = total_bytes_left /\ dataset' = dataset
    BY <1>1, InputSame DEF packing
  <2>4. AllPacked'
    BY <1>1, <2>2, <2>3 DEF AllPacked, BinsFilled
  <2>. QED
    BY <2>1, <2>4 DEF OutputInv, FreshInv, CountInv, BinsInv, EndInv
<1>6. CASE /\ elements_left_total > 0 /\ rank = 0
           /\ elements_left_total' = 0 /\ nr_elements_to_read' = 1 /\ pc' = "read" /\ result' = result
  <2>1. ElementsLeft = 1
    BY <1>2, <1>6, AskedFor
  <2>2. RowsTaken' = ElementsLeft - 0 - 1
    BY <1>4, <1>6 DEF RowsTaken, RowsChosen
  <2>3. RowsTaken' = RowsTaken
    BY <1>2, <1>3, <1>6, <2>1, <2>2
  <2>4. Running' /\ pc' # "body" /\ ~(rank > 0)
    BY <1>2, <1>6 DEF Running
  <2>5. nr_elements_to_read' \in 0 .. ElementsLeft - elements_left_total' /\ elements_left_total' \in 0 .. ElementsLeft
    BY <1>6, <2>1
  <2>. QED
    BY <1>1, <1>2, <1>6, <2>3, <2>4, <2>5, KeepsOutput
<1>7. CASE /\ rank > 0 /\ nr_elements_to_read' = 0 /\ selected' = <<>> /\ pc' = "select"
           /\ UNCHANGED <<result, cursor>>
  <2>1. elements_left_total' = elements_left_total
    BY <1>7 DEF cursor
  <2>2. RowsTaken' = ElementsLeft - elements_left_total - 0
    BY <1>4, <1>7, <2>1 DEF RowsTaken, RowsChosen
  <2>3. SelectedRows' = {}
    <3>1. ToSet(<<>>) = {}
      BY DEF ToSet
    <3>. QED
      BY <1>7, <3>1 DEF SelectedRows
  <2>4. IsFiniteSet(SelectedRows') /\ Cardinality(SelectedRows') <= 0
    BY <2>3, FS_EmptySet
  <2>5. Running' /\ pc' # "body" /\ rank # 0
    BY <1>2, <1>7 DEF Running
  <2>6. 0 \in 0 .. ElementsLeft - elements_left_total /\ elements_left_total \in 0 .. ElementsLeft
    BY <1>2
  <2>. QED
    BY <1>1, <1>2, <1>3, <1>7, <2>1, <2>2, <2>4, <2>5, <2>6, KeepsOutput
<1>. QED
  BY <1>5, <1>6, <1>7 DEF SelectNext

(* A row more is chosen for every row of a slice *)
LEMMA SelectSliceOutput ==
  ASSUME SliceInv, OutputInv, SelectSlice
  PROVE  OutputInv'
<1> DEFINE s == slices[slice_nr + 1]
           n == ElementsToRead(s)
           f == s.start[1] + offset_in_slice
           x == [start |-> f, count |-> n]
<1>1. pc = "select" /\ pc' = "select" /\ Running /\ Running' /\ pc' # "body" /\ UNCHANGED input
      /\ UNCHANGED <<result, announced, packing>>
  BY DEF SelectSlice, Running, header
<1>2. /\ selected' = IF n > 0 THEN Append(selected, x) ELSE selected
      /\ elements_left_total' = elements_left_total - n
      /\ nr_elements_to_read' = nr_elements_to_read + n
  BY DEF SelectSlice
<1>3. /\ ElementsLeft \in Nat /\ elements_left_total \in Nat /\ rank \in Nat /\ buffer = <<>>
      /\ elements_left_total \in 0 .. ElementsLeft
      /\ nr_elements_to_read \in 0 .. ElementsLeft - elements_left_total
      /\ rank > 0 => IsFiniteSet(SelectedRows) /\ Cardinality(SelectedRows) <= nr_elements_to_read
  BY <1>1, RunningFacts DEF OutputInv, CountInv
<1>4. /\ n \in Nat /\ n <= elements_left_total /\ f \in Nat /\ rank > 0
      /\ selected \in Seq([start : Nat, count : Nat])
  BY <1>1, SelectFacts
<1> HIDE DEF n, f
<1>5. RowsTaken = ElementsLeft - elements_left_total - nr_elements_to_read
  BY <1>1 DEF RowsTaken, RowsChosen
<1>6. RowsTaken' = ElementsLeft - elements_left_total' - nr_elements_to_read'
  BY <1>1, SizesSame DEF RowsTaken, RowsChosen
<1>7. RowsTaken' = RowsTaken
  BY <1>2, <1>3, <1>4, <1>5, <1>6
<1>8. /\ elements_left_total' \in 0 .. ElementsLeft
      /\ nr_elements_to_read' \in 0 .. ElementsLeft - elements_left_total'
  BY <1>2, <1>3, <1>4
<1>9. SelectedRows' = SelectedRows \cup (f .. f + n - 1)
  BY <1>2, <1>4, MoreRows DEF x
<1>10. IsFiniteSet(f .. f + n - 1) /\ Cardinality(f .. f + n - 1) = n
  <2>1. f \in Int /\ f + n - 1 \in Int
    BY <1>4
  <2>2. /\ IsFiniteSet(f .. f + n - 1)
        /\ Cardinality(f .. f + n - 1) = IF f > f + n - 1 THEN 0 ELSE (f + n - 1) - f + 1
    BY <2>1, FS_Interval
  <2>. QED
    BY <1>4, <2>2
<1>11. IsFiniteSet(SelectedRows') /\ Cardinality(SelectedRows') <= nr_elements_to_read'
  <2> DEFINE I == f .. f + n - 1
             U == SelectedRows \cup I
  <2>1. IsFiniteSet(I) /\ Cardinality(I) = n /\ IsFiniteSet(SelectedRows)
    BY <1>3, <1>4, <1>10
  <2> HIDE DEF I
  <2>2. /\ IsFiniteSet(U)
        /\ Cardinality(U) = Cardinality(SelectedRows) + Cardinality(I) - Cardinality(SelectedRows \cap I)
    BY <2>1, FS_Union
  <2>3. IsFiniteSet(SelectedRows \cap I)
    BY <2>1, FS_Intersection
  <2>4. Cardinality(SelectedRows \cap I) \in Nat /\ Cardinality(SelectedRows) \in Nat
    BY <2>1, <2>3, FS_CardinalityType
  <2>5. SelectedRows' = U
    BY <1>9 DEF I
  <2> HIDE DEF U
  <2>6. Cardinality(U) <= nr_elements_to_read + n
    BY <1>3, <1>4, <2>1, <2>2, <2>4
  <2>. QED
    BY <1>2, <2>2, <2>5, <2>6
<1>12. rank # 0
  BY <1>4
<1>. QED
  BY <1>1, <1>3, <1>7, <1>8, <1>11, <1>12, KeepsOutput

LEMMA SelectedOutput ==
  ASSUME SliceInv, OutputInv, Selected
  PROVE  OutputInv'
<1>1. pc = "select" /\ pc' = "read" /\ Running /\ Running' /\ pc' # "body" /\ UNCHANGED input
      /\ UNCHANGED <<result, announced, packing>>
      /\ UNCHANGED <<elements_left_total, nr_elements_to_read, selected>>
  BY DEF Selected, Running, header, cursor, choice
<1>2. /\ ElementsLeft \in Nat /\ elements_left_total \in Nat /\ rank \in Nat /\ buffer = <<>>
      /\ elements_left_total \in 0 .. ElementsLeft
      /\ nr_elements_to_read \in 0 .. ElementsLeft - elements_left_total
      /\ rank = 0 => nr_elements_to_read = 1
      /\ rank > 0 => IsFiniteSet(SelectedRows) /\ Cardinality(SelectedRows) <= nr_elements_to_read
  BY <1>1, RunningFacts DEF OutputInv, CountInv
<1>3. SelectedRows' = SelectedRows
  BY <1>1 DEF SelectedRows
<1>4. RowsTaken' = RowsTaken
  BY <1>1, SizesSame DEF RowsTaken, RowsChosen
<1>. QED
  BY <1>1, <1>2, <1>3, <1>4, KeepsOutput

LEMMA PackedOutput ==
  ASSUME SliceInv, OutputInv, Packed
  PROVE  OutputInv'
<1>1. pc = "body" /\ pc' = "next" /\ Running /\ Running' /\ buffer = <<>> /\ UNCHANGED input
      /\ UNCHANGED <<result, announced, packing, elements_left_total>>
  BY DEF Packed, Running, header, cursor
<1>2. elements_left_total \in 0 .. ElementsLeft
  BY <1>1 DEF OutputInv, CountInv
<1>3. RowsTaken' = RowsTaken
  BY <1>1, SizesSame DEF RowsTaken, RowsChosen
<1>. QED
  BY <1>1, <1>2, <1>3, KeepsOutput

LEMMA ReadOutput ==
  ASSUME SliceInv, OutputInv, Read
  PROVE  OutputInv'
<1>1. CASE End("failed")
  BY <1>1, EndsOutput DEF End, Running, Before
<1>2. CASE CanRead /\ buffer' = UnitsOf(InFileOrder(Selection)) /\ pc' = "body" /\ UNCHANGED result
  <2> DEFINE p == Product(InnerCounts)
             n == nr_elements_to_read
             c == Cardinality(Selection)
             R == RowsTaken
  <2>1. /\ pc = "read" /\ Running /\ Running' /\ UNCHANGED input /\ pc' \notin Before
        /\ UNCHANGED <<announced, elements_left_total, total_bytes_left, bytes_left_in_bin, bins, out>>
    BY <1>2 DEF Read, Running, header, cursor, Before
  <2>2. /\ IsDataset(dataset) /\ GoodRequest /\ slices # <<>> /\ (rank > 0 => Apart)
        /\ rank \in Nat /\ result = "none" /\ ElementsLeft \in Nat /\ RowUnits \in Nat /\ UnitSize \in Nat \ {0}
        /\ elements_left_total \in Nat /\ R \in Nat /\ Len(out) \in Nat
    BY <2>1, RunningFacts DEF OutputInv
  <2>3. /\ announced = NrEntries /\ elements_left_total \in 0 .. ElementsLeft
        /\ rank > 0 /\ dims # <<>> => RowsOf(Len(slices)) <= dims[1]
        /\ n \in 0 .. ElementsLeft - elements_left_total
        /\ rank = 0 => n = 1
        /\ rank > 0 => IsFiniteSet(SelectedRows) /\ Cardinality(SelectedRows) <= n
        /\ buffer = <<>> /\ out \in Seq(Nat)
        /\ Len(out) + Len(buffer) = R * RowUnits
        /\ R > 0 => NoWrap
    BY <2>1 DEF OutputInv, CountInv
  <2>4. /\ ElementsLeft' = ElementsLeft /\ RowUnits' = RowUnits /\ NrEntries' = NrEntries
        /\ DataSize' = DataSize /\ (NoWrap' <=> NoWrap) /\ rank' = rank /\ dims' = dims /\ slices' = slices
        /\ dataset' = dataset
    BY <2>1, SizesSame, InputSame
  <2>5. RowsTaken' = R + n
    <3>1. R = ElementsLeft - elements_left_total - n
      BY <2>1 DEF RowsTaken, RowsChosen
    <3>2. RowsTaken' = ElementsLeft - elements_left_total - 0
      BY <1>2, <2>1, <2>4 DEF RowsTaken, RowsChosen
    <3>. QED
      BY <2>2, <2>3, <3>1, <3>2
  <2>6. p \in Nat /\ n \in Nat /\ (rank = 0 => p = 1)
    BY <2>2, <2>3, AskedFor
  <2>7. c = n * p
    <3>1. CASE rank = 0
      BY <1>2, <2>3, <2>6, <3>1 DEF CanRead
    <3>2. CASE rank # 0
      BY <1>2, <3>2 DEF CanRead
    <3>. QED
      BY <3>1, <3>2
  <2>8. buffer' \in Seq(Nat) /\ Len(buffer') = c * UnitSize
    <3>1. Selection \in SUBSET Elements
      BY DEF Selection
    <3>2. Selection \in SUBSET Nat /\ IsFiniteSet(Selection)
      BY <2>2, <3>1, ElementsFinite
    <3>3. InFileOrder(Selection) \in Seq(Nat) /\ Len(InFileOrder(Selection)) = c
      BY <3>2, OrderFacts
    <3>4. UnitsOf(InFileOrder(Selection)) \in Seq(Nat)
          /\ Len(UnitsOf(InFileOrder(Selection))) = Len(InFileOrder(Selection)) * UnitSize
      BY <2>2, <3>3, UnitsOfFacts
    <3>. QED
      BY <1>2, <3>3, <3>4
  <2>9. (R + n) > 0 => NoWrap
    <3>1. CASE n = 0
      BY <2>2, <2>3, <3>1
    <3>2. CASE n # 0
      <4>1. n \in Nat \ {0}
        BY <2>6, <3>2
      <4>2. rank > 0 => p > 0
        <5>1. ASSUME rank > 0, p = 0 PROVE FALSE
          <6>1. ElementsLeft = 0
            BY <2>2, <5>1, LeftAtFirst
          <6>. QED
            BY <2>2, <2>3, <3>2, <6>1
        <5>. QED
          BY <2>6, <5>1
      <4>. QED
        BY <1>2, <2>2, <2>3, <4>1, <4>2, ReadNoWrap
    <3>. QED
      BY <3>1, <3>2
  <2>10. Len(out) + Len(buffer') = (R + n) * RowUnits
    <3>1. Len(buffer) = 0
      BY <2>3
    <3>2. Len(out) = R * RowUnits
      BY <2>2, <2>3, <3>1
    <3>3. RowUnits = UnitSize * p
      BY DEF RowUnits
    <3> HIDE DEF p, n, c, R
    <3>4. (n * p) * UnitSize = n * (UnitSize * p)
      BY <2>2, <2>6
    <3>5. (R + n) * RowUnits = R * RowUnits + n * RowUnits
      BY <2>2, <2>6
    <3>. QED
      BY <2>7, <2>8, <3>2, <3>3, <3>4, <3>5
  <2>11. CountInv'
    <3>1. RowsOf(Len(slices))' = RowsOf(Len(slices))
      BY <2>4 DEF RowsOf
    <3>2. Len(out') + Len(buffer') = RowsTaken' * RowUnits'
      BY <2>1, <2>4, <2>5, <2>10
    <3>3. RowsTaken' > 0 => NoWrap'
      BY <2>4, <2>5, <2>9
    <3> HIDE DEF p, n, c, R
    <3>. QED
      BY <1>2, <2>1, <2>3, <2>4, <2>8, <3>1, <3>2, <3>3 DEF CountInv
  <2>12. BinsInv'
    <3>1. R > 0 => RowsTaken' > 0
      BY <2>2, <2>5, <2>6
    <3>. QED
      BY <2>1, <2>4, <3>1 DEF OutputInv, BinsInv
  <2>. QED
    BY <1>2, <2>1, <2>2, <2>11, <2>12 DEF OutputInv, FreshInv, EndInv
<1>. QED
  BY <1>1, <1>2 DEF Read

LEMMA PackElementOutput ==
  ASSUME SliceInv, OutputInv, PackElement
  PROVE  OutputInv'
<1>1. /\ pc = "body" /\ pc' = "body" /\ Running /\ Running' /\ UNCHANGED input /\ pc' \notin Before
      /\ UNCHANGED <<result, announced, elements_left_total, bins>>
      /\ dataset.kind = "vlen" /\ buffer # <<>> /\ out' = Append(out, Head(buffer)) /\ buffer' = Tail(buffer)
  BY DEF PackElement, Running, header, cursor, Before
<1>2. /\ announced = NrEntries /\ elements_left_total \in 0 .. ElementsLeft
      /\ rank > 0 /\ dims # <<>> => RowsOf(Len(slices)) <= dims[1]
      /\ out \in Seq(Nat) /\ buffer \in Seq(Nat)
      /\ Len(out) + Len(buffer) = RowsTaken * RowUnits
      /\ RowsTaken > 0 => NoWrap
  BY <1>1 DEF OutputInv, CountInv
<1>3. /\ ElementsLeft' = ElementsLeft /\ RowUnits' = RowUnits /\ NrEntries' = NrEntries
      /\ (NoWrap' <=> NoWrap) /\ rank' = rank /\ dims' = dims /\ slices' = slices /\ dataset' = dataset
  BY <1>1, SizesSame, InputSame
<1>4. RowsTaken' = RowsTaken
  BY <1>1, <1>3 DEF RowsTaken, RowsChosen
<1>5. /\ out' \in Seq(Nat) /\ buffer' \in Seq(Nat)
      /\ Len(out') = Len(out) + 1 /\ Len(buffer') = Len(buffer) - 1 /\ Len(out) \in Nat /\ Len(buffer) \in Nat
  <2>1. Head(buffer) \in Nat /\ Tail(buffer) \in Seq(Nat) /\ Len(Tail(buffer)) = Len(buffer) - 1
    BY <1>1, <1>2
  <2>2. Append(out, Head(buffer)) \in Seq(Nat) /\ Len(Append(out, Head(buffer))) = Len(out) + 1
    BY <1>2, <2>1, AppendProperties
  <2>. QED
    BY <1>1, <1>2, <2>1, <2>2
<1>6. Len(out') + Len(buffer') = RowsTaken' * RowUnits'
  <2>1. Len(out') + Len(buffer') = Len(out) + Len(buffer)
    BY <1>5
  <2>. QED
    BY <1>2, <1>3, <1>4, <2>1
<1>7. RowsOf(Len(slices))' = RowsOf(Len(slices))
  BY <1>3 DEF RowsOf
<1>8. CountInv'
  BY <1>1, <1>2, <1>3, <1>4, <1>5, <1>6, <1>7 DEF CountInv
<1>9. BinsInv'
  BY <1>1, <1>3, <1>4 DEF OutputInv, BinsInv
<1>10. result = "none"
  BY <1>1, RunningFacts DEF OutputInv
<1>. QED
  BY <1>1, <1>8, <1>9, <1>10 DEF OutputInv, FreshInv, EndInv

(* n of the bytes in the buffer are packed *)
LEMMA CutProperties ==
  ASSUME NEW T, NEW t \in Seq(T), NEW m \in 1 .. Len(t) + 1, NEW l \in m - 1 .. Len(t)
  PROVE  /\ SubSeq(t, m, l) \in Seq(T) /\ Len(SubSeq(t, m, l)) = l - m + 1
         /\ \A i \in 1 .. l - m + 1 : SubSeq(t, m, l)[i] = t[m + i - 1]
  BY SubSeqProperties

LEMMA PackingMoves ==
  ASSUME NEW s \in Seq(Nat), NEW t \in Seq(Nat), NEW n \in 0 .. Len(t)
  PROVE  /\ s \o SubSeq(t, 1, n) \in Seq(Nat) /\ SubSeq(t, n + 1, Len(t)) \in Seq(Nat)
         /\ Len(s \o SubSeq(t, 1, n)) = Len(s) + n /\ Len(SubSeq(t, n + 1, Len(t))) = Len(t) - n
         /\ (s \o SubSeq(t, 1, n)) \o SubSeq(t, n + 1, Len(t)) = s \o t
<1> DEFINE a == SubSeq(t, 1, n)
           b == SubSeq(t, n + 1, Len(t))
<1>0. Len(t) \in Nat /\ n \in Nat /\ n <= Len(t)
  OBVIOUS
<1>1. a \in Seq(Nat) /\ Len(a) = n /\ \A i \in 1 .. n : a[i] = t[i]
  <2>1. 1 \in 1 .. Len(t) + 1 /\ n \in 1 - 1 .. Len(t)
    BY <1>0
  <2>2. a \in Seq(Nat) /\ Len(a) = n - 1 + 1 /\ \A i \in 1 .. n - 1 + 1 : a[i] = t[1 + i - 1]
    BY <2>1, SubSeqProperties, SMTT(40)
  <2> HIDE DEF a
  <2>3. n - 1 + 1 = n
    BY <1>0
  <2>4. \A i \in 1 .. n : 1 + i - 1 = i
    BY <1>0
  <2>. QED
    BY <2>2, <2>3, <2>4
<1>2. b \in Seq(Nat) /\ Len(b) = Len(t) - n /\ \A i \in 1 .. Len(t) - n : b[i] = t[n + i]
  <2>1. n + 1 \in 1 .. Len(t) + 1 /\ Len(t) \in (n + 1) - 1 .. Len(t)
    BY <1>0
  <2>2. /\ b \in Seq(Nat) /\ Len(b) = Len(t) - (n + 1) + 1
        /\ \A i \in 1 .. Len(t) - (n + 1) + 1 : b[i] = t[(n + 1) + i - 1]
    <3>1. ASSUME NEW m \in Int, NEW l \in Int, m \in 1 .. Len(t) + 1, l \in m - 1 .. Len(t)
          PROVE  /\ SubSeq(t, m, l) \in Seq(Nat) /\ Len(SubSeq(t, m, l)) = l - m + 1
                 /\ \A i \in 1 .. l - m + 1 : SubSeq(t, m, l)[i] = t[m + i - 1]
      BY <3>1, CutProperties
    <3>2. n + 1 \in Int /\ Len(t) \in Int
      BY <1>0
    <3>. QED
      BY <2>1, <3>1, <3>2
  <2> HIDE DEF b
  <2>3. Len(t) - (n + 1) + 1 = Len(t) - n
    BY <1>0
  <2>4. \A i \in 1 .. Len(t) - n : (n + 1) + i - 1 = n + i
    BY <1>0
  <2>. QED
    BY <2>2, <2>3, <2>4
<1> HIDE DEF a, b
<1>3. s \o a \in Seq(Nat) /\ Len(s \o a) = Len(s) + n
  BY <1>1, ConcatProperties
<1>4. a \o b = t
  <2> DEFINE ab == a \o b
  <2>1. /\ ab \in Seq(Nat) /\ Len(ab) = Len(a) + Len(b)
        /\ \A i \in 1 .. Len(a) + Len(b) : ab[i] = IF i <= Len(a) THEN a[i] ELSE b[i - Len(a)]
    BY <1>1, <1>2, ConcatProperties
  <2> HIDE DEF ab
  <2>2. Len(ab) = Len(t)
    BY <1>0, <1>1, <1>2, <2>1
  <2>3. ASSUME NEW i \in 1 .. Len(t) PROVE ab[i] = t[i]
    <3>1. CASE i <= n
      BY <1>0, <1>1, <2>1, <2>2, <3>1
    <3>2. CASE ~(i <= n)
      <4>1. i - n \in 1 .. Len(t) - n /\ n + (i - n) = i
        BY <1>0, <3>2
      <4>2. ab[i] = b[i - n]
        BY <1>0, <1>1, <2>1, <2>2, <3>2
      <4>. QED
        BY <1>2, <4>1, <4>2
    <3>. QED
      BY <3>1, <3>2
  <2>4. ab = t
    BY <2>1, <2>2, <2>3, SeqEqual
  <2>. QED
    BY <2>4 DEF ab
<1>5. (s \o a) \o b = s \o (a \o b)
  <2>1. s \in Seq(Nat) /\ a \in Seq(Nat) /\ b \in Seq(Nat)
    BY <1>1, <1>2
  <2>. QED
    BY <2>1, NatConcat, Zenon
<1>6. (s \o a) \o b = s \o t
  BY <1>4, <1>5, Zenon
<1>. QED
  BY <1>2, <1>3, <1>6 DEF a, b

LEMMA PackBinOutput ==
  ASSUME SliceInv, OutputInv, PackBin
  PROVE  OutputInv'
<1> DEFINE T == total_bytes_left
           b == bytes_left_in_bin
           D == DataSize
           M == MaxSize
           o == Len(out)
           l == Len(buffer)
           bin == MinSize(T, M)
           space == IF b = 0 THEN bin ELSE b
           n == MinSize(l, space)
           B == Len(bins)
<1>1. /\ pc = "body" /\ pc' = "body" /\ Running /\ Running' /\ UNCHANGED input /\ pc' \notin Before
      /\ UNCHANGED <<result, announced, elements_left_total>>
      /\ dataset.kind = "fixed" /\ buffer # <<>>
  BY DEF PackBin, Running, header, cursor, Before
<1>2. /\ bins' = IF b = 0 THEN Append(bins, bin) ELSE bins
      /\ total_bytes_left' = IF b = 0 THEN T - bin ELSE T
      /\ bytes_left_in_bin' = space - n
      /\ out' = out \o SubSeq(buffer, 1, n)
      /\ buffer' = SubSeq(buffer, n + 1, l)
  BY DEF PackBin
<1>3. /\ announced = NrEntries /\ elements_left_total \in 0 .. ElementsLeft
      /\ rank > 0 /\ dims # <<>> => RowsOf(Len(slices)) <= dims[1]
      /\ out \in Seq(Nat) /\ buffer \in Seq(Nat)
      /\ o + l = RowsTaken * RowUnits
      /\ RowsTaken > 0 => NoWrap
  BY <1>1 DEF OutputInv, CountInv
<1>4. /\ IsDataset(dataset) /\ GoodRequest /\ slices # <<>> /\ (rank > 0 => Apart)
      /\ result = "none" /\ ElementsLeft \in Nat /\ RowUnits \in Nat
      /\ RowsTaken \in Nat /\ o \in Nat /\ l \in Nat /\ announced \in Nat
      /\ RowsTaken * RowUnits \in Nat /\ RowsTaken * RowUnits <= ElementsLeft * RowUnits
      /\ D \in Nat /\ D < Width
  BY <1>1, RunningFacts DEF OutputInv
<1>5. M \in Nat \ {0} /\ Width \in Nat \ {0}
  BY SliceConstants
<1>6. /\ bins \in Seq(1 .. M) /\ T \in Nat /\ b \in Nat /\ T + b + o = D
      /\ Total(bins) = o + b
      /\ IF T > 0 THEN B * M + T = D ELSE B = announced
  BY <1>1 DEF OutputInv, BinsInv
<1>7. l > 0 /\ B \in Nat
  BY <1>1, <1>3, <1>4, <1>6, EmptySeq
<1>8. RowsTaken > 0 /\ NoWrap
  <2>1. SUFFICES ASSUME RowsTaken = 0 PROVE FALSE
    BY <1>3, <1>4
  <2>2. 0 * RowUnits = 0
    BY <1>4
  <2>. QED
    BY <1>3, <1>4, <1>7, <2>1, <2>2
<1>9. D = ElementsLeft * RowUnits /\ announced = (D + M - 1) \div M
  BY <1>1, <1>3, <1>4, <1>8, NoWrapFacts DEF NrEntries
<1>10. o + l <= D
  BY <1>3, <1>4, <1>9
<1>11. /\ ElementsLeft' = ElementsLeft /\ RowUnits' = RowUnits /\ NrEntries' = NrEntries /\ DataSize' = D
       /\ (NoWrap' <=> NoWrap) /\ rank' = rank /\ dims' = dims /\ slices' = slices /\ dataset' = dataset
  BY <1>1, SizesSame, InputSame
<1>12. RowsTaken' = RowsTaken
  BY <1>1, <1>11 DEF RowsTaken, RowsChosen
<1>13. b = 0 => T >= l /\ bin \in 1 .. M /\ bin <= T /\ (T > M => bin = M) /\ (T <= M => bin = T)
  <2> HIDE DEF D
  <2>. QED
    BY <1>4, <1>5, <1>6, <1>7, <1>10 DEF MinSize
<1>14. space \in Nat \ {0}
  BY <1>6, <1>13
<1>15. n \in 1 .. l /\ n <= space
  <2> HIDE DEF space
  <2>. QED
    BY <1>4, <1>7, <1>14 DEF MinSize
<1>16. /\ out' \in Seq(Nat) /\ buffer' \in Seq(Nat) /\ Len(out') = o + n /\ Len(buffer') = l - n
  <2> HIDE DEF n
  <2>1. n \in 0 .. l
    BY <1>15
  <2>. QED
    BY <1>2, <1>3, <2>1, PackingMoves
<1> HIDE DEF n, bin, D, T, b, o, l, B
<1>17. CountInv'
  <2>1. Len(out') + Len(buffer') = o + l
    BY <1>4, <1>15, <1>16
  <2>2. Len(out') + Len(buffer') = RowsTaken' * RowUnits'
    BY <1>3, <1>11, <1>12, <2>1
  <2>3. RowsOf(Len(slices))' = RowsOf(Len(slices))
    BY <1>11 DEF RowsOf
  <2>. QED
    BY <1>1, <1>3, <1>8, <1>11, <1>12, <1>16, <2>2, <2>3 DEF CountInv
<1>18. /\ bins' \in Seq(1 .. M) /\ total_bytes_left' \in Nat /\ bytes_left_in_bin' \in Nat
       /\ total_bytes_left' + bytes_left_in_bin' + Len(out') = D
       /\ Total(bins') = Len(out') + bytes_left_in_bin'
       /\ IF total_bytes_left' > 0 THEN Len(bins') * M + total_bytes_left' = D ELSE Len(bins') = announced
  <2>1. CASE b = 0
    <3>1. /\ bins' = Append(bins, bin) /\ total_bytes_left' = T - bin /\ bytes_left_in_bin' = bin - n
      BY <1>2, <2>1
    <3>2. /\ T \in Nat /\ T >= l /\ l \in Nat /\ bin \in 1 .. M /\ bin <= T /\ n \in 1 .. l /\ n <= bin
          /\ (T > M => bin = M) /\ (T <= M => bin = T) /\ T > 0
      BY <1>4, <1>6, <1>7, <1>13, <1>15, <2>1
    <3>3. /\ Append(bins, bin) \in Seq(1 .. M) /\ Len(Append(bins, bin)) = B + 1
      BY <1>6, <3>2, AppendProperties DEF B
    <3>4. T + o = D /\ Total(bins) = o /\ B * M + T = D
      BY <1>4, <1>6, <2>1, <3>2
    <3>5. Total(Append(bins, bin)) = (Total(bins) + bin) % Width
      <4>1. bins \in Seq(Nat) /\ bin \in Nat
        BY <1>5, <1>6, <3>2
      <4>. QED
        BY <4>1, TotalAppend
    <3>6. (o + bin) % Width = o + bin
      <4>1. o + bin \in Nat /\ o + bin < Width
        BY <1>4, <1>5, <3>2, <3>4
      <4>. QED
        BY <1>5, <4>1, ModFacts
    <3>7. total_bytes_left' \in Nat /\ bytes_left_in_bin' \in Nat
      BY <1>5, <3>1, <3>2
    <3>8. total_bytes_left' + bytes_left_in_bin' + Len(out') = D
      BY <1>4, <1>5, <1>16, <3>1, <3>2, <3>4
    <3>9. Total(bins') = Len(out') + bytes_left_in_bin'
      BY <1>4, <1>5, <1>16, <3>1, <3>2, <3>4, <3>5, <3>6
    <3>10. CASE T > M
      <4>1. bin = M /\ total_bytes_left' = T - M /\ T - M > 0
        BY <1>5, <3>1, <3>2, <3>10
      <4>2. (B + 1) * M = B * M + M
        BY <1>5, <1>7
      <4>3. B * M \in Nat
        BY <1>5, <1>7
      <4>4. (B + 1) * M + (T - M) = D
        BY <1>4, <1>5, <3>2, <3>4, <4>2, <4>3
      <4>. QED
        BY <3>1, <3>3, <3>7, <3>8, <3>9, <4>1, <4>4
    <3>11. CASE ~(T > M)
      <4>1. bin = T /\ T <= M
        BY <1>5, <3>2, <3>11
      <4>2. total_bytes_left' = 0
        BY <3>1, <3>2, <4>1
      <4>3. (D + M - 1) \div M = B + 1
        BY <1>4, <1>5, <1>7, <3>2, <3>4, <4>1, BinsTaken
      <4>. QED
        BY <1>9, <3>1, <3>3, <3>7, <3>8, <3>9, <4>2, <4>3
    <3>. QED
      BY <3>10, <3>11
  <2>2. CASE b # 0
    <3>1. bins' = bins /\ total_bytes_left' = T /\ bytes_left_in_bin' = b - n /\ n <= b /\ n \in Nat
      BY <1>2, <1>4, <1>15, <2>2
    <3>2. bytes_left_in_bin' \in Nat /\ bytes_left_in_bin' + (o + n) = b + o
      BY <1>4, <1>6, <3>1
    <3>3. total_bytes_left' + bytes_left_in_bin' + Len(out') = D
      BY <1>4, <1>6, <1>16, <3>1
    <3>4. Total(bins') = Len(out') + bytes_left_in_bin'
      BY <1>4, <1>6, <1>16, <3>1
    <3>. QED
      BY <1>6, <3>1, <3>2, <3>3, <3>4 DEF B
  <2>. QED
    BY <2>1, <2>2
<1>19. BinsInv'
  BY <1>1, <1>8, <1>11, <1>12, <1>18 DEF BinsInv
<1>. QED
  BY <1>1, <1>4, <1>17, <1>19 DEF OutputInv, FreshInv, EndInv

LEMMA OutputInvInit == WalkInit => OutputInv
<1> SUFFICES ASSUME WalkInit PROVE OutputInv
  OBVIOUS
<1>1. /\ pc \in {"begin", "open"} /\ result = "none"
      /\ out = <<>> /\ buffer = <<>> /\ bins = <<>> /\ bytes_left_in_bin = 0
  BY DEF WalkInit, Init, Fresh
<1>2. ~Running
  BY <1>1 DEF Running
<1>. QED
  BY <1>1, <1>2 DEF OutputInv, FreshInv, CountInv, BinsInv, EndInv

(* The walk from object to object, which packs no data *)
LEMMA WalkOutput ==
  ASSUME SliceInv, OutputInv, Walk
  PROVE  OutputInv'
<1>0. pc \in Before => result = "none"
  BY DEF SliceInv, InputInv, Before
<1>1. ASSUME NEW r, r # "ok", End(r) PROVE OutputInv'
  BY <1>1, EndsOutput DEF End, Running, Before
<1>2. ASSUME pc \in Before, pc' \in Before, UNCHANGED <<result, packing>> PROVE OutputInv'
  BY <1>0, <1>2, WalksOutput
<1>3. CASE OpenFails \/ WalkFails
  BY <1>1, <1>3 DEF OpenFails, WalkFails
<1>4. CASE OpenTooDeep \/ OpenUnknown
  <2>1. pc \in Before /\ Continue /\ UNCHANGED packing
    BY <1>4 DEF OpenTooDeep, OpenUnknown, Before
  <2>. QED
    BY <1>1, <1>2, <2>1 DEF Continue, Before
<1>5. CASE OpenGroup \/ OpenDataset
  <2>1. pc \in Before /\ pc' \in Before /\ UNCHANGED <<result, packing>>
    BY <1>5 DEF OpenGroup, OpenDataset, Before
  <2>. QED
    BY <1>2, <2>1
<1>6. CASE VisitLink
  <2>1. pc \in Before /\ pc' \in Before /\ UNCHANGED <<result, packing>>
    BY <1>6 DEF VisitLink, Before
  <2>. QED
    BY <1>2, <2>1
<1>7. CASE GroupPacked
  <2>1. pc \in Before /\ UNCHANGED packing /\ (End("walked") \/ UNCHANGED <<pc, result>>)
    BY <1>7 DEF GroupPacked, Before
  <2>. QED
    BY <1>1, <1>2, <2>1
<1>8. CASE DatasetPacked
  <2>1. /\ pc' = "links" /\ result' = "none" /\ bytes_left_in_bin' = 0
        /\ bins' = <<>> /\ buffer' = <<>> /\ out' = <<>>
    BY <1>8 DEF DatasetPacked
  <2>2. ~Running'
    BY <2>1 DEF Running
  <2>. QED
    BY <2>1, <2>2 DEF OutputInv, FreshInv, CountInv, BinsInv, EndInv
<1>. QED
  BY <1>3, <1>4, <1>5, <1>6, <1>7, <1>8 DEF Walk

LEMMA SlicesOutput ==
  ASSUME SliceInv, OutputInv, Next
  PROVE  OutputInv'
<1>1. ASSUME NEW r, r # "ok", End(r) PROVE OutputInv'
  BY <1>1, EndsOutput DEF End, Running, Before
<1>2. CASE PackDataset
  <2>1. CASE End("refused") \/ End("no_data")
    BY <1>1, <2>1
  <2>2. CASE pc' = "begin" /\ UNCHANGED result
    <3>1. pc \in Before /\ pc' \in Before /\ result = "none" /\ UNCHANGED <<result, packing>>
      BY <1>2, <2>2 DEF PackDataset, Before, SliceInv, InputInv
    <3>. QED
      BY <3>1, WalksOutput
  <2>. QED
    BY <1>2, <2>1, <2>2 DEF PackDataset
<1>3. CASE DivideByZero \/ Refuse \/ PackNested \/ Fail
  BY <1>1, <1>3 DEF DivideByZero, Refuse, PackNested, Fail
<1>4. CASE Start
  BY <1>4, StartsOutput
<1>5. CASE SelectNext
  BY <1>5, SelectNextOutput
<1>6. CASE SelectSlice
  BY <1>6, SelectSliceOutput
<1>7. CASE Selected
  BY <1>7, SelectedOutput
<1>8. CASE Read
  BY <1>8, ReadOutput
<1>9. CASE PackBin
  BY <1>9, PackBinOutput
<1>10. CASE PackElement
  BY <1>10, PackElementOutput
<1>11. CASE Packed
  BY <1>11, PackedOutput
<1>. QED
  BY <1>2, <1>3, <1>4, <1>5, <1>6, <1>7, <1>8, <1>9, <1>10, <1>11 DEF Next

LEMMA StutterOutput ==
  ASSUME SliceInv, OutputInv, UNCHANGED allvars
  PROVE  OutputInv'
<1>1. /\ UNCHANGED input /\ UNCHANGED <<pc, result, announced, packing>>
      /\ UNCHANGED <<elements_left_total, nr_elements_to_read, selected>>
      /\ UNCHANGED <<total_bytes_left, bytes_left_in_bin, bins, buffer, out>>
  BY DEF allvars, vars, header, cursor, choice, packing
<1>2. (Running' <=> Running) /\ SelectedRows' = SelectedRows
  BY <1>1 DEF Running, SelectedRows
<1>3. RowsTaken' = RowsTaken
  BY <1>1, SizesSame DEF RowsTaken, RowsChosen
<1>4. CASE Running
  <2>1. /\ elements_left_total \in 0 .. ElementsLeft
        /\ pc # "body" => buffer = <<>>
        /\ pc \in {"select", "read"} =>
             /\ nr_elements_to_read \in 0 .. ElementsLeft - elements_left_total
             /\ rank = 0 => nr_elements_to_read = 1
             /\ rank > 0 => IsFiniteSet(SelectedRows) /\ Cardinality(SelectedRows) <= nr_elements_to_read
    BY <1>4 DEF OutputInv, CountInv
  <2>. QED
    BY <1>1, <1>2, <1>3, <1>4, <2>1, KeepsOutput
<1>5. CASE ~Running
  <2>1. AllPacked' <=> AllPacked
    BY <1>1, InputSame DEF AllPacked, BinsFilled
  <2>. QED
    BY <1>1, <1>2, <1>5, <2>1 DEF OutputInv, FreshInv, CountInv, BinsInv, EndInv
<1>. QED
  BY <1>4, <1>5

LEMMA OutputInvariant == WalkSpec => []OutputInv
<1>1. SliceInv /\ OutputInv /\ [WalkNext]_allvars => OutputInv'
  <2> SUFFICES ASSUME SliceInv, OutputInv, [WalkNext]_allvars PROVE OutputInv'
    OBVIOUS
  <2>1. CASE Walk
    BY <2>1, WalkOutput
  <2>2. CASE Next /\ UNCHANGED walk
    BY <2>2, SlicesOutput
  <2>3. CASE UNCHANGED allvars
    BY <2>3, StutterOutput
  <2>. QED
    BY <2>1, <2>2, <2>3 DEF WalkNext
<1>. QED
  BY <1>1, OutputInvInit, SliceInvariant, PTL DEF WalkSpec

(* pack_contents_header announces, before anything is read, the number of    *)
(* msgpack_bins or elements that pack_contents_body goes on to write, and    *)
(* every bin is filled to the length in its own header, for datasets and     *)
(* requests of any rank and size, any buffer and any width of size_t: a size *)
(* that wraps belongs to a request of which nothing can be read.             *)
THEOREM HeaderAlwaysHonest == WalkSpec => []HeaderHonest
<1>1. SliceInv /\ OutputInv => HeaderHonest
  <2> SUFFICES ASSUME SliceInv, OutputInv PROVE HeaderHonest
    OBVIOUS
  <2>1. CASE Running
    <3>1. BinsFilled /\ result = "none"
      BY <2>1, BinsFit, RunningFacts DEF OutputInv
    <3>. QED
      BY <3>1 DEF HeaderHonest, BinsFilled
  <2>2. CASE ~Running
    BY <2>2 DEF HeaderHonest, OutputInv, EndInv, AllPacked, BinsFilled
  <2>. QED
    BY <2>1, <2>2
<1>. QED
  BY <1>1, SliceInvariant, OutputInvariant, PTL

-----------------------------------------------------------------------------
(* What is sent of a set of rows *)

(* An element is within the slices in all dimensions but the first *)
Column(e) ==
  \A d \in DOMAIN dims : d # 1 => Coordinate(e, d) \in inner[d].start .. inner[d].start + inner[d].count - 1

InRows(R) == { e \in Elements : Coordinate(e, 1) \in R /\ Column(e) }
Sent(R) == UnitsOf(InFileOrder(InRows(R)))

LEMMA WithinIs ==
  ASSUME IsDataset(dataset), dims # <<>>, NEW e, NEW s
  PROVE  Within(e, Slab(s)) <=> Coordinate(e, 1) \in s.start .. s.start + s.count - 1 /\ Column(e)
<1>1. 1 \in DOMAIN dims
  <2>1. 1 \in 1 .. Len(dims)
    BY RowSizeFacts
  <2>2. dims \in Seq(Nat)
    BY DatasetFacts
  <2>. QED
    BY <2>1, <2>2
<1>2. DOMAIN Slab(s) = DOMAIN dims /\ \A d \in DOMAIN dims : Slab(s)[d] = IF d = 1 THEN s ELSE inner[d]
  BY DEF Slab
<1>3. Slab(s)[1] = s /\ \A d \in DOMAIN dims : d # 1 => Slab(s)[d] = inner[d]
  BY <1>1, <1>2
<1>. QED
  BY <1>1, <1>2, <1>3, Zenon DEF Within, Column

LEMMA InRowsFacts ==
  ASSUME IsDataset(dataset), NEW R
  PROVE  /\ InRows(R) \in SUBSET Elements /\ InRows(R) \in SUBSET Nat /\ IsFiniteSet(InRows(R))
         /\ InFileOrder(InRows(R)) \in Seq(Nat) /\ Sent(R) \in Seq(Nat)
<1>1. InRows(R) \in SUBSET Elements
  BY DEF InRows
<1>2. InRows(R) \in SUBSET Nat /\ IsFiniteSet(InRows(R))
  BY <1>1, ElementsFinite
<1>3. InFileOrder(InRows(R)) \in Seq(Nat)
  BY <1>2, OrderFacts
<1>. QED
  BY <1>1, <1>2, <1>3, UnitsOfFacts DEF Sent

LEMMA OneRow ==
  ASSUME IsDataset(dataset), dims # <<>>, NEW r \in Nat
  PROVE  RowElements(r) = InFileOrder(InRows({r}))
<1> DEFINE s == [start |-> r, count |-> 1]
           S == { e \in Elements : Within(e, Slab(s)) }
<1>1. s.start .. s.start + s.count - 1 = {r}
  OBVIOUS
<1> HIDE DEF s
<1>2. ASSUME NEW e \in Elements PROVE Within(e, Slab(s)) <=> Coordinate(e, 1) \in {r} /\ Column(e)
  BY <1>1, WithinIs
<1>3. S = InRows({r})
  BY <1>2 DEF InRows
<1>. QED
  BY <1>3 DEF RowElements, s

LEMMA SelectionIs ==
  ASSUME IsDataset(dataset), dims # <<>>, rank \in Nat, rank > 0
  PROVE  Selection = InRows(SelectedRows)
<1>1. Selection = { e \in Elements : \E s \in ToSet(selected) : Within(e, Slab(s)) }
  BY DEF Selection
<1>2. ASSUME NEW e \in Elements
      PROVE  (\E s \in ToSet(selected) : Within(e, Slab(s))) <=> Coordinate(e, 1) \in SelectedRows /\ Column(e)
  <2>1. \A s \in ToSet(selected) : Within(e, Slab(s)) <=> Coordinate(e, 1) \in s.start .. s.start + s.count - 1 /\ Column(e)
    BY WithinIs
  <2>2. Coordinate(e, 1) \in SelectedRows <=> \E s \in ToSet(selected) : Coordinate(e, 1) \in s.start .. s.start + s.count - 1
    BY DEF SelectedRows
  <2>. QED
    BY <2>1, <2>2, Zenon
<1>. QED
  BY <1>1, <1>2 DEF InRows

LEMMA RowsConcat ==
  ASSUME IsDataset(dataset), dims # <<>>, NEW A \in SUBSET Nat, NEW B \in SUBSET Nat,
         \A a \in A, b \in B : a < b
  PROVE  /\ InFileOrder(InRows(A \cup B)) = InFileOrder(InRows(A)) \o InFileOrder(InRows(B))
         /\ Sent(A \cup B) = Sent(A) \o Sent(B)
<1>1. InRows(A \cup B) = InRows(A) \cup InRows(B)
  BY DEF InRows
<1>2. ASSUME NEW e \in InRows(A), NEW f \in InRows(B) PROVE e < f
  <2> DEFINE z == RowSize
             q == e \div z
             p == f \div z
  <2>1. e \in Elements /\ f \in Elements /\ Coordinate(e, 1) \in A /\ Coordinate(f, 1) \in B
    BY DEF InRows
  <2>2. e \in Nat /\ z \in Nat \ {0} /\ Coordinate(e, 1) = q /\ e % z \in 0 .. z - 1 /\ e = z * q + (e % z)
    BY <2>1, FirstCoordinate
  <2>3. f \in Nat /\ Coordinate(f, 1) = p /\ f % z \in 0 .. z - 1 /\ f = z * p + (f % z)
    BY <2>1, FirstCoordinate
  <2>4. q \in A /\ p \in B
    BY <2>1, <2>2, <2>3
  <2>5. q \in Nat /\ p \in Nat /\ q < p
    BY <2>4
  <2> HIDE DEF z, q, p
  <2>6. z * (q + 1) <= z * p
    BY <2>2, <2>5, TimesMonotone
  <2>7. z * (q + 1) = z * q + z /\ z * q \in Nat /\ z * p \in Nat
    BY <2>2, <2>5
  <2>. QED
    BY <2>2, <2>3, <2>6, <2>7
<1>3. /\ InRows(A) \in SUBSET Nat /\ IsFiniteSet(InRows(A)) /\ InRows(B) \in SUBSET Nat /\ IsFiniteSet(InRows(B))
      /\ InFileOrder(InRows(A)) \in Seq(Nat) /\ InFileOrder(InRows(B)) \in Seq(Nat)
  BY InRowsFacts
<1>4. InFileOrder(InRows(A) \cup InRows(B)) = InFileOrder(InRows(A)) \o InFileOrder(InRows(B))
  BY <1>2, <1>3, OrderUnion
<1>5. UnitsOf(InFileOrder(InRows(A)) \o InFileOrder(InRows(B)))
      = UnitsOf(InFileOrder(InRows(A))) \o UnitsOf(InFileOrder(InRows(B)))
  BY <1>3, UnitsOfConcat
<1>. QED
  BY <1>1, <1>4, <1>5, Zenon DEF Sent

(* The empty set of elements, and of rows *)
LEMMA NoElements ==
  ASSUME IsDataset(dataset), NEW R, InRows(R) = {}
  PROVE  InFileOrder(InRows(R)) = <<>> /\ Sent(R) = <<>>
<1>1. Cardinality({}) = 0 /\ {} \in SUBSET Nat /\ IsFiniteSet({})
  BY FS_EmptySet
<1>2. InFileOrder({}) \in Seq(Nat) /\ Len(InFileOrder({})) = 0
  BY <1>1, OrderFacts
<1>3. InFileOrder({}) = <<>>
  BY <1>2, EmptySeq
<1>4. <<>> \in Seq(Nat) /\ Len(<<>>) = 0
  OBVIOUS
<1>5. UnitsOf(<<>>) \in Seq(Nat) /\ Len(UnitsOf(<<>>)) = 0 * UnitSize
  BY <1>4, UnitsOfFacts
<1>6. UnitSize \in Nat
  <2>1. 0 \in Nat
    OBVIOUS
  <2>. QED
    BY <2>1, UnitsType
<1>7. 0 * UnitSize = 0
  BY <1>6
<1>8. UnitsOf(<<>>) = <<>>
  BY <1>5, <1>7, EmptySeq
<1>. QED
  BY <1>3, <1>8 DEF Sent

LEMMA NoRows ==
  ASSUME IsDataset(dataset)
  PROVE  InFileOrder(InRows({})) = <<>> /\ Sent({}) = <<>>
<1>1. InRows({}) = {}
  BY DEF InRows
<1>. QED
  BY <1>1, NoElements

-----------------------------------------------------------------------------
(* The rows that are asked for *)

LEMMA OrderAscends ==
  ASSUME NEW S \in SUBSET Nat, IsFiniteSet(S)
  PROVE  /\ \A i \in 1 .. Cardinality(S) : InFileOrder(S)[i] \in S
         /\ \A i, j \in 1 .. Cardinality(S) : i < j => InFileOrder(S)[i] < InFileOrder(S)[j]
         /\ \A e \in S : \E i \in 1 .. Cardinality(S) : InFileOrder(S)[i] = e
<1> DEFINE n == Cardinality(S)
           s == InFileOrder(S)
<1>1. n \in Nat /\ \A i \in 1 .. n, e \in S : RankIn(S, e) = i - 1 => s[i] = e
  BY OrderFacts
<1>2. /\ \A e \in S : RankIn(S, e) \in 0 .. n - 1
      /\ \A e, f \in S : e < f => RankIn(S, e) < RankIn(S, f)
  BY RankFacts
<1>3. ASSUME NEW i \in 1 .. n PROVE s[i] \in S /\ RankIn(S, s[i]) = i - 1
  <2>1. PICK e \in S : RankIn(S, e) = i - 1
    BY RankTaken
  <2>2. s[i] = e
    BY <1>1, <2>1
  <2>. QED
    BY <2>1, <2>2
<1> HIDE DEF s, n
<1>4. ASSUME NEW i \in 1 .. n, NEW j \in 1 .. n, i < j PROVE s[i] < s[j]
  <2>1. s[i] \in S /\ s[j] \in S /\ RankIn(S, s[i]) = i - 1 /\ RankIn(S, s[j]) = j - 1
    BY <1>3
  <2>2. s[i] \in Nat /\ s[j] \in Nat
    BY <2>1
  <2>3. CASE s[j] < s[i]
    <3>1. j - 1 < i - 1
      BY <1>2, <2>1, <2>3
    <3>. QED
      BY <1>1, <1>4, <3>1
  <2>4. CASE s[j] = s[i]
    <3>1. j - 1 = i - 1
      BY <2>1, <2>4
    <3>. QED
      BY <1>1, <1>4, <3>1
  <2>. QED
    BY <2>2, <2>3, <2>4
<1>5. ASSUME NEW e \in S PROVE \E i \in 1 .. n : s[i] = e
  <2>1. RankIn(S, e) \in 0 .. n - 1
    BY <1>2
  <2>2. RankIn(S, e) + 1 \in 1 .. n /\ RankIn(S, e) = (RankIn(S, e) + 1) - 1
    BY <1>1, <2>1
  <2>. QED
    BY <1>1, <2>2
<1>. QED
  BY <1>3, <1>4, <1>5 DEF s, n

Ascending(a, n) == [k \in 1 .. n |-> a + k - 1]

LEMMA OrderInterval ==
  ASSUME NEW a \in Nat, NEW n \in Nat
  PROVE  /\ a .. a + n - 1 \in SUBSET Nat /\ IsFiniteSet(a .. a + n - 1)
         /\ InFileOrder(a .. a + n - 1) = Ascending(a, n)
<1> DEFINE S == a .. a + n - 1
           s == InFileOrder(S)
           t == Ascending(a, n)
<1>1. S \in SUBSET Nat
  OBVIOUS
<1>2. IsFiniteSet(S) /\ Cardinality(S) = n
  <2>1. a \in Int /\ a + n - 1 \in Int
    OBVIOUS
  <2>2. IsFiniteSet(S) /\ Cardinality(S) = IF a > a + n - 1 THEN 0 ELSE (a + n - 1) - a + 1
    BY <2>1, FS_Interval
  <2>3. (IF a > a + n - 1 THEN 0 ELSE (a + n - 1) - a + 1) = n
    OBVIOUS
  <2>. QED
    BY <2>2, <2>3
<1>3. s \in Seq(Nat) /\ Len(s) = n /\ \A i \in 1 .. n, e \in S : RankIn(S, e) = i - 1 => s[i] = e
  <2> HIDE DEF S
  <2>. QED
    BY <1>1, <1>2, OrderFacts
<1>4. t \in Seq(Nat) /\ Len(t) = n /\ \A i \in 1 .. n : t[i] = a + i - 1
  <2>1. \A i \in 1 .. n : a + i - 1 \in Nat
    OBVIOUS
  <2>. QED
    BY <2>1 DEF Ascending
<1>5. ASSUME NEW i \in 1 .. n PROVE s[i] = t[i]
  <2> DEFINE e == a + i - 1
  <2>1. e \in S
    OBVIOUS
  <2>2. { f \in S : f < e } = a .. e - 1
    OBVIOUS
  <2>3. Cardinality(a .. e - 1) = i - 1
    <3>1. a \in Int /\ e - 1 \in Int
      OBVIOUS
    <3>2. Cardinality(a .. e - 1) = IF a > e - 1 THEN 0 ELSE (e - 1) - a + 1
      BY <3>1, FS_Interval
    <3>3. (IF a > e - 1 THEN 0 ELSE (e - 1) - a + 1) = i - 1
      OBVIOUS
    <3>. QED
      BY <3>2, <3>3
  <2> HIDE DEF e, S
  <2>4. RankIn(S, e) = i - 1
    BY <2>2, <2>3 DEF RankIn
  <2>5. s[i] = e
    BY <1>3, <2>1, <2>4
  <2>. QED
    BY <1>4, <2>5 DEF e
<1> HIDE DEF s, t
<1>6. s = t
  BY <1>3, <1>4, <1>5, SeqEqual
<1>. QED
  BY <1>1, <1>2, <1>6 DEF s, t

(* The first n rows of a slice, and the rows before the o-th of slice k + 1 *)
SliceRows(i, n) == slices[i].start[1] .. slices[i].start[1] + n - 1
Whole(i) == SliceRows(i, slices[i].count[1])
RowsUpTo(k, o) ==
  { r \in Nat : \E i \in 1 .. Len(slices) : (i <= k /\ r \in Whole(i)) \/ (i = k + 1 /\ r \in SliceRows(i, o)) }
AllRows == RowsUpTo(Len(slices), 0)

LEMMA InRowsUpTo ==
  ASSUME NEW k, NEW o, NEW r \in Nat
  PROVE  r \in RowsUpTo(k, o) <=>
           \/ \E i \in 1 .. Len(slices) : i <= k /\ r \in Whole(i)
           \/ k + 1 \in 1 .. Len(slices) /\ r \in SliceRows(k + 1, o)
<1>1. r \in RowsUpTo(k, o) <=>
        \E i \in 1 .. Len(slices) : (i <= k /\ r \in Whole(i)) \/ (i = k + 1 /\ r \in SliceRows(i, o))
  BY Zenon DEF RowsUpTo
<1>. QED
  BY <1>1, Zenon

LEMMA WholeBounds ==
  ASSUME NEW i, slices[i].start[1] \in Nat, slices[i].count[1] \in Nat, NEW r \in Nat
  PROVE  r \in Whole(i) <=> slices[i].start[1] <= r /\ r < slices[i].start[1] + slices[i].count[1]
<1> DEFINE a == slices[i].start[1]
           c == slices[i].count[1]
<1>1. Whole(i) = a .. a + c - 1
  BY DEF Whole, SliceRows
<1>2. a \in Nat /\ c \in Nat
  OBVIOUS
<1> HIDE DEF a, c
<1>3. r \in a .. a + c - 1 <=> a <= r /\ r < a + c
  BY <1>2
<1>. QED
  BY <1>1, <1>3 DEF a, c

LEMMA RowsUpToFacts ==
  ASSUME GoodRequest, rank > 0, Apart, NEW k \in 0 .. Len(slices) - 1, NEW o \in Nat, NEW n \in Nat,
         o + n <= slices[k + 1].count[1]
  PROVE  LET f == slices[k + 1].start[1] + o
             I == f .. f + n - 1
         IN /\ RowsUpTo(k, o + n) = RowsUpTo(k, o) \cup I
            /\ o + n = slices[k + 1].count[1] => RowsUpTo(k + 1, 0) = RowsUpTo(k, o + n)
            /\ \A a \in RowsUpTo(k, o), b \in I : a < b
            /\ f \in Nat
<1> DEFINE s == slices[k + 1].start[1]
           c == slices[k + 1].count[1]
           I == s + o .. s + o + n - 1
<1>1. rank \in Nat /\ Len(slices) \in Nat /\ 1 \in 1 .. rank /\ k \in Nat /\ k + 1 \in 1 .. Len(slices)
  BY DEF GoodRequest
<1>2. s \in Nat /\ c \in Nat /\ \A i \in 1 .. Len(slices) : slices[i].start[1] \in Nat /\ slices[i].count[1] \in Nat
  BY <1>1, SliceTypes
<1>3. \A m : SliceRows(k + 1, m) = s .. s + m - 1
  BY DEF SliceRows
<1>4. ASSUME NEW m \in Nat, NEW r \in Nat
      PROVE  r \in RowsUpTo(k, m) <=> (\E i \in 1 .. Len(slices) : i <= k /\ r \in Whole(i)) \/ r \in s .. s + m - 1
  <2> HIDE DEF s
  <2>1. r \in RowsUpTo(k, m) <=>
          (\E i \in 1 .. Len(slices) : i <= k /\ r \in Whole(i)) \/ (k + 1 \in 1 .. Len(slices) /\ r \in SliceRows(k + 1, m))
    BY InRowsUpTo
  <2>. QED
    BY <1>1, <1>3, <2>1, Zenon
<1>5. ASSUME NEW r \in Nat
      PROVE  r \in RowsUpTo(k + 1, 0) <=> (\E i \in 1 .. Len(slices) : i <= k /\ r \in Whole(i)) \/ r \in s .. s + c - 1
  <2>1. Whole(k + 1) = s .. s + c - 1
    BY <1>3 DEF Whole
  <2>2. \A i \in 1 .. Len(slices) : i <= k + 1 <=> i <= k \/ i = k + 1
    BY <1>1
  <2>3. ASSUME (k + 1) + 1 \in 1 .. Len(slices) PROVE SliceRows((k + 1) + 1, 0) = {}
    <3>1. \A x \in Nat : x .. x + 0 - 1 = {}
      OBVIOUS
    <3>. QED
      BY <1>2, <2>3, <3>1 DEF SliceRows
  <2> HIDE DEF s, c
  <2>4. r \in RowsUpTo(k + 1, 0) <=>
          \/ \E i \in 1 .. Len(slices) : i <= k + 1 /\ r \in Whole(i)
          \/ (k + 1) + 1 \in 1 .. Len(slices) /\ r \in SliceRows((k + 1) + 1, 0)
    BY InRowsUpTo
  <2>5. r \in RowsUpTo(k + 1, 0) <=> \E i \in 1 .. Len(slices) : i <= k + 1 /\ r \in Whole(i)
    BY <2>3, <2>4, Zenon
  <2>. QED
    BY <1>1, <2>1, <2>2, <2>5, Zenon
<1> HIDE DEF s, c
<1>6. \A k1, o1 : RowsUpTo(k1, o1) \in SUBSET Nat
  BY DEF RowsUpTo
<1>7. RowsUpTo(k, o + n) = RowsUpTo(k, o) \cup I
  <2>1. I \in SUBSET Nat
    BY <1>2
  <2>2. ASSUME NEW r \in Nat PROVE r \in s .. s + (o + n) - 1 <=> r \in s .. s + o - 1 \/ r \in I
    BY <1>2
  <2>3. ASSUME NEW r \in Nat PROVE r \in RowsUpTo(k, o + n) <=> r \in RowsUpTo(k, o) \/ r \in I
    <3>1. o + n \in Nat
      OBVIOUS
    <3>. QED
      BY <1>4, <2>2, <3>1
  <2> HIDE DEF I
  <2>. QED
    BY <1>6, <2>1, <2>3
<1>8. o + n = c => RowsUpTo(k + 1, 0) = RowsUpTo(k, o + n)
  <2>1. o + n \in Nat
    OBVIOUS
  <2>. QED
    BY <1>4, <1>5, <1>6, <2>1
<1>9. ASSUME NEW a \in RowsUpTo(k, o), NEW b \in I PROVE a < b
  <2>1. a \in Nat /\ b \in Nat /\ b >= s + o
    BY <1>2, <1>6
  <2>2. CASE \E i \in 1 .. Len(slices) : i <= k /\ a \in Whole(i)
    <3>1. PICK i \in 1 .. Len(slices) : i <= k /\ a \in Whole(i)
      BY <2>2
    <3>2. slices[i].start[1] + slices[i].count[1] <= s
      <4>1. i < k + 1
        BY <1>1, <3>1
      <4>. QED
        BY <1>1, <4>1, ApartAll DEF s
    <3>3. a < slices[i].start[1] + slices[i].count[1]
      <4>1. slices[i].start[1] \in Nat /\ slices[i].count[1] \in Nat
        BY <1>2, Zenon
      <4>. QED
        BY <2>1, <3>1, <4>1, WholeBounds
    <3> DEFINE e == slices[i].start[1] + slices[i].count[1]
    <3>4. e \in Nat
      <4>1. slices[i].start[1] \in Nat /\ slices[i].count[1] \in Nat
        BY <1>2, Zenon
      <4>2. \A x, y \in Nat : x + y \in Nat
        OBVIOUS
      <4>. QED
        BY <4>1, <4>2, Zenon
    <3> HIDE DEF e, I
    <3>5. a < e /\ e <= s
      BY <3>2, <3>3 DEF e
    <3>. QED
      BY <1>2, <2>1, <3>4, <3>5
  <2>3. CASE a \in s .. s + o - 1
    BY <1>2, <2>1, <2>3
  <2>. QED
    BY <1>4, <2>1, <2>2, <2>3
<1>. QED
  BY <1>2, <1>7, <1>8, <1>9 DEF s, c

LEMMA WholeSliceNext ==
  ASSUME GoodRequest, rank > 0, Apart, NEW k \in 0 .. Len(slices) - 1
  PROVE  LET J == slices[k + 1].start[1] .. slices[k + 1].start[1] + slices[k + 1].count[1] - 1
         IN /\ RowsUpTo(k + 1, 0) = RowsUpTo(k, 0) \cup J
            /\ \A x \in RowsUpTo(k, 0), y \in J : x < y
<1> DEFINE a == slices[k + 1].start[1]
           c == slices[k + 1].count[1]
<1>1. rank \in Nat /\ Len(slices) \in Nat /\ 1 \in 1 .. rank /\ k + 1 \in 1 .. Len(slices)
  BY DEF GoodRequest
<1>2. a \in Nat /\ c \in Nat
  BY <1>1, SliceTypes
<1>3. 0 \in Nat /\ 0 + c = c /\ 0 + c <= c /\ a + 0 = a
  BY <1>2
<1>4. LET f == a + 0
          I == f .. f + c - 1
      IN /\ RowsUpTo(k, 0 + c) = RowsUpTo(k, 0) \cup I
         /\ 0 + c = c => RowsUpTo(k + 1, 0) = RowsUpTo(k, 0 + c)
         /\ \A x \in RowsUpTo(k, 0), y \in I : x < y
  BY <1>2, <1>3, RowsUpToFacts
<1> HIDE DEF a, c
<1>5. /\ RowsUpTo(k + 1, 0) = RowsUpTo(k, 0) \cup (a .. a + c - 1)
      /\ \A x \in RowsUpTo(k, 0), y \in a .. a + c - 1 : x < y
  BY <1>3, <1>4
<1>. QED
  BY <1>5 DEF a, c

LEMMA NoneAtFirst ==
  ASSUME GoodRequest, rank > 0
  PROVE  RowsUpTo(0, 0) = {}
<1> DEFINE L == Len(slices)
<1>1. rank \in Nat /\ L \in Nat /\ 1 \in 1 .. rank
  BY DEF GoodRequest
<1>2. \A i \in 1 .. L : slices[i].start[1] \in Nat
  BY <1>1, SliceTypes
<1>3. SUFFICES ASSUME NEW r \in RowsUpTo(0, 0) PROVE FALSE
  OBVIOUS
<1>4. r \in Nat
  BY DEF RowsUpTo
<1>5. \/ \E i \in 1 .. L : i <= 0 /\ r \in Whole(i)
      \/ 0 + 1 \in 1 .. L /\ r \in SliceRows(0 + 1, 0)
  BY <1>4, InRowsUpTo
<1>6. ~\E i \in 1 .. L : i <= 0
  BY <1>1
<1>7. 0 + 1 \in 1 .. L => SliceRows(0 + 1, 0) = {}
  <2>1. \A x \in Nat : x .. x + 0 - 1 = {}
    OBVIOUS
  <2>. QED
    BY <1>2, <2>1 DEF SliceRows
<1>. QED
  BY <1>5, <1>6, <1>7

LEMMA AllRowsFacts ==
  ASSUME GoodRequest, rank > 0
  PROVE  /\ AllRows \in SUBSET Nat /\ IsFiniteSet(AllRows)
         /\ \A r \in Nat : r \in AllRows <=> \E i \in 1 .. Len(slices) : r \in Whole(i)
<1>1. rank \in Nat /\ Len(slices) \in Nat /\ 1 \in 1 .. rank /\ Width \in Nat
  BY SliceConstants DEF GoodRequest
<1>2. AllRows \in SUBSET Nat
  BY DEF AllRows, RowsUpTo
<1>3. ASSUME NEW r \in Nat PROVE r \in AllRows <=> \E i \in 1 .. Len(slices) : r \in Whole(i)
  <2>1. Len(slices) + 1 \notin 1 .. Len(slices) /\ \A i \in 1 .. Len(slices) : i <= Len(slices)
    BY <1>1
  <2>2. r \in AllRows <=>
          \/ \E i \in 1 .. Len(slices) : i <= Len(slices) /\ r \in Whole(i)
          \/ Len(slices) + 1 \in 1 .. Len(slices) /\ r \in SliceRows(Len(slices) + 1, 0)
    BY InRowsUpTo DEF AllRows
  <2>. QED
    BY <2>1, <2>2, Zenon
<1>4. ASSUME NEW r \in AllRows PROVE r \in 0 .. Width
  <2>1. PICK i \in 1 .. Len(slices) : r \in Whole(i)
    BY <1>2, <1>3
  <2>2. /\ slices[i].start[1] \in Nat /\ slices[i].count[1] \in Nat
        /\ slices[i].start[1] + slices[i].count[1] < Width
    BY <1>1, SliceTypes
  <2>. QED
    BY <1>1, <2>1, <2>2 DEF Whole, SliceRows
<1>5. IsFiniteSet(0 .. Width)
  <2>1. 0 \in Int /\ Width \in Int
    BY <1>1
  <2>. QED
    BY <2>1, FS_Interval
<1>6. IsFiniteSet(AllRows)
  <2>1. AllRows \in SUBSET (0 .. Width)
    BY <1>4
  <2>. QED
    BY <1>5, <2>1, FS_Subset
<1>. QED
  BY <1>2, <1>3, <1>6

(* The rows up to a place come before the others *)
LEMMA RowsBefore ==
  ASSUME GoodRequest, rank > 0, Apart, NEW k \in 0 .. Len(slices), NEW o \in Nat,
         o > 0 => k < Len(slices) /\ o <= slices[k + 1].count[1]
  PROVE  /\ RowsUpTo(k, o) \in SUBSET AllRows
         /\ \A a \in RowsUpTo(k, o), b \in AllRows \ RowsUpTo(k, o) : a < b
<1> DEFINE P == RowsUpTo(k, o)
<1>1. rank \in Nat /\ Len(slices) \in Nat /\ 1 \in 1 .. rank
  BY DEF GoodRequest
<1>2. \A i \in 1 .. Len(slices) : slices[i].start[1] \in Nat /\ slices[i].count[1] \in Nat
  BY <1>1, SliceTypes
<1>3. P \in SUBSET Nat
  BY DEF RowsUpTo
<1>4. AllRows \in SUBSET Nat /\ \A r \in Nat : r \in AllRows <=> \E i \in 1 .. Len(slices) : r \in Whole(i)
  BY AllRowsFacts
<1>5. \A r \in Nat : r \in P <=> ((\E i \in 1 .. Len(slices) : i <= k /\ r \in Whole(i))
                                \/ (k + 1 \in 1 .. Len(slices) /\ r \in SliceRows(k + 1, o)))
  BY InRowsUpTo
<1> HIDE DEF P
(* where a row of P is *)
<1>6. ASSUME NEW a \in P
      PROVE  \E i \in 1 .. Len(slices) :
               /\ a \in Whole(i)
               /\ i <= k \/ (i = k + 1 /\ a < slices[i].start[1] + o)
  <2>1. CASE \E i \in 1 .. Len(slices) : i <= k /\ a \in Whole(i)
    BY <2>1
  <2>2. CASE k + 1 \in 1 .. Len(slices) /\ a \in SliceRows(k + 1, o)
    <3> DEFINE s == slices[k + 1].start[1]
               c == slices[k + 1].count[1]
    <3>1. s \in Nat /\ c \in Nat /\ a \in Nat /\ a \in s .. s + o - 1
      BY <1>2, <1>3, <2>2 DEF SliceRows
    <3> HIDE DEF s, c
    <3>2. o > 0 /\ a < s + o
      BY <3>1
    <3>3. o <= c
      BY <3>2 DEF c
    <3>4. a \in s .. s + c - 1
      BY <3>1, <3>3
    <3>5. a \in Whole(k + 1)
      BY <3>4 DEF Whole, SliceRows, s, c
    <3>. QED
      BY <2>2, <3>2, <3>5 DEF s
  <2>. QED
    BY <1>3, <1>5, <2>1, <2>2
<1>7. P \in SUBSET AllRows
  <2>1. ASSUME NEW a \in P PROVE a \in AllRows
    <3>1. a \in Nat /\ \E i \in 1 .. Len(slices) : a \in Whole(i)
      BY <1>3, <1>6
    <3>. QED
      BY <1>4, <3>1
  <2>. QED
    BY <2>1
<1>8. ASSUME NEW a \in P, NEW b \in AllRows \ P PROVE a < b
  <2>1. PICK i \in 1 .. Len(slices) : a \in Whole(i) /\ (i <= k \/ (i = k + 1 /\ a < slices[i].start[1] + o))
    BY <1>6
  <2>2. PICK j \in 1 .. Len(slices) : b \in Whole(j)
    BY <1>4
  <2>3. a \in Nat /\ b \in Nat /\ b \notin P
    BY <1>3, <1>4
  <2>4. ~(j <= k)
    BY <1>5, <2>2, <2>3, Zenon
  <2>5. /\ slices[i].start[1] \in Nat /\ slices[i].count[1] \in Nat
        /\ slices[j].start[1] \in Nat /\ slices[j].count[1] \in Nat
        /\ a < slices[i].start[1] + slices[i].count[1] /\ b >= slices[j].start[1]
    <3>1. /\ slices[i].start[1] \in Nat /\ slices[i].count[1] \in Nat
          /\ slices[j].start[1] \in Nat /\ slices[j].count[1] \in Nat
      BY <1>2
    <3>2. a < slices[i].start[1] + slices[i].count[1]
      BY <2>1, <2>3, <3>1, WholeBounds
    <3>3. b >= slices[j].start[1]
      BY <2>2, <2>3, <3>1, WholeBounds
    <3>. QED
      BY <3>1, <3>2, <3>3
  <2>6. CASE i < j
    <3>1. slices[i].start[1] + slices[i].count[1] <= slices[j].start[1]
      BY <2>6, ApartAll
    <3>. QED
      BY <2>3, <2>5, <3>1
  <2>7. CASE ~(i < j)
    <3>1. i = k + 1 /\ j = k + 1 /\ a < slices[j].start[1] + o
      BY <1>1, <2>1, <2>4, <2>7
    <3>2. b \notin SliceRows(k + 1, o)
      BY <1>5, <2>3, <3>1
    <3>3. b >= slices[j].start[1] + o
      BY <2>3, <2>5, <3>1, <3>2 DEF SliceRows
    <3>. QED
      BY <2>3, <2>5, <3>1, <3>3
  <2>. QED
    BY <2>6, <2>7
<1>. QED
  BY <1>7, <1>8 DEF P

LEMMA RowsMonotone ==
  ASSUME GoodRequest, rank > 0, Apart, NEW i \in 0 .. Len(slices), NEW j \in 0 .. Len(slices), i <= j
  PROVE  RowsOf(i) <= RowsOf(j)
<1> DEFINE S == { m \in 0 .. Len(slices) - i : RowsOf(i) <= RowsOf(i + m) }
           L == Len(slices) - i
<1>1. rank \in Nat /\ Len(slices) \in Nat /\ 1 \in 1 .. rank /\ L \in Nat
  BY DEF GoodRequest
<1>2. /\ \A k \in 0 .. Len(slices) : RowsOf(k) \in Nat
      /\ \A k \in 1 .. Len(slices) : RowsOf(k) = RowsOf(k - 1) + slices[k].count[1]
  BY RowsFacts
<1>3. 0 \in S
  <2>1. i + 0 = i /\ RowsOf(i) \in Nat /\ 0 \in 0 .. L
    BY <1>1, <1>2
  <2>. QED
    BY <2>1
<1>4. ASSUME NEW m \in 0 .. L - 1, m \in S PROVE m + 1 \in S
  <2>1. i + (m + 1) \in 1 .. Len(slices) /\ (i + (m + 1)) - 1 = i + m /\ i + m \in 0 .. Len(slices) /\ m + 1 \in 0 .. L
    BY <1>1
  <2>2. RowsOf(i + (m + 1)) = RowsOf(i + m) + slices[i + (m + 1)].count[1]
    BY <1>2, <2>1
  <2>3. slices[i + (m + 1)].count[1] \in Nat
    BY <1>1, <2>1, SliceTypes
  <2>4. RowsOf(i) <= RowsOf(i + m) /\ RowsOf(i) \in Nat /\ RowsOf(i + m) \in Nat
    BY <1>2, <1>4, <2>1
  <2>. QED
    BY <2>1, <2>2, <2>3, <2>4
<1>5. j - i \in S => RowsOf(i) <= RowsOf(i + (j - i))
  OBVIOUS
<1> HIDE DEF S
<1>6. 0 .. L \subseteq S
  BY <1>1, <1>3, <1>4, Induction
<1>7. j - i \in 0 .. L /\ i + (j - i) = j
  BY <1>1
<1>. QED
  BY <1>5, <1>6, <1>7

(* No rows are left: all were passed *)
LEMMA RowsPassed ==
  ASSUME GoodRequest, rank > 0, Apart, NEW k \in 0 .. Len(slices), NEW o \in Nat,
         o > 0 => k < Len(slices) /\ o < slices[k + 1].count[1],
         RowsOf(Len(slices)) - RowsOf(k) - o = 0
  PROVE  RowsUpTo(k, o) = AllRows
<1> DEFINE L == Len(slices)
<1>1. rank \in Nat /\ L \in Nat /\ 1 \in 1 .. rank
  BY DEF GoodRequest
<1>2. /\ \A n \in 0 .. L : RowsOf(n) \in Nat
      /\ \A n \in 1 .. L : RowsOf(n) = RowsOf(n - 1) + slices[n].count[1]
  BY RowsFacts
<1>3. \A i \in 1 .. L : slices[i].start[1] \in Nat /\ slices[i].count[1] \in Nat
  BY <1>1, SliceTypes
<1>4. RowsOf(L) \in Nat /\ RowsOf(k) \in Nat /\ RowsOf(L) = RowsOf(k) + o
  <2>1. RowsOf(L) \in Nat /\ RowsOf(k) \in Nat
    BY <1>1, <1>2
  <2>. QED
    BY <2>1
<1>5. o = 0
  <2>1. SUFFICES ASSUME o > 0 PROVE FALSE
    OBVIOUS
  <2>2. k + 1 \in 1 .. L /\ k + 1 \in 0 .. L /\ L \in 0 .. L /\ k + 1 <= L /\ (k + 1) - 1 = k
    BY <1>1, <2>1
  <2>3. RowsOf(k + 1) <= RowsOf(L)
    BY <2>2, RowsMonotone
  <2>4. RowsOf(k + 1) = RowsOf(k) + slices[k + 1].count[1]
    BY <1>2, <2>2
  <2>. QED
    BY <1>3, <1>4, <2>1, <2>2, <2>3, <2>4
<1>6. ASSUME NEW i \in 1 .. L, ~(i <= k) PROVE Whole(i) = {}
  <2>1. i - 1 \in 0 .. L /\ k <= i - 1 /\ i \in 0 .. L /\ i <= L /\ L \in 0 .. L
    BY <1>1, <1>6
  <2>2. RowsOf(k) <= RowsOf(i - 1) /\ RowsOf(i) <= RowsOf(L)
    BY <2>1, RowsMonotone
  <2>3. RowsOf(i) = RowsOf(i - 1) + slices[i].count[1] /\ RowsOf(i) \in Nat /\ RowsOf(i - 1) \in Nat
    BY <1>2, <2>1
  <2>4. slices[i].count[1] = 0
    BY <1>3, <1>4, <1>5, <2>2, <2>3
  <2>5. \A x \in Nat : x .. x + 0 - 1 = {}
    OBVIOUS
  <2>. QED
    BY <1>3, <2>4, <2>5 DEF Whole, SliceRows
<1>7. RowsUpTo(k, o) \in SUBSET AllRows
  BY <1>5, RowsBefore
<1>8. ASSUME NEW r \in AllRows PROVE r \in RowsUpTo(k, o)
  <2>1. r \in Nat /\ \E i \in 1 .. L : r \in Whole(i)
    BY AllRowsFacts
  <2>2. PICK i \in 1 .. L : r \in Whole(i)
    BY <2>1
  <2>3. i <= k
    BY <1>6, <2>2
  <2>4. r \in RowsUpTo(k, o) <=>
           \/ \E n \in 1 .. L : n <= k /\ r \in Whole(n)
           \/ k + 1 \in 1 .. L /\ r \in SliceRows(k + 1, o)
    BY <2>1, InRowsUpTo
  <2>. QED
    BY <2>2, <2>3, <2>4
<1>. QED
  BY <1>7, <1>8

SliceLists == [i \in DOMAIN slices |-> Ascending(slices[i].start[1], slices[i].count[1])]

(* The slices one after the other are their rows in ascending order *)
LEMMA RowsInOrder ==
  ASSUME GoodRequest, rank > 0, Apart
  PROVE  Rows = InFileOrder(AllRows)
<1> DEFINE L == Len(slices)
           s == SliceLists
           g == [k \in 0 .. L |-> InFileOrder(RowsUpTo(k, 0))]
<1>1. rank \in Nat /\ L \in Nat /\ 1 \in 1 .. rank /\ DOMAIN slices = 1 .. L
  BY DEF GoodRequest
<1>2. \A i \in 1 .. L : slices[i].start[1] \in Nat /\ slices[i].count[1] \in Nat
  BY <1>1, SliceTypes
<1>3. ASSUME NEW k \in 0 .. L
      PROVE  RowsUpTo(k, 0) \in SUBSET Nat /\ IsFiniteSet(RowsUpTo(k, 0)) /\ InFileOrder(RowsUpTo(k, 0)) \in Seq(Nat)
  <2>1. ~(0 > 0) /\ 0 \in Nat
    OBVIOUS
  <2>2. RowsUpTo(k, 0) \in SUBSET AllRows
    BY <2>1, RowsBefore
  <2>3. AllRows \in SUBSET Nat /\ IsFiniteSet(AllRows)
    BY AllRowsFacts
  <2>4. RowsUpTo(k, 0) \in SUBSET Nat /\ IsFiniteSet(RowsUpTo(k, 0))
    BY <2>2, <2>3, FS_Subset
  <2>. QED
    BY <2>4, OrderFacts
<1>4. s \in Seq(Seq(Nat)) /\ Len(s) = L /\ \A i \in 1 .. L : s[i] = Ascending(slices[i].start[1], slices[i].count[1])
  <2>1. ASSUME NEW i \in 1 .. L PROVE Ascending(slices[i].start[1], slices[i].count[1]) \in Seq(Nat)
    <3>1. \A a, n \in Nat : Ascending(a, n) \in Seq(Nat)
      BY DEF Ascending
    <3>. QED
      BY <1>2, <3>1
  <2>2. s \in [1 .. L -> Seq(Nat)] /\ \A i \in 1 .. L : s[i] = Ascending(slices[i].start[1], slices[i].count[1])
    BY <1>1, <2>1 DEF SliceLists
  <2> HIDE DEF s
  <2>. QED
    BY <1>1, <2>2
<1>5. g \in [0 .. L -> Seq(Nat)] /\ \A k \in 0 .. L : g[k] = InFileOrder(RowsUpTo(k, 0))
  BY <1>3
<1> HIDE DEF g, s
<1>6. g[0] = <<>>
  <2>1. RowsUpTo(0, 0) = {}
    BY NoneAtFirst
  <2>2. 0 \in 0 .. L
    BY <1>1
  <2>3. IsFiniteSet({}) /\ Cardinality({}) = 0 /\ {} \in SUBSET Nat
    BY FS_EmptySet
  <2>4. InFileOrder({}) \in Seq(Nat) /\ Len(InFileOrder({})) = 0
    BY <2>3, OrderFacts
  <2>5. InFileOrder({}) = <<>>
    BY <2>4, EmptySeq
  <2>. QED
    BY <1>5, <2>1, <2>2, <2>5
<1>7. ASSUME NEW n \in 1 .. L PROVE g[n] = g[n - 1] \o s[n]
  <2> DEFINE k == n - 1
             a == slices[n].start[1]
             c == slices[n].count[1]
             I == a .. a + c - 1
  <2>1. k \in 0 .. L - 1 /\ k \in 0 .. L /\ n \in 0 .. L /\ k + 1 = n /\ a \in Nat /\ c \in Nat /\ 0 + c <= c
    BY <1>1, <1>2
  <2>2. /\ RowsUpTo(n, 0) = RowsUpTo(k, 0) \cup I
        /\ \A x \in RowsUpTo(k, 0), y \in I : x < y
    <3>1. LET J == slices[k + 1].start[1] .. slices[k + 1].start[1] + slices[k + 1].count[1] - 1
          IN /\ RowsUpTo(k + 1, 0) = RowsUpTo(k, 0) \cup J
             /\ \A x \in RowsUpTo(k, 0), y \in J : x < y
      <4> HIDE DEF k
      <4>. QED
        BY <2>1, WholeSliceNext
    <3> HIDE DEF k
    <3>. QED
      BY <2>1, <3>1
  <2>3. I \in SUBSET Nat /\ IsFiniteSet(I) /\ InFileOrder(I) = Ascending(a, c)
    BY <2>1, OrderInterval
  <2>4. RowsUpTo(k, 0) \in SUBSET Nat /\ IsFiniteSet(RowsUpTo(k, 0))
    BY <1>3, <2>1
  <2> HIDE DEF k, I
  <2>5. InFileOrder(RowsUpTo(k, 0) \cup I) = InFileOrder(RowsUpTo(k, 0)) \o InFileOrder(I)
    BY <2>2, <2>3, <2>4, OrderUnion
  <2>6. g[n] = InFileOrder(RowsUpTo(n, 0)) /\ g[k] = InFileOrder(RowsUpTo(k, 0)) /\ s[n] = Ascending(a, c)
    BY <1>4, <1>5, <2>1
  <2>7. g[n] = g[k] \o s[n]
    BY <2>2, <2>3, <2>5, <2>6, Zenon
  <2>. QED
    BY <2>7, Zenon DEF k
<1>8. Joins(g, s, Nat)
  BY <1>4, <1>5, <1>6, <1>7, Zenon DEF Joins
<1>9. FlattenSeq(s) = g[L]
  <2> DEFINE T == Nat
  <2>1. s \in Seq(Seq(T)) /\ Joins(g, s, T) /\ Len(s) = L
    BY <1>4, <1>8
  <2> HIDE DEF T
  <2>2. FlattenSeq(s) = g[Len(s)]
    BY <2>1, FlattenIs
  <2>. QED
    BY <2>1, <2>2
<1>10. L \in 0 .. L
  BY <1>1
<1>11. g[L] = InFileOrder(AllRows)
  BY <1>5, <1>10 DEF AllRows
<1>12. Rows = FlattenSeq(s)
  BY DEF Rows, s, SliceLists, Ascending
<1>. QED
  BY <1>9, <1>11, <1>12

RowLists(r) == [i \in DOMAIN r |-> RowElements(r[i])]

(* The elements of ascending rows, row by row, are in the order of the file *)
LEMMA FlattenRows ==
  ASSUME IsDataset(dataset), dims # <<>>, NEW S \in SUBSET Nat, IsFiniteSet(S)
  PROVE  FlattenSeq(RowLists(InFileOrder(S))) = InFileOrder(InRows(S))
<1> DEFINE r == InFileOrder(S)
           n == Cardinality(S)
           First(k) == { r[i] : i \in 1 .. k }
           s == RowLists(r)
           g == [k \in 0 .. n |-> InFileOrder(InRows(First(k)))]
<1>1. n \in Nat /\ r \in Seq(Nat) /\ Len(r) = n /\ DOMAIN r = 1 .. n
  BY OrderFacts
<1>2. /\ \A i \in 1 .. n : r[i] \in S
      /\ \A i, j \in 1 .. n : i < j => r[i] < r[j]
      /\ \A e \in S : \E i \in 1 .. n : r[i] = e
  BY OrderAscends
<1> HIDE DEF r, n
<1>3. ASSUME NEW i \in 1 .. n PROVE r[i] \in Nat /\ RowElements(r[i]) = InFileOrder(InRows({r[i]}))
  <2>1. r[i] \in Nat
    BY <1>2
  <2>. QED
    BY <2>1, OneRow
<1>4. s \in Seq(Seq(Nat)) /\ Len(s) = n /\ \A i \in 1 .. n : s[i] = InFileOrder(InRows({r[i]}))
  <2>1. \A i \in 1 .. n : s[i] = InFileOrder(InRows({r[i]})) /\ InFileOrder(InRows({r[i]})) \in Seq(Nat)
    BY <1>1, <1>3, InRowsFacts DEF RowLists
  <2>2. s = [i \in 1 .. n |-> RowElements(r[i])]
    BY <1>1 DEF RowLists
  <2>3. s \in [1 .. n -> Seq(Nat)]
    BY <1>3, <2>1, <2>2
  <2> HIDE DEF s
  <2>. QED
    BY <1>1, <2>1, <2>3
<1>5. g \in [0 .. n -> Seq(Nat)] /\ \A k \in 0 .. n : g[k] = InFileOrder(InRows(First(k)))
  <2> HIDE DEF First
  <2>. QED
    BY InRowsFacts
<1> HIDE DEF g, s
<1>6. g[0] = <<>>
  <2>1. First(0) = {}
    OBVIOUS
  <2>2. 0 \in 0 .. n
    BY <1>1
  <2> HIDE DEF First
  <2>. QED
    BY <1>5, <2>1, <2>2, NoRows
<1>7. ASSUME NEW k \in 1 .. n PROVE g[k] = g[k - 1] \o s[k]
  <2> DEFINE A == First(k - 1)
             B == {r[k]}
  <2>1. First(k) = A \cup B
    <3>1. \A i : i \in 1 .. k <=> i \in 1 .. k - 1 \/ i = k
      BY <1>1
    <3>. QED
      BY <3>1
  <2>2. A \in SUBSET Nat /\ B \in SUBSET Nat /\ \A a \in A, b \in B : a < b
    <3>1. \A i \in 1 .. k - 1 : i \in 1 .. n /\ i < k
      BY <1>1
    <3>2. k \in 1 .. n /\ r[k] \in Nat
      BY <1>3
    <3>3. ASSUME NEW a \in A PROVE a \in Nat /\ a < r[k]
      <4>1. PICK i \in 1 .. k - 1 : a = r[i]
        OBVIOUS
      <4>. QED
        BY <1>2, <1>3, <3>1, <3>2, <4>1
    <3> HIDE DEF A
    <3>. QED
      BY <3>2, <3>3
  <2>3. k \in 0 .. n /\ k - 1 \in 0 .. n
    BY <1>1
  <2> HIDE DEF First, A, B
  <2>4. InFileOrder(InRows(A \cup B)) = InFileOrder(InRows(A)) \o InFileOrder(InRows(B))
    BY <2>2, RowsConcat
  <2>5. g[k] = InFileOrder(InRows(First(k))) /\ g[k - 1] = InFileOrder(InRows(A)) /\ s[k] = InFileOrder(InRows(B))
    BY <1>4, <1>5, <2>3 DEF A, B
  <2>. QED
    BY <2>1, <2>4, <2>5, Zenon
<1>8. Joins(g, s, Nat)
  BY <1>4, <1>5, <1>6, <1>7, Zenon DEF Joins
<1>9. FlattenSeq(s) = g[n]
  <2> DEFINE T == Nat
  <2>1. s \in Seq(Seq(T)) /\ Joins(g, s, T) /\ Len(s) = n
    BY <1>4, <1>8
  <2> HIDE DEF T
  <2>2. FlattenSeq(s) = g[Len(s)]
    BY <2>1, FlattenIs
  <2>. QED
    BY <2>1, <2>2
<1>10. First(n) = S
  BY <1>2
<1>11. n \in 0 .. n
  BY <1>1
<1>12. g[n] = InFileOrder(InRows(First(n)))
  BY <1>5, <1>11
<1> HIDE DEF First
<1>. QED
  BY <1>9, <1>10, <1>12 DEF s, r

LEMMA WantedIs ==
  ASSUME IsDataset(dataset), GoodRequest, dims # <<>>, rank > 0, Apart
  PROVE  Wanted = Sent(AllRows)
<1>1. AllRows \in SUBSET Nat /\ IsFiniteSet(AllRows)
  BY AllRowsFacts
<1>2. Rows = InFileOrder(AllRows)
  BY RowsInOrder
<1>3. FlattenSeq(RowLists(Rows)) = InFileOrder(InRows(AllRows))
  BY <1>1, <1>2, FlattenRows
<1>4. rank # 0
  BY DEF GoodRequest
<1>5. Wanted = UnitsOf(FlattenSeq(RowLists(Rows)))
  BY <1>4 DEF Wanted, RowLists
<1>. QED
  BY <1>3, <1>5 DEF Sent

LEMMA PrefixOf ==
  ASSUME NEW s \in Seq(Nat), NEW t \in Seq(Nat)
  PROVE  IsPrefix(s, s \o t)
<1> DEFINE u == s \o t
           n == Len(s)
<1>1. /\ u \in Seq(Nat) /\ Len(u) = n + Len(t) /\ n \in Nat /\ Len(t) \in Nat
      /\ \A i \in 1 .. n + Len(t) : u[i] = IF i <= n THEN s[i] ELSE t[i - n]
  BY ConcatProperties
<1> HIDE DEF u, n
<1>2. n <= Len(u)
  BY <1>1
<1>3. ASSUME NEW x \in Seq(Nat), n <= Len(x)
      PROVE  /\ SubSeq(x, 1, n) \in Seq(Nat) /\ Len(SubSeq(x, 1, n)) = n
             /\ \A i \in 1 .. n : SubSeq(x, 1, n)[i] = x[i]
  <2>1. 1 \in 1 .. Len(x) + 1 /\ n \in 1 - 1 .. Len(x)
    BY <1>1, <1>3
  <2>2. /\ SubSeq(x, 1, n) \in Seq(Nat) /\ Len(SubSeq(x, 1, n)) = n - 1 + 1
        /\ \A i \in 1 .. n - 1 + 1 : SubSeq(x, 1, n)[i] = x[1 + i - 1]
    BY <2>1, SubSeqProperties
  <2>3. n - 1 + 1 = n /\ \A i \in 1 .. n : 1 + i - 1 = i
    BY <1>1
  <2>. QED
    BY <2>2, <2>3
<1>4. /\ SubSeq(s, 1, n) \in Seq(Nat) /\ Len(SubSeq(s, 1, n)) = n
      /\ SubSeq(u, 1, n) \in Seq(Nat) /\ Len(SubSeq(u, 1, n)) = n
      /\ \A i \in 1 .. n : SubSeq(s, 1, n)[i] = s[i] /\ SubSeq(u, 1, n)[i] = u[i]
  <2>1. n <= Len(s)
    BY <1>1 DEF n
  <2>. QED
    BY <1>1, <1>2, <1>3, <2>1
<1>5. \A i \in 1 .. n : s[i] = u[i]
  BY <1>1
<1>6. SubSeq(s, 1, n) = SubSeq(u, 1, n)
  <2> DEFINE a == SubSeq(s, 1, n)
             b == SubSeq(u, 1, n)
  <2>1. a \in Seq(Nat) /\ b \in Seq(Nat) /\ Len(a) = Len(b) /\ \A i \in 1 .. Len(a) : a[i] = b[i]
    BY <1>4, <1>5
  <2> HIDE DEF a, b
  <2>2. a = b
    BY <2>1, SeqEqual
  <2>. QED
    BY <2>2 DEF a, b
<1>. QED
  BY <1>2, <1>6 DEF IsPrefix, u, n

-----------------------------------------------------------------------------
(* What was sent so far *)

LEMMA ElementMoves ==
  ASSUME NEW s \in Seq(Nat), NEW t \in Seq(Nat), t # <<>>
  PROVE  Append(s, Head(t)) \o Tail(t) = s \o t
<1> DEFINE u == Append(s, Head(t))
           r == Tail(t)
           v == u \o r
           w == s \o t
<1>1. /\ Len(s) \in Nat /\ Len(t) \in Nat /\ Len(t) > 0
      /\ Head(t) \in Nat /\ Head(t) = t[1]
      /\ r \in Seq(Nat) /\ Len(r) = Len(t) - 1
      /\ \A i \in 1 .. Len(t) - 1 : r[i] = t[i + 1]
  <2>1. Len(t) \in Nat /\ Len(t) # 0
    BY EmptySeq
  <2>. QED
    BY <2>1
<1>2. /\ u \in Seq(Nat) /\ Len(u) = Len(s) + 1 /\ u[Len(s) + 1] = Head(t)
      /\ \A i \in 1 .. Len(s) : u[i] = s[i]
  BY <1>1, AppendProperties
<1> HIDE DEF u, r
<1>3. /\ v \in Seq(Nat) /\ Len(v) = Len(u) + Len(r)
      /\ \A i \in 1 .. Len(u) + Len(r) : v[i] = IF i <= Len(u) THEN u[i] ELSE r[i - Len(u)]
  BY <1>1, <1>2, ConcatProperties
<1>4. /\ w \in Seq(Nat) /\ Len(w) = Len(s) + Len(t)
      /\ \A i \in 1 .. Len(s) + Len(t) : w[i] = IF i <= Len(s) THEN s[i] ELSE t[i - Len(s)]
  BY ConcatProperties
<1> HIDE DEF v, w
<1> DEFINE p == Len(s)
           q == Len(t)
<1>5. /\ p \in Nat /\ q \in Nat /\ q > 0 /\ Len(v) = p + q /\ Len(w) = p + q
      /\ \A i \in 1 .. p + q : v[i] = IF i <= p + 1 THEN u[i] ELSE r[i - (p + 1)]
      /\ \A i \in 1 .. p + q : w[i] = IF i <= p THEN s[i] ELSE t[i - p]
      /\ u[p + 1] = t[1] /\ \A i \in 1 .. p : u[i] = s[i]
      /\ \A i \in 1 .. q - 1 : r[i] = t[i + 1]
  <2>1. Len(u) = p + 1 /\ Len(r) = q - 1 /\ p \in Nat /\ q \in Nat
    BY <1>1, <1>2
  <2>2. (p + 1) + (q - 1) = p + q
    BY <2>1
  <2>. QED
    BY <1>1, <1>2, <1>3, <1>4, <2>1, <2>2
<1> HIDE DEF p, q
<1>6. ASSUME NEW i \in 1 .. p + q PROVE v[i] = w[i]
  <2>1. CASE i <= p
    <3>1. i \in 1 .. p /\ i <= p + 1
      BY <1>5, <2>1
    <3>. QED
      BY <1>5, <2>1, <3>1
  <2>2. CASE i = p + 1
    <3>1. i <= p + 1 /\ ~(i <= p) /\ i - p = 1
      BY <1>5, <2>2
    <3>. QED
      BY <1>5, <2>2, <3>1
  <2>3. CASE i > p + 1
    <3> DEFINE j == i - (p + 1)
    <3>1. j \in 1 .. q - 1 /\ j + 1 = i - p /\ ~(i <= p) /\ ~(i <= p + 1)
      BY <1>5, <2>3
    <3>2. v[i] = r[j] /\ w[i] = t[i - p]
      BY <1>5, <3>1
    <3>3. r[j] = t[j + 1]
      BY <1>5, <3>1
    <3>. QED
      BY <3>1, <3>2, <3>3
  <2>4. i \in Nat /\ p \in Nat
    BY <1>5
  <2>5. i <= p \/ i = p + 1 \/ i > p + 1
    BY <2>4
  <2>. QED
    BY <2>1, <2>2, <2>3, <2>5
<1>7. Len(v) = Len(w) /\ \A i \in 1 .. Len(v) : v[i] = w[i]
  BY <1>5, <1>6
<1>8. v = w
  BY <1>3, <1>4, <1>7, SeqEqual
<1>. QED
  BY <1>8 DEF v, w, u, r

(* The rows the cursor is past *)
Passed == RowsUpTo(slice_nr, offset_in_slice)
Choosing == pc \in {"select", "read"}

(* The slab of the file is that of the first slice but for the first dimension *)
InnerInv ==
  Running /\ RankMatches =>
    \A d \in 2 .. rank : inner[d].start = slices[1].start[d] /\ inner[d].count = slices[1].count[d]

(* Packed and read are the rows before the cursor, without those chosen for  *)
(* the buffer that is read next                                              *)
Took(taken) ==
  /\ out \o buffer = Sent(taken)
  /\ IF Choosing
     THEN taken \cup SelectedRows = Passed /\ \A a \in taken, b \in SelectedRows : a < b
     ELSE taken = Passed
ScalarSent == out \o buffer = IF elements_left_total = 0 /\ pc # "read" THEN Wanted ELSE <<>>
TakenInv ==
  Running /\ RankMatches =>
    /\ rank = 0 => ScalarSent
    /\ rank > 0 => \E taken \in SUBSET Passed : Took(taken)
SentAll == result = "ok" /\ RankMatches => out = Wanted /\ buffer = <<>> /\ out \in Seq(Nat)
SendInv == InnerInv /\ TakenInv /\ SentAll

LEMMA SentSame ==
  ASSUME UNCHANGED input
  PROVE  /\ \A s : UnitsOf(s)' = UnitsOf(s)
         /\ \A k, o : RowsUpTo(k, o)' = RowsUpTo(k, o)
         /\ Passed' = RowsUpTo(slice_nr', offset_in_slice')
         /\ inner' = inner => (\A R : Sent(R)' = Sent(R)) /\ Wanted' = Wanted
<1>1. dataset' = dataset /\ rank' = rank /\ slices' = slices /\ dims' = dims
  BY InputSame
<1>2. \A e : Units(e)' = Units(e)
  BY <1>1 DEF Units
<1>3. \A s : UnitsOf(s)' = UnitsOf(s)
  BY <1>1, <1>2 DEF UnitsOf, Units
<1>4. \A k, o : RowsUpTo(k, o)' = RowsUpTo(k, o)
  BY <1>1 DEF RowsUpTo, Whole, SliceRows
<1>5. Passed' = RowsUpTo(slice_nr', offset_in_slice')
  BY <1>1 DEF Passed, RowsUpTo, Whole, SliceRows
<1>6. ASSUME inner' = inner PROVE (\A R : Sent(R)' = Sent(R)) /\ Wanted' = Wanted
  <2>1. Elements' = Elements
    BY <1>1 DEF Elements
  <2>2. \A e, d : Coordinate(e, d)' = Coordinate(e, d)
    BY <1>1 DEF Coordinate
  <2>3. \A e : Column(e)' <=> Column(e)
    BY <1>1, <1>6, <2>2 DEF Column, Coordinate
  <2>4. \A R : InRows(R)' = InRows(R)
    BY <1>1, <1>6, <2>1 DEF InRows, Column, Coordinate
  <2>5. \A R : Sent(R)' = Sent(R)
    BY <1>1, <1>6, <2>1 DEF Sent, InRows, Column, Coordinate, UnitsOf, Units
  <2>6. Rows' = Rows
    BY <1>1 DEF Rows
  <2>7. \A r : RowElements(r)' = RowElements(r)
    BY <1>1, <1>6, <2>1 DEF RowElements, Within, Slab, Coordinate
  <2>8. Wanted' = Wanted
    BY <1>1, <1>6, <2>1, <2>6 DEF Wanted, UnitsOf, Units, RowElements, Within, Slab, Coordinate
  <2>. QED
    BY <2>5, <2>8
<1>. QED
  BY <1>3, <1>4, <1>5, <1>6

LEMMA NothingSent ==
  ASSUME IsDataset(dataset), UNCHANGED input
  PROVE  Sent({})' = <<>>
<1>1. InRows({})' = {}
  BY DEF InRows
<1>2. Sent({})' = UnitsOf(InFileOrder({}))'
  BY <1>1 DEF Sent, UnitsOf
<1>3. UnitsOf(InFileOrder({}))' = UnitsOf(InFileOrder({}))
  BY InputSame DEF UnitsOf, Units
<1>4. InRows({}) = {}
  BY DEF InRows
<1>5. Sent({}) = UnitsOf(InFileOrder({}))
  BY <1>4 DEF Sent
<1>. QED
  BY <1>2, <1>3, <1>5, NoRows

LEMMA SendFacts ==
  ASSUME SliceInv, OutputInv, Running, RankMatches, rank > 0
  PROVE  /\ IsDataset(dataset) /\ GoodRequest /\ slices # <<>> /\ Apart /\ dims # <<>>
         /\ rank \in Nat /\ Len(slices) \in Nat
         /\ slice_nr \in 0 .. Len(slices) /\ offset_in_slice \in Nat
         /\ offset_in_slice > 0 => slice_nr < Len(slices) /\ offset_in_slice < slices[slice_nr + 1].count[1]
         /\ Passed \in SUBSET Nat /\ AllRows \in SUBSET Nat /\ Passed \in SUBSET AllRows
         /\ \A a \in Passed, b \in AllRows \ Passed : a < b
         /\ out \in Seq(Nat) /\ buffer \in Seq(Nat)
<1>1. /\ IsDataset(dataset) /\ GoodRequest /\ slices # <<>> /\ Apart /\ rank \in Nat
  BY RunningFacts DEF OutputInv
<1>2. Len(slices) \in Nat /\ dims # <<>>
  <2>1. Len(<<>>) = 0
    OBVIOUS
  <2>. QED
    BY <1>1, <2>1 DEF RankMatches, GoodRequest
<1>3. /\ slice_nr \in Nat /\ offset_in_slice \in Nat /\ slice_nr <= Len(slices)
      /\ offset_in_slice > 0 => slice_nr < Len(slices) /\ offset_in_slice < slices[slice_nr + 1].count[1]
  BY DEF SliceInv, CursorInv
<1>4. slice_nr \in 0 .. Len(slices)
  BY <1>2, <1>3
<1>5. out \in Seq(Nat) /\ buffer \in Seq(Nat)
  BY DEF OutputInv, CountInv
<1>6. offset_in_slice > 0 => slice_nr < Len(slices) /\ offset_in_slice <= slices[slice_nr + 1].count[1]
  <2>1. SUFFICES ASSUME offset_in_slice > 0
                 PROVE  offset_in_slice <= slices[slice_nr + 1].count[1]
    BY <1>3
  <2>2. slice_nr + 1 \in 1 .. Len(slices) /\ 1 \in 1 .. rank
    BY <1>1, <1>2, <1>3, <2>1
  <2>3. slices[slice_nr + 1].count[1] \in Nat
    BY <1>1, <2>2, SliceTypes
  <2>. QED
    BY <1>3, <2>1, <2>3
<1>7. Passed \in SUBSET AllRows /\ \A a \in Passed, b \in AllRows \ Passed : a < b
  BY <1>1, <1>3, <1>4, <1>6, RowsBefore DEF Passed
<1>8. AllRows \in SUBSET Nat
  BY <1>1, AllRowsFacts
<1>. QED
  BY <1>1, <1>2, <1>3, <1>4, <1>5, <1>7, <1>8

(* Steps that move nothing but bytes from the buffer to what was packed *)
LEMMA KeepsSent ==
  ASSUME SendInv, Running, Running', UNCHANGED input, UNCHANGED <<inner, cursor, selected>>,
         out' \o buffer' = out \o buffer, result' # "ok",
         Choosing' <=> Choosing, rank = 0 => (pc' = "read" <=> pc = "read")
  PROVE  SendInv'
<1>1. /\ inner' = inner /\ slice_nr' = slice_nr /\ offset_in_slice' = offset_in_slice
      /\ elements_left_total' = elements_left_total /\ selected' = selected
  BY DEF cursor
<1>2. rank' = rank /\ slices' = slices /\ dims' = dims /\ (RankMatches' <=> RankMatches)
  BY InputSame
<1>3. (\A R : Sent(R)' = Sent(R)) /\ Wanted' = Wanted /\ Passed' = RowsUpTo(slice_nr', offset_in_slice')
  BY <1>1, SentSame
<1>4. Passed' = Passed /\ SelectedRows' = SelectedRows
  BY <1>1, <1>3 DEF Passed, SelectedRows
<1>5. \A taken : Took(taken)' <=> Took(taken)
  BY <1>3, <1>4 DEF Took
<1>6. rank = 0 => (ScalarSent' <=> ScalarSent)
  BY <1>1, <1>3 DEF ScalarSent
<1>7. TakenInv'
  BY <1>2, <1>4, <1>5, <1>6 DEF SendInv, TakenInv
<1>8. InnerInv'
  BY <1>1, <1>2 DEF SendInv, InnerInv
<1>. QED
  BY <1>7, <1>8 DEF SendInv, SentAll

LEMMA EndsSent ==
  ASSUME ~Running', result' # "ok"
  PROVE  SendInv'
  BY DEF SendInv, InnerInv, TakenInv, SentAll

LEMMA StartsSent ==
  ASSUME SliceInv, OutputInv, Start
  PROVE  SendInv'
<1>1. /\ pc = "begin" /\ pc' = "next" /\ slices # <<>>
      /\ elements_left_total' = ElementsLeft
      /\ UNCHANGED input /\ UNCHANGED <<result, slice_nr, offset_in_slice, buffer, out>>
  BY DEF Start, ElementsLeft
<1>2. PICK g : inner' = [d \in 1 .. Len(dims) |->
                   IF d <= rank THEN [start |-> slices[1].start[d], count |-> slices[1].count[d]]
                   ELSE g[d]]
  BY DEF Start
<1>3. IsDataset(dataset) /\ GoodRequest /\ result = "none" /\ slice_nr = 0 /\ offset_in_slice = 0
  BY <1>1 DEF SliceInv, InputInv, Before
<1>4. out = <<>> /\ buffer = <<>> /\ rank \in Nat
  BY <1>1, <1>3 DEF OutputInv, FreshInv, Before, GoodRequest
<1>5. rank' = rank /\ slices' = slices /\ dims' = dims /\ (RankMatches' <=> RankMatches)
  BY <1>1, InputSame
<1>6. <<>> \o <<>> = <<>>
  <2>1. <<>> \in Seq(Nat)
    OBVIOUS
  <2>. QED
    BY <2>1, EmptyIsUnit
<1>7. out' \o buffer' = <<>>
  BY <1>1, <1>4, <1>6, Zenon
<1>8. InnerInv'
  <2>1. SUFFICES ASSUME RankMatches, NEW d \in 2 .. rank
                 PROVE  inner'[d].start = slices[1].start[d] /\ inner'[d].count = slices[1].count[d]
    BY <1>5 DEF InnerInv
  <2>2. d \in 1 .. Len(dims) /\ d <= rank
    BY <1>4, <2>1 DEF RankMatches
  <2>3. inner'[d] = [start |-> slices[1].start[d], count |-> slices[1].count[d]]
    BY <1>2, <2>2
  <2>. QED
    BY <2>3
<1>9. TakenInv'
  <2>1. ASSUME rank = 0 PROVE ScalarSent'
    <3>1. ElementsLeft = 1
      BY <1>1, <1>3, <2>1, AskedFor
    <3>. QED
      BY <1>1, <1>7, <3>1 DEF ScalarSent
  <2>2. ASSUME rank > 0 PROVE {} \in SUBSET Passed' /\ Took({})'
    <3>1. Passed' = {}
      BY <1>1, <1>3, <2>2, NoneAtFirst, SentSame
    <3>2. Sent({})' = <<>>
      BY <1>1, <1>3, NothingSent
    <3>3. ~Choosing'
      BY <1>1 DEF Choosing
    <3>. QED
      BY <1>7, <3>1, <3>2, <3>3 DEF Took
  <2>. QED
    BY <1>5, <2>1, <2>2 DEF TakenInv
<1>. QED
  BY <1>1, <1>3, <1>8, <1>9 DEF SendInv, SentAll

(* All rows were packed when none is left *)
LEMMA NothingLeft ==
  ASSUME SliceInv, OutputInv, SendInv, RankMatches, pc = "next", elements_left_total = 0
  PROVE  out = Wanted /\ buffer = <<>> /\ out \in Seq(Nat)
<1>1. Running /\ ~Choosing
  BY DEF Running, Choosing
<1>2. buffer = <<>> /\ out \in Seq(Nat)
  BY <1>1 DEF OutputInv, CountInv
<1>3. out \o buffer = out
  <2>1. out \o <<>> = out
    BY <1>2, EmptyIsUnit
  <2>. QED
    BY <1>2, <2>1
<1>4. rank \in Nat
  BY <1>1, RunningFacts DEF OutputInv
<1>5. CASE rank = 0
  <2>1. ScalarSent
    BY <1>1, <1>5 DEF SendInv, TakenInv
  <2>2. out \o buffer = Wanted
    BY <2>1 DEF ScalarSent
  <2>. QED
    BY <1>2, <1>3, <2>2
<1>6. CASE rank > 0
  <2>1. out = Sent(Passed)
    <3>1. PICK taken \in SUBSET Passed : Took(taken)
      BY <1>1, <1>6 DEF SendInv, TakenInv
    <3>2. taken = Passed /\ out \o buffer = Sent(taken)
      BY <1>1, <3>1 DEF Took
    <3>. QED
      BY <1>3, <3>2
  <2>2. /\ IsDataset(dataset) /\ GoodRequest /\ slices # <<>> /\ Apart /\ dims # <<>>
        /\ slice_nr \in 0 .. Len(slices) /\ offset_in_slice \in Nat
        /\ offset_in_slice > 0 => slice_nr < Len(slices) /\ offset_in_slice < slices[slice_nr + 1].count[1]
    BY <1>1, <1>6, SendFacts
  <2>3. Wanted = Sent(AllRows)
    BY <1>6, <2>2, WantedIs
  <2>4. CASE Product(InnerCounts) = 0
    <3>1. /\ 1 \in 1 .. Len(slices) /\ InnerCounts \in Seq(Nat) /\ Len(InnerCounts) = rank - 1
          /\ \A d \in 1 .. rank - 1 : InnerCounts[d] = slices[1].count[d + 1]
      BY <1>6, <2>2, InnerTypes
    <3>2. PICK d \in 1 .. rank - 1 : InnerCounts[d] = 0
      BY <2>4, <3>1, ProductZero
    <3>3. d + 1 \in 2 .. rank /\ d + 1 \in 1 .. rank /\ d + 1 # 1
      BY <1>4
    <3>4. d + 1 \in DOMAIN dims
      <4>1. dims \in Seq(Nat)
        BY <2>2, DatasetFacts
      <4>. QED
        BY <3>3, <4>1 DEF RankMatches
    <3>5. inner[d + 1].start = slices[1].start[d + 1] /\ inner[d + 1].count = 0
      <4>1. \A e \in 2 .. rank : inner[e].start = slices[1].start[e] /\ inner[e].count = slices[1].count[e]
        BY <1>1 DEF SendInv, InnerInv
      <4>2. slices[1].count[d + 1] = 0
        BY <3>1, <3>2
      <4>. QED
        BY <3>3, <4>1, <4>2
    <3>6. inner[d + 1].start \in Nat
      BY <2>2, <3>1, <3>3, <3>5, SliceTypes
    <3>7. inner[d + 1].start .. inner[d + 1].start + inner[d + 1].count - 1 = {}
      <4>1. \A x \in Nat : x .. x + 0 - 1 = {}
        OBVIOUS
      <4>. QED
        BY <3>5, <3>6, <4>1
    <3>8. \A e : ~Column(e)
      BY <3>3, <3>4, <3>7 DEF Column
    <3>9. \A R : InRows(R) = {}
      BY <3>8 DEF InRows
    <3>10. Sent(Passed) = <<>> /\ Sent(AllRows) = <<>>
      BY <2>2, <3>9, NoElements
    <3>. QED
      BY <1>2, <2>1, <2>3, <3>10
  <2>5. CASE Product(InnerCounts) # 0
    <3>1. RowsOf(Len(slices)) - RowsOf(slice_nr) - offset_in_slice = 0
      BY <1>1, <1>6, <2>5 DEF SliceInv, CursorInv, RowsLeft
    <3>2. Passed = AllRows
      BY <1>6, <2>2, <3>1, RowsPassed DEF Passed
    <3>. QED
      BY <1>2, <2>1, <2>3, <3>2
  <2>. QED
    BY <2>4, <2>5
<1>. QED
  BY <1>2, <1>4, <1>5, <1>6

LEMMA SelectNextSent ==
  ASSUME SliceInv, OutputInv, SendInv, SelectNext
  PROVE  SendInv'
<1>1. /\ pc = "next" /\ Running /\ ~Choosing /\ UNCHANGED input
      /\ inner' = inner /\ buffer' = buffer /\ out' = out /\ result = "none"
  BY DEF SelectNext, Running, Choosing, header, packing, SliceInv, InputInv
<1>2. rank' = rank /\ slices' = slices /\ dims' = dims /\ (RankMatches' <=> RankMatches)
  BY <1>1, InputSame
<1>3. (\A R : Sent(R)' = Sent(R)) /\ Wanted' = Wanted /\ Passed' = RowsUpTo(slice_nr', offset_in_slice')
  BY <1>1, SentSame
<1>4. InnerInv \/ ~Running' => InnerInv'
  BY <1>1, <1>2 DEF InnerInv
<1>5. CASE elements_left_total = 0 /\ End("ok")
  <2>1. ~Running'
    BY <1>5 DEF End, Running
  <2>2. RankMatches => out = Wanted /\ buffer = <<>> /\ out \in Seq(Nat)
    BY <1>1, <1>5, NothingLeft
  <2>. QED
    BY <1>1, <1>2, <1>3, <2>1, <2>2 DEF SendInv, InnerInv, TakenInv, SentAll
<1>6. CASE elements_left_total > 0 /\ rank = 0 /\ pc' = "read" /\ UNCHANGED result
  <2>1. ~(rank > 0) /\ elements_left_total # 0
    BY <1>6
  <2>2. ASSUME RankMatches PROVE ScalarSent'
    <3>1. ScalarSent
      BY <1>1, <1>6, <2>2 DEF SendInv, TakenInv
    <3>. QED
      BY <1>1, <1>6, <2>1, <3>1 DEF ScalarSent
  <2>. QED
    BY <1>1, <1>2, <1>4, <1>6, <2>1, <2>2 DEF SendInv, TakenInv, SentAll
<1>7. CASE /\ elements_left_total > 0 /\ rank > 0 /\ pc' = "select" /\ selected' = <<>>
           /\ UNCHANGED result /\ UNCHANGED <<slice_nr, offset_in_slice>>
  <2>1. rank # 0 /\ Choosing'
    BY <1>7 DEF Choosing
  <2>2. SelectedRows' = {}
    <3>1. ToSet(<<>>) = {}
      BY DEF ToSet
    <3>. QED
      BY <1>7, <3>1 DEF SelectedRows
  <2>3. Passed' = Passed
    BY <1>3, <1>7 DEF Passed
  <2>4. ASSUME RankMatches PROVE \E taken \in SUBSET Passed' : Took(taken)'
    <3>1. PICK taken \in SUBSET Passed : Took(taken)
      BY <1>1, <1>7, <2>4 DEF SendInv, TakenInv
    <3>2. taken = Passed /\ out \o buffer = Sent(taken)
      BY <1>1, <3>1 DEF Took
    <3>3. Took(taken)'
      BY <1>1, <1>3, <2>1, <2>2, <2>3, <3>2 DEF Took
    <3>. QED
      BY <2>3, <3>1, <3>3
  <2>. QED
    BY <1>1, <1>2, <1>4, <1>7, <2>1, <2>4 DEF SendInv, TakenInv, SentAll
<1>. QED
  BY <1>5, <1>6, <1>7 DEF SelectNext, cursor

LEMMA SelectSliceSent ==
  ASSUME SliceInv, OutputInv, SendInv, SelectSlice
  PROVE  SendInv'
<1> DEFINE s == slices[slice_nr + 1]
           n == ElementsToRead(s)
           k == slice_nr
           o == offset_in_slice
           f == s.start[1] + o
           I == f .. f + n - 1
<1>1. /\ pc = "select" /\ pc' = "select" /\ Running /\ Running' /\ Choosing /\ Choosing' /\ UNCHANGED input
      /\ inner' = inner /\ buffer' = buffer /\ out' = out /\ result' = result /\ result = "none"
  BY DEF SelectSlice, Running, Choosing, header, packing, SliceInv, InputInv
<1>2. rank' = rank /\ slices' = slices /\ dims' = dims /\ (RankMatches' <=> RankMatches)
  BY <1>1, InputSame
<1>3. (\A R : Sent(R)' = Sent(R)) /\ Passed' = RowsUpTo(slice_nr', offset_in_slice')
  BY <1>1, SentSame
<1>4. InnerInv'
  BY <1>1, <1>2 DEF SendInv, InnerInv
<1>5. /\ selected' = IF n > 0 THEN Append(selected, [start |-> f, count |-> n]) ELSE selected
      /\ offset_in_slice' = IF o + n >= s.count[1] THEN 0 ELSE o + n
      /\ slice_nr' = IF o + n >= s.count[1] THEN k + 1 ELSE k
  BY DEF SelectSlice, SliceDone
<1>6. /\ n \in Nat /\ n <= s.count[1] - o /\ s.count[1] \in Nat /\ o \in Nat /\ f \in Nat
      /\ k \in Nat /\ k + 1 \in 1 .. Len(slices) /\ rank > 0
      /\ selected \in Seq([start : Nat, count : Nat])
  BY SelectFacts
<1>7. rank # 0
  BY <1>6
<1>8. ASSUME RankMatches PROVE \E taken \in SUBSET Passed' : Took(taken)'
  <2>1. PICK taken \in SUBSET Passed : Took(taken)
    BY <1>1, <1>6, <1>8 DEF SendInv, TakenInv
  <2>2. /\ out \o buffer = Sent(taken) /\ taken \cup SelectedRows = Passed
        /\ \A a \in taken, b \in SelectedRows : a < b
    BY <1>1, <2>1 DEF Took
  <2>3. GoodRequest /\ Apart /\ Len(slices) \in Nat
    BY <1>1, <1>6, <1>8, SendFacts
  <2>4. k \in 0 .. Len(slices) - 1 /\ o + n <= s.count[1]
    <3> HIDE DEF n, s, o, k
    <3>. QED
      BY <1>6, <2>3
  <2>5. /\ RowsUpTo(k, o + n) = RowsUpTo(k, o) \cup I
        /\ o + n = s.count[1] => RowsUpTo(k + 1, 0) = RowsUpTo(k, o + n)
        /\ \A a \in RowsUpTo(k, o), b \in I : a < b
    <3> HIDE DEF n
    <3>. QED
      BY <1>6, <2>3, <2>4, RowsUpToFacts
  <2>6. SelectedRows' = SelectedRows \cup I
    <3> HIDE DEF n, f
    <3>. QED
      BY <1>5, <1>6, MoreRows
  <2>7. Passed = RowsUpTo(k, o)
    BY DEF Passed
  <2> HIDE DEF n, f, s, I, k, o
  <2>8. Passed' = RowsUpTo(k, o) \cup I
    <3>1. CASE o + n >= s.count[1]
      <4>1. o + n = s.count[1]
        BY <1>6, <2>4, <3>1
      <4>. QED
        BY <1>3, <1>5, <2>5, <3>1, <4>1
    <3>2. CASE ~(o + n >= s.count[1])
      BY <1>3, <1>5, <2>5, <3>2
    <3>. QED
      BY <3>1, <3>2
  <2>9. taken \in SUBSET Passed'
    BY <2>1, <2>7, <2>8
  <2>10. taken \cup SelectedRows' = Passed'
    BY <2>2, <2>6, <2>7, <2>8
  <2>11. \A a \in taken, b \in SelectedRows' : a < b
    BY <2>1, <2>2, <2>5, <2>6, <2>7
  <2>12. Took(taken)'
    BY <1>1, <1>3, <2>2, <2>10, <2>11 DEF Took
  <2>. QED
    BY <2>9, <2>12
<1>. QED
  BY <1>1, <1>2, <1>4, <1>7, <1>8 DEF SendInv, TakenInv, SentAll

LEMMA ReadSent ==
  ASSUME SliceInv, OutputInv, SendInv, Read
  PROVE  SendInv'
<1>1. CASE End("failed")
  BY <1>1, EndsSent DEF End, Running
<1>2. CASE CanRead /\ buffer' = UnitsOf(InFileOrder(Selection)) /\ pc' = "body" /\ UNCHANGED result
  <2>1. /\ pc = "read" /\ Running /\ Running' /\ Choosing /\ ~Choosing' /\ UNCHANGED input
        /\ inner' = inner /\ out' = out /\ result' = result /\ result = "none"
        /\ slice_nr' = slice_nr /\ offset_in_slice' = offset_in_slice /\ elements_left_total' = elements_left_total
    BY <1>2 DEF Read, Running, Choosing, header, cursor, SliceInv, InputInv
  <2>2. rank' = rank /\ slices' = slices /\ dims' = dims /\ (RankMatches' <=> RankMatches)
    BY <2>1, InputSame
  <2>3. /\ (\A R : Sent(R)' = Sent(R)) /\ Wanted' = Wanted
        /\ Passed' = RowsUpTo(slice_nr', offset_in_slice')
    BY <2>1, SentSame
  <2>4. Passed' = Passed
    BY <2>1, <2>3 DEF Passed
  <2>5. InnerInv'
    BY <2>1, <2>2 DEF SendInv, InnerInv
  <2>6. buffer = <<>> /\ out \in Seq(Nat) /\ IsDataset(dataset) /\ rank \in Nat
    BY <2>1, RunningFacts DEF OutputInv, CountInv
  <2>7. out \o buffer = out
    <3>1. out \o <<>> = out
      BY <2>6, EmptyIsUnit
    <3>. QED
      BY <2>6, <3>1
  <2>8. ASSUME RankMatches, rank = 0 PROVE ScalarSent'
    <3>1. ScalarSent
      BY <2>1, <2>8 DEF SendInv, TakenInv
    <3>2. out = <<>>
      BY <2>1, <2>7, <3>1 DEF ScalarSent
    <3>3. Selection = {0}
      <4>1. dims \in Seq(Nat) /\ Len(dims) = 0
        BY <2>6, <2>8, DatasetFacts DEF RankMatches
      <4>2. dims = <<>>
        BY <4>1, EmptySeq
      <4>3. Product(dims) = 1
        BY <4>2, ProductEmpty
      <4>4. 0 .. 1 - 1 = {0}
        OBVIOUS
      <4>. QED
        BY <2>8, <4>3, <4>4 DEF Selection, Elements
    <3>4. InFileOrder({0}) = <<0>>
      <4>1. 0 \in Nat /\ 1 \in Nat /\ 0 .. 0 + 1 - 1 = {0}
        OBVIOUS
      <4>2. InFileOrder(0 .. 0 + 1 - 1) = Ascending(0, 1)
        BY <4>1, OrderInterval
      <4>3. Ascending(0, 1) = <<0>>
        BY DEF Ascending
      <4>. QED
        BY <4>1, <4>2, <4>3
    <3>5. Wanted = UnitsOf(<<0>>)
      BY <2>8 DEF Wanted
    <3>6. buffer' = Wanted
      BY <1>2, <3>3, <3>4, <3>5
    <3>7. buffer' \in Seq(Nat)
      <4>1. <<0>> \in Seq(Nat)
        OBVIOUS
      <4>. QED
        BY <2>6, <3>5, <3>6, <4>1, UnitsOfFacts
    <3>8. out' \o buffer' = Wanted
      <4>1. <<>> \o buffer' = buffer'
        BY <3>7, EmptyIsUnit
      <4>. QED
        BY <2>1, <3>2, <3>6, <4>1, Zenon
    <3>9. elements_left_total = 0
      <4>1. /\ nr_elements_to_read \in 0 .. ElementsLeft - elements_left_total /\ nr_elements_to_read = 1
            /\ elements_left_total \in 0 .. ElementsLeft
        BY <2>1, <2>8 DEF OutputInv, CountInv
      <4>2. ElementsLeft = 1
        BY <2>1, <2>8, RunningFacts, AskedFor DEF OutputInv
      <4>. QED
        BY <4>1, <4>2
    <3>. QED
      BY <1>2, <2>1, <2>3, <3>8, <3>9 DEF ScalarSent
  <2>9. ASSUME RankMatches, rank > 0 PROVE \E all \in SUBSET Passed' : Took(all)'
    <3>1. PICK taken \in SUBSET Passed : Took(taken)
      BY <2>1, <2>9 DEF SendInv, TakenInv
    <3>2. /\ out \o buffer = Sent(taken) /\ taken \cup SelectedRows = Passed
          /\ \A a \in taken, b \in SelectedRows : a < b
      BY <2>1, <3>1 DEF Took
    <3>3. dims # <<>> /\ Passed \in SUBSET Nat
      BY <2>1, <2>9, SendFacts
    <3>4. taken \in SUBSET Nat /\ SelectedRows \in SUBSET Nat
      BY <3>2, <3>3
    <3>5. Sent(taken \cup SelectedRows) = Sent(taken) \o Sent(SelectedRows)
      BY <2>6, <3>2, <3>3, <3>4, RowsConcat
    <3>6. buffer' = Sent(SelectedRows)
      BY <1>2, <2>6, <2>9, <3>3, SelectionIs DEF Sent
    <3>7. out' \o buffer' = Sent(Passed)
      BY <2>1, <2>7, <3>2, <3>5, <3>6, Zenon
    <3>8. PICK all : all = Passed
      OBVIOUS
    <3>9. Took(all)'
      BY <2>1, <2>3, <2>4, <3>7, <3>8 DEF Took
    <3>. QED
      BY <2>4, <3>8, <3>9
  <2>10. TakenInv'
    BY <2>2, <2>8, <2>9 DEF TakenInv
  <2>. QED
    BY <2>1, <2>5, <2>10 DEF SendInv, SentAll
<1>. QED
  BY <1>1, <1>2 DEF Read

LEMMA PackBinSent ==
  ASSUME SliceInv, OutputInv, SendInv, PackBin
  PROVE  SendInv'
<1> DEFINE T == total_bytes_left
           b == bytes_left_in_bin
           space == IF b = 0 THEN MinSize(T, MaxSize) ELSE b
           l == Len(buffer)
           n == MinSize(l, space)
<1>1. /\ pc = "body" /\ pc' = "body" /\ Running /\ Running' /\ (Choosing' <=> Choosing) /\ UNCHANGED input
      /\ UNCHANGED <<inner, cursor, selected>> /\ result' = result /\ result = "none" /\ dataset.kind = "fixed"
  BY DEF PackBin, Running, Choosing, header, choice, SliceInv, InputInv
<1>2. out' = out \o SubSeq(buffer, 1, n) /\ buffer' = SubSeq(buffer, n + 1, l)
  BY DEF PackBin
<1>3. T \in Nat /\ b \in Nat /\ MaxSize \in Nat
  BY <1>1, SliceConstants DEF OutputInv, BinsInv
<1>4. out \in Seq(Nat) /\ buffer \in Seq(Nat)
  BY <1>1 DEF OutputInv, CountInv
<1>5. l \in Nat
  BY <1>4
<1>6. n \in 0 .. l
  <2>1. space \in Nat
    BY <1>3 DEF MinSize
  <2> HIDE DEF space, l
  <2>. QED
    BY <1>5, <2>1 DEF MinSize
<1> HIDE DEF n
<1>7. (out \o SubSeq(buffer, 1, n)) \o SubSeq(buffer, n + 1, l) = out \o buffer
  BY <1>4, <1>6, PackingMoves
<1>8. out' \o buffer' = out \o buffer
  BY <1>2, <1>7, Zenon
<1>. QED
  BY <1>1, <1>8, KeepsSent

LEMMA PackElementSent ==
  ASSUME SliceInv, OutputInv, SendInv, PackElement
  PROVE  SendInv'
<1>1. /\ pc = "body" /\ pc' = "body" /\ Running /\ Running' /\ (Choosing' <=> Choosing) /\ UNCHANGED input
      /\ UNCHANGED <<inner, cursor, selected>> /\ result' = result /\ result = "none"
      /\ buffer # <<>> /\ out' = Append(out, Head(buffer)) /\ buffer' = Tail(buffer)
  BY DEF PackElement, Running, Choosing, header, choice, SliceInv, InputInv
<1>2. out \in Seq(Nat) /\ buffer \in Seq(Nat)
  BY <1>1 DEF OutputInv, CountInv
<1>3. Append(out, Head(buffer)) \o Tail(buffer) = out \o buffer
  BY <1>1, <1>2, ElementMoves
<1>4. out' \o buffer' = out \o buffer
  BY <1>1, <1>3, Zenon
<1>. QED
  BY <1>1, <1>4, KeepsSent

LEMMA SelectedSent ==
  ASSUME SliceInv, SendInv, Selected \/ Packed
  PROVE  SendInv'
<1>1. /\ Running /\ Running' /\ (Choosing' <=> Choosing) /\ UNCHANGED input
      /\ UNCHANGED <<inner, cursor, selected>> /\ result' = result /\ result = "none"
      /\ out' = out /\ buffer' = buffer
      /\ (pc = "select" \/ (pc' # "read" /\ pc # "read"))
  BY DEF Selected, Packed, Running, Choosing, header, choice, packing, SliceInv, InputInv
<1>2. pc = "select" => rank # 0
  BY DEF SliceInv, ChoiceInv
<1>. QED
  BY <1>1, <1>2, KeepsSent

LEMMA WalkSent ==
  ASSUME SliceInv, Walk
  PROVE  SendInv'
<1>0. pc \in Before => result = "none"
  BY DEF SliceInv, InputInv, Before
<1>1. ASSUME NEW r, r # "ok", End(r) PROVE SendInv'
  BY <1>1, EndsSent DEF End, Running
<1>2. ASSUME pc \in Before, pc' \in Before, UNCHANGED result PROVE SendInv'
  BY <1>0, <1>2, EndsSent DEF Before, Running
<1>3. CASE OpenFails \/ WalkFails
  BY <1>1, <1>3 DEF OpenFails, WalkFails
<1>4. CASE OpenTooDeep \/ OpenUnknown
  <2>1. pc \in Before /\ Continue
    BY <1>4 DEF OpenTooDeep, OpenUnknown, Before
  <2>. QED
    BY <1>1, <1>2, <2>1 DEF Continue, Before
<1>5. CASE OpenGroup \/ OpenDataset \/ VisitLink
  <2>1. pc \in Before /\ pc' \in Before /\ UNCHANGED result
    BY <1>5 DEF OpenGroup, OpenDataset, VisitLink, Before
  <2>. QED
    BY <1>2, <2>1
<1>6. CASE GroupPacked
  <2>1. pc \in Before /\ (End("walked") \/ UNCHANGED <<pc, result>>)
    BY <1>6 DEF GroupPacked, Before
  <2>. QED
    BY <1>1, <1>2, <2>1
<1>7. CASE DatasetPacked
  <2>1. ~Running' /\ result' # "ok"
    BY <1>7 DEF DatasetPacked, Running
  <2>. QED
    BY <2>1, EndsSent
<1>. QED
  BY <1>3, <1>4, <1>5, <1>6, <1>7 DEF Walk

LEMMA SlicesSent ==
  ASSUME SliceInv, OutputInv, SendInv, Next
  PROVE  SendInv'
<1>1. ASSUME NEW r, r # "ok", End(r) PROVE SendInv'
  BY <1>1, EndsSent DEF End, Running
<1>2. CASE PackDataset
  <2>1. CASE End("refused") \/ End("no_data")
    BY <1>1, <2>1
  <2>2. CASE pc' = "begin" /\ UNCHANGED result
    <3>1. ~Running' /\ result' # "ok"
      BY <1>2, <2>2 DEF PackDataset, Running, SliceInv, InputInv
    <3>. QED
      BY <3>1, EndsSent
  <2>. QED
    BY <1>2, <2>1, <2>2 DEF PackDataset
<1>3. CASE DivideByZero \/ Refuse \/ PackNested \/ Fail
  BY <1>1, <1>3 DEF DivideByZero, Refuse, PackNested, Fail
<1>4. CASE Start
  BY <1>4, StartsSent
<1>5. CASE SelectNext
  BY <1>5, SelectNextSent
<1>6. CASE SelectSlice
  BY <1>6, SelectSliceSent
<1>7. CASE Selected \/ Packed
  BY <1>7, SelectedSent
<1>8. CASE Read
  BY <1>8, ReadSent
<1>9. CASE PackBin
  BY <1>9, PackBinSent
<1>10. CASE PackElement
  BY <1>10, PackElementSent
<1>. QED
  BY <1>2, <1>3, <1>4, <1>5, <1>6, <1>7, <1>8, <1>9, <1>10 DEF Next

LEMMA StutterSent ==
  ASSUME SliceInv, SendInv, UNCHANGED allvars
  PROVE  SendInv'
<1>1. /\ UNCHANGED input /\ UNCHANGED <<pc, result, inner, cursor, selected, buffer, out>>
  BY DEF allvars, vars, header, cursor, choice, packing
<1>2. (Running' <=> Running) /\ (Choosing' <=> Choosing)
  BY <1>1 DEF Running, Choosing
<1>3. CASE Running
  <2>1. result' # "ok"
    BY <1>1, <1>3 DEF SliceInv, InputInv, Running
  <2>. QED
    BY <1>1, <1>2, <1>3, <2>1, KeepsSent
<1>4. CASE ~Running
  <2>1. Wanted' = Wanted /\ (RankMatches' <=> RankMatches)
    BY <1>1, SentSame, InputSame
  <2>. QED
    BY <1>1, <1>2, <1>4, <2>1 DEF SendInv, InnerInv, TakenInv, SentAll
<1>. QED
  BY <1>3, <1>4

LEMMA SendInvariant == WalkSpec => []SendInv
<1>1. WalkInit => SendInv
  <2> SUFFICES ASSUME WalkInit PROVE SendInv
    OBVIOUS
  <2>1. pc \in {"begin", "open"} /\ result = "none"
    BY DEF WalkInit, Init, Fresh
  <2>. QED
    BY <2>1 DEF SendInv, InnerInv, TakenInv, SentAll, Running
<1>2. SliceInv /\ OutputInv /\ SendInv /\ [WalkNext]_allvars => SendInv'
  <2> SUFFICES ASSUME SliceInv, OutputInv, SendInv, [WalkNext]_allvars PROVE SendInv'
    OBVIOUS
  <2>1. CASE Walk
    BY <2>1, WalkSent
  <2>2. CASE Next /\ UNCHANGED walk
    BY <2>2, SlicesSent
  <2>3. CASE UNCHANGED allvars
    BY <2>3, StutterSent
  <2>. QED
    BY <2>1, <2>2, <2>3 DEF WalkNext
<1>. QED
  BY <1>1, <1>2, SliceInvariant, OutputInvariant, PTL DEF WalkSpec

(* The bytes of a scalar *)
LEMMA WantedScalar ==
  ASSUME IsDataset(dataset), rank = 0
  PROVE  Wanted \in Seq(Nat) /\ IsPrefix(<<>>, Wanted) /\ IsPrefix(Wanted, Wanted)
<1>1. Wanted = UnitsOf(<<0>>) /\ <<0>> \in Seq(Nat) /\ <<>> \in Seq(Nat)
  BY DEF Wanted
<1>2. Wanted \in Seq(Nat)
  BY <1>1, UnitsOfFacts
<1>3. <<>> \o Wanted = Wanted /\ Wanted \o <<>> = Wanted
  BY <1>2, EmptyIsUnit
<1>4. IsPrefix(<<>>, <<>> \o Wanted) /\ IsPrefix(Wanted, Wanted \o <<>>)
  BY <1>1, <1>2, PrefixOf
<1>. QED
  BY <1>2, <1>3, <1>4

(* What pack_dataset_multi_slice sends is the slices that were asked for, in *)
(* their order: at any time a part of them from the beginning, and all of    *)
(* them when it returns without an error.  For every dataset and request of  *)
(* its rank, every size of the read buffer and limit on the slices selected  *)
(* at once, rows grouped into buffers, neighbouring slices merged by HDF5    *)
(* and bytes cut into msgpack_bins change nothing of it.                     *)
THEOREM SlicesAlwaysSent == WalkSpec => []SendsTheSlices
<1>1. SliceInv /\ OutputInv /\ SendInv => SendsTheSlices
  <2> SUFFICES ASSUME SliceInv, OutputInv, SendInv, RankMatches, Running \/ result = "ok"
               PROVE  IsPrefix(out \o buffer, Wanted) /\ (result = "ok" => out = Wanted)
    BY DEF SendsTheSlices
  <2>1. CASE Running
    <3>1. result # "ok" /\ IsDataset(dataset) /\ rank \in Nat
      BY <2>1, RunningFacts DEF OutputInv
    <3>2. CASE rank = 0
      <4>1. ScalarSent
        BY <2>1, <3>2 DEF SendInv, TakenInv
      <4>2. out \o buffer = Wanted \/ out \o buffer = <<>>
        BY <4>1 DEF ScalarSent
      <4>. QED
        BY <3>1, <3>2, <4>2, WantedScalar
    <3>3. CASE rank > 0
      <4>1. PICK taken \in SUBSET Passed : Took(taken)
        BY <2>1, <3>3 DEF SendInv, TakenInv
      <4>2. /\ GoodRequest /\ Apart /\ dims # <<>> /\ Passed \in SUBSET Nat /\ AllRows \in SUBSET Nat
            /\ Passed \in SUBSET AllRows /\ \A a \in Passed, b \in AllRows \ Passed : a < b
        BY <2>1, <3>3, SendFacts
      <4> DEFINE rest == AllRows \ taken
      <4>3. taken \in SUBSET Nat /\ rest \in SUBSET Nat /\ AllRows = taken \cup rest
        BY <4>1, <4>2
      <4>4. ASSUME NEW a \in taken, NEW b \in rest PROVE a < b
        <5>1. CASE b \in Passed
          <6>1. Choosing /\ b \in SelectedRows
            BY <4>1, <4>4, <5>1 DEF Took
          <6>. QED
            BY <4>1, <6>1 DEF Took
        <5>2. CASE b \notin Passed
          BY <4>1, <4>2, <5>2
        <5>. QED
          BY <5>1, <5>2
      <4> HIDE DEF rest
      <4>5. Sent(taken \cup rest) = Sent(taken) \o Sent(rest)
        BY <3>1, <4>2, <4>3, <4>4, RowsConcat
      <4>6. Wanted = Sent(AllRows)
        BY <3>1, <3>3, <4>2, WantedIs
      <4>7. Sent(taken) \in Seq(Nat) /\ Sent(rest) \in Seq(Nat)
        BY <3>1, InRowsFacts
      <4>8. IsPrefix(Sent(taken), Sent(taken) \o Sent(rest))
        BY <4>7, PrefixOf
      <4>9. out \o buffer = Sent(taken)
        BY <4>1 DEF Took
      <4>10. Wanted = Sent(taken) \o Sent(rest)
        BY <4>3, <4>5, <4>6, Zenon
      <4>. QED
        BY <3>1, <4>8, <4>9, <4>10
    <3>. QED
      BY <3>1, <3>2, <3>3
  <2>2. CASE result = "ok"
    <3>1. out = Wanted /\ buffer = <<>> /\ out \in Seq(Nat) /\ <<>> \in Seq(Nat)
      BY <2>2 DEF SendInv, SentAll
    <3>2. IsPrefix(out, out \o <<>>)
      BY <3>1, PrefixOf
    <3>3. out \o <<>> = out
      BY <3>1, EmptyIsUnit
    <3>4. IsPrefix(out \o buffer, Wanted)
      BY <3>1, <3>2, <3>3
    <3>. QED
      BY <3>1, <3>4
  <2>. QED
    BY <2>1, <2>2
<1>. QED
  BY <1>1, SliceInvariant, OutputInvariant, SendInvariant, PTL
=============================================================================
