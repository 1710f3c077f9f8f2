-------------------------- MODULE PackObjectProofs --------------------------
(***************************************************************************)
(* Proofs about the walk over the objects of a file, PackObject, for files *)
(* of any size and shape: what is written is the tree below the object     *)
(* asked for, each link once and below its own group.                      *)
(***************************************************************************)
EXTENDS MultiSliceProofs

-----------------------------------------------------------------------------
(* Sequences with one more element, and beginnings of sequences *)

(* p is t, or where t begins *)
Begins(p, t) == Len(p) <= Len(t) /\ \A i \in 1 .. Len(p) : t[i] = p[i]

LEMMA Extends ==
  ASSUME NEW T, NEW s \in Seq(T), NEW e \in T
  PROVE  /\ Append(s, e) \in Seq(T) /\ Append(s, e) # <<>>
         /\ Len(s) \in Nat /\ Len(Append(s, e)) = Len(s) + 1
         /\ \A i \in 1 .. Len(s) : Append(s, e)[i] = s[i]
         /\ Append(s, e)[Len(s) + 1] = e
         /\ Last(Append(s, e)) = e /\ Front(Append(s, e)) = s
         /\ Begins(s, Append(s, e))
<1> DEFINE t == Append(s, e)
           n == Len(s)
<1>1. /\ t \in Seq(T) /\ n \in Nat /\ Len(t) = n + 1 /\ t # <<>>
      /\ \A i \in 1 .. n : t[i] = s[i]
      /\ t[n + 1] = e
  BY AppendProperties
<1> HIDE DEF t
<1>2. Last(t) = e
  BY <1>1 DEF Last
<1>3. Front(t) = s
  <2> DEFINE f == SubSeq(t, 1, n)
  <2>1. (n + 1) - 1 = n /\ 1 \in 1 .. Len(t) + 1 /\ n \in 1 - 1 .. Len(t)
    BY <1>1
  <2>2. Front(t) = f
    BY <1>1, <2>1 DEF Front
  <2>3. f \in Seq(T) /\ Len(f) = n - 1 + 1 /\ \A i \in 1 .. n - 1 + 1 : f[i] = t[1 + i - 1]
    BY <1>1, <2>1, SubSeqProperties
  <2>4. n - 1 + 1 = n /\ \A i \in 1 .. n : 1 + i - 1 = i
    BY <1>1
  <2> HIDE DEF f
  <2>5. Len(f) = Len(s) /\ \A i \in 1 .. Len(f) : f[i] = s[i]
    BY <1>1, <2>3, <2>4
  <2>6. f = s
    BY <2>3, <2>5, SeqEqual
  <2>. QED
    BY <2>2, <2>6
<1>4. Begins(s, t)
  BY <1>1 DEF Begins
<1>. QED
  BY <1>1, <1>2, <1>3, <1>4 DEF t

LEMMA Splits ==
  ASSUME NEW T, NEW t \in Seq(T), t # <<>>
  PROVE  \E s \in Seq(T), e \in T : t = Append(s, e) /\ Len(t) = Len(s) + 1 /\ Front(t) = s /\ Last(t) = e
<1> DEFINE n == Len(t) - 1
           s == SubSeq(t, 1, n)
           e == t[Len(t)]
           u == Append(s, e)
<1>1. Len(t) \in Nat /\ Len(t) # 0
  BY EmptySeq
<1>2. n \in Nat /\ n + 1 = Len(t) /\ 1 \in 1 .. Len(t) + 1 /\ n \in 1 - 1 .. Len(t) /\ Len(t) \in 1 .. Len(t)
  BY <1>1
<1>3. e \in T
  BY <1>2, SeqElement
<1> HIDE DEF n
<1>4. s \in Seq(T) /\ Len(s) = n - 1 + 1 /\ \A i \in 1 .. n - 1 + 1 : s[i] = t[1 + i - 1]
  BY <1>2, SubSeqProperties
<1>5. n - 1 + 1 = n /\ \A i \in 1 .. n : 1 + i - 1 = i
  BY <1>2
<1> HIDE DEF s, e
<1>6. s \in Seq(T) /\ Len(s) = n /\ \A i \in 1 .. n : s[i] = t[i]
  BY <1>4, <1>5
<1>7. /\ u \in Seq(T) /\ Len(u) = n + 1 /\ u[n + 1] = e
      /\ \A i \in 1 .. n : u[i] = s[i]
      /\ Front(u) = s /\ Last(u) = e
  BY <1>3, <1>6, Extends
<1> HIDE DEF u
<1>8. ASSUME NEW i \in 1 .. Len(t) PROVE u[i] = t[i]
  <2>1. CASE i = n + 1
    BY <1>2, <1>7, <2>1 DEF e
  <2>2. CASE i # n + 1
    <3>1. i \in 1 .. n
      BY <1>2, <2>2
    <3>. QED
      BY <1>6, <1>7, <3>1
  <2>. QED
    BY <2>1, <2>2
<1>9. Len(u) = Len(t) /\ \A i \in 1 .. Len(u) : u[i] = t[i]
  BY <1>2, <1>7, <1>8
<1>10. u = t
  BY <1>7, <1>9, SeqEqual
<1>11. t = Append(s, e) /\ Front(t) = s /\ Last(t) = e /\ Len(t) = Len(s) + 1
  BY <1>2, <1>6, <1>7, <1>10 DEF u
<1>. QED
  BY <1>3, <1>6, <1>11

(* A beginning of a sequence with one more element *)
LEMMA BeginsAppend ==
  ASSUME NEW T, NEW s \in Seq(T), NEW e \in T, NEW t \in Seq(T)
  PROVE  /\ Begins(t, t)
         /\ Begins(Append(s, e), t) => Begins(s, t) /\ Len(s) < Len(t) /\ t[Len(s) + 1] = e
         /\ Begins(t, s) => Begins(t, Append(s, e))
         /\ Begins(t, Append(s, e)) /\ Len(t) <= Len(s) => Begins(t, s)
         /\ ~Begins(Append(s, e), s)
<1> DEFINE u == Append(s, e)
           n == Len(s)
           m == Len(t)
<1>1. /\ n \in Nat /\ m \in Nat /\ Len(u) = n + 1 /\ u[n + 1] = e
      /\ \A i \in 1 .. n : u[i] = s[i]
  BY Extends
<1> HIDE DEF u
<1>2. Begins(t, t)
  BY <1>1 DEF Begins
<1>3. Begins(u, t) => Begins(s, t) /\ n < m /\ t[n + 1] = e
  <2>1. SUFFICES ASSUME n + 1 <= m, \A i \in 1 .. n + 1 : t[i] = u[i]
                 PROVE  Begins(s, t) /\ n < m /\ t[n + 1] = e
    BY <1>1 DEF Begins
  <2>2. n <= m /\ n < m /\ n + 1 \in 1 .. n + 1 /\ \A i \in 1 .. n : i \in 1 .. n + 1
    BY <1>1, <2>1
  <2>. QED
    BY <1>1, <2>1, <2>2 DEF Begins
<1>4. Begins(t, s) => Begins(t, u)
  <2>1. SUFFICES ASSUME m <= n, \A i \in 1 .. m : s[i] = t[i] PROVE Begins(t, u)
    BY DEF Begins
  <2>2. m <= n + 1 /\ \A i \in 1 .. m : i \in 1 .. n
    BY <1>1, <2>1
  <2>. QED
    BY <1>1, <2>1, <2>2 DEF Begins
<1>5. Begins(t, u) /\ m <= n => Begins(t, s)
  <2>1. SUFFICES ASSUME m <= n, \A i \in 1 .. m : u[i] = t[i] PROVE Begins(t, s)
    BY DEF Begins
  <2>2. \A i \in 1 .. m : i \in 1 .. n
    BY <1>1, <2>1
  <2>. QED
    BY <1>1, <2>1, <2>2 DEF Begins
<1>6. ~Begins(u, s)
  BY <1>1 DEF Begins
<1>. QED
  BY <1>2, <1>3, <1>4, <1>5, <1>6 DEF u

LEMMA BeginsTransitive ==
  ASSUME NEW T, NEW s \in Seq(T), NEW t \in Seq(T), NEW u \in Seq(T), Begins(s, t), Begins(t, u)
  PROVE  Begins(s, u)
<1>1. Len(s) \in Nat /\ Len(t) \in Nat /\ Len(u) \in Nat
  OBVIOUS
<1>2. Len(s) <= Len(u) /\ \A i \in 1 .. Len(s) : i \in 1 .. Len(t)
  BY <1>1 DEF Begins
<1>. QED
  BY <1>2 DEF Begins

-----------------------------------------------------------------------------
(* Trails *)

LinksAt(t) == file[At(t)].links

LEMMA GroupLinks ==
  ASSUME file \in Files, NEW t, IsGroup(t)
  PROVE  /\ LinksAt(t) \in Seq(Links) /\ ToSet(LinksAt(t)) \in SUBSET Links
         /\ Len(LinksAt(t)) \in Nat
         /\ \A l, m \in ToSet(LinksAt(t)) : l.name = m.name => l = m
         /\ IsInjective(LinksAt(t))
<1>1. At(t) \in DOMAIN file /\ file[At(t)].type = "group"
  BY DEF IsGroup, Shown
<1>2. /\ LinksAt(t) \in Seq(Links)
      /\ \A i, j \in DOMAIN LinksAt(t) : LinksAt(t)[i].name = LinksAt(t)[j].name => i = j
  BY <1>1, ObjectConstants DEF LinksAt
<1> DEFINE s == LinksAt(t)
<1> HIDE DEF s
<1>3. s \in Seq(Links) /\ \A i, j \in DOMAIN s : s[i].name = s[j].name => i = j
  BY <1>2 DEF s
<1>4. ToSet(s) \in SUBSET Links
  BY <1>3 DEF ToSet
<1>5. \A l, m \in ToSet(s) : l.name = m.name => l = m
  <2>1. ASSUME NEW l \in ToSet(s), NEW m \in ToSet(s), l.name = m.name PROVE l = m
    <3>1. PICK i \in DOMAIN s : l = s[i]
      BY DEF ToSet
    <3>2. PICK j \in DOMAIN s : m = s[j]
      BY DEF ToSet
    <3>. QED
      BY <1>3, <2>1, <3>1, <3>2
  <2>. QED
    BY <2>1
<1>6. IsInjective(s)
  BY <1>3 DEF IsInjective
<1>7. Len(s) \in Nat
  BY <1>3
<1>. QED
  BY <1>3, <1>4, <1>5, <1>6, <1>7 DEF s

(* One link more *)
Longer(S) == UNION { { Append(t, link) : link \in ToSet(file[At(t)].links) } : t \in { t \in S : IsGroup(t) } }

LEMMA LongerIs ==
  ASSUME NEW S, NEW u
  PROVE  u \in Longer(S) <=> \E t \in S : IsGroup(t) /\ \E l \in ToSet(LinksAt(t)) : u = Append(t, l)
  BY DEF Longer, LinksAt

LEMMA TrailsAre ==
  ASSUME file \in Files, max_depth \in Nat
  PROVE  /\ Trails[0] = {<<>>}
         /\ \A n \in 1 .. max_depth + 1 : Trails[n] = Longer(Trails[n - 1])
         /\ \A n \in 0 .. max_depth + 1 : Trails[n] \in SUBSET Seq(Links)
<1> DEFINE L == max_depth + 1
           F(f) == [n \in 0 .. L |-> IF n = 0 THEN {<<>>} ELSE Longer(f[n - 1])]
           f == CHOOSE f : f = F(f)
           T == SUBSET Seq(Links)
           step == [n \in 1 .. L |-> [x \in T |-> Longer(x)]]
<1>1. L \in Nat
  OBVIOUS
<1>2. ASSUME NEW S \in T PROVE Longer(S) \in T
  <2>1. SUFFICES ASSUME NEW u \in Longer(S) PROVE u \in Seq(Links)
    OBVIOUS
  <2>2. PICK t \in S : IsGroup(t) /\ \E l \in ToSet(LinksAt(t)) : u = Append(t, l)
    BY LongerIs
  <2>3. PICK l \in ToSet(LinksAt(t)) : u = Append(t, l)
    BY <2>2
  <2>4. l \in Links /\ t \in Seq(Links)
    BY <2>2, GroupLinks
  <2>. QED
    BY <2>3, <2>4
<1>3. step \in [1 .. L -> [T -> T]] /\ \A n \in 1 .. L, x \in T : step[n][x] = Longer(x)
  BY <1>2
<1>4. {<<>>} \in T
  OBVIOUS
<1> HIDE DEF step, T, L
<1>5. PICK g \in [0 .. L -> T] : Computes(g, L, {<<>>}, step)
  BY <1>1, <1>3, <1>4, RecursionExists
<1>6. g[0] = {<<>>} /\ \A n \in 1 .. L : g[n] = Longer(g[n - 1])
  <2>1. \A n \in 1 .. L : n - 1 \in 0 .. L
    BY <1>1
  <2>. QED
    BY <1>3, <1>5, <2>1 DEF Computes
<1>7. g = F(g)
  <2>1. \A n \in 0 .. L : n # 0 => n \in 1 .. L
    BY <1>1
  <2>. QED
    BY <1>5, <1>6, <2>1
<1>8. f = F(f)
  BY <1>7
<1>9. Trails = f
  BY DEF Trails, f, L, Longer
<1> HIDE DEF f
<1>10. /\ \A n \in 0 .. L : f[n] = IF n = 0 THEN {<<>>} ELSE Longer(f[n - 1])
  BY <1>8
<1>11. f[0] = {<<>>} /\ \A n \in 1 .. L : f[n] = Longer(f[n - 1])
  <2>1. 0 \in 0 .. L /\ \A n \in 1 .. L : n \in 0 .. L /\ n # 0
    BY <1>1
  <2>. QED
    BY <1>10, <2>1
<1>12. \A n \in 0 .. L : f[n] \in T
  <2> DEFINE S == { n \in 0 .. L : f[n] \in T }
  <2>1. 0 \in S
    <3>1. 0 \in 0 .. L
      BY <1>1
    <3>2. f[0] \in T
      BY <1>4, <1>11, Zenon
    <3>. QED
      BY <3>1, <3>2
  <2>2. ASSUME NEW n \in 0 .. L - 1, n \in S PROVE n + 1 \in S
    <3>1. n + 1 \in 1 .. L /\ n + 1 \in 0 .. L /\ (n + 1) - 1 = n
      BY <1>1
    <3>. QED
      BY <1>2, <1>11, <2>2, <3>1
  <2>3. S \in SUBSET (0 .. L) /\ \A n \in S : f[n] \in T
    OBVIOUS
  <2> HIDE DEF S
  <2>4. 0 .. L \subseteq S
    BY <1>1, <2>1, <2>2, Induction
  <2>. QED
    BY <2>3, <2>4
<1>. QED
  BY <1>9, <1>11, <1>12 DEF L, T

AllTrails == UNION { Trails[n] : n \in 0 .. max_depth + 1 }
Listed == { t \in AllTrails : t = <<>> \/ Expanded(Front(t)) }

LEMMA TrailLengths ==
  ASSUME file \in Files, max_depth \in Nat
  PROVE  \A n \in 0 .. max_depth + 1 : \A t \in Trails[n] : t \in Seq(Links) /\ Len(t) = n
<1> DEFINE L == max_depth + 1
           S == { n \in 0 .. L : \A t \in Trails[n] : Len(t) = n }
<1>1. L \in Nat
  OBVIOUS
<1>2. /\ Trails[0] = {<<>>}
      /\ \A n \in 1 .. L : Trails[n] = Longer(Trails[n - 1])
      /\ \A n \in 0 .. L : Trails[n] \in SUBSET Seq(Links)
  BY TrailsAre
<1> HIDE DEF L
<1>3. 0 \in S
  BY <1>1, <1>2
<1>4. ASSUME NEW n \in 0 .. L - 1, n \in S PROVE n + 1 \in S
  <2>1. n + 1 \in 1 .. L /\ n + 1 \in 0 .. L /\ (n + 1) - 1 = n /\ n \in 0 .. L
    BY <1>1
  <2>2. ASSUME NEW u \in Trails[n + 1] PROVE Len(u) = n + 1
    <3>1. u \in Longer(Trails[n])
      BY <1>2, <2>1
    <3>2. PICK t \in Trails[n] : IsGroup(t) /\ \E l \in ToSet(LinksAt(t)) : u = Append(t, l)
      BY <3>1, LongerIs
    <3>3. PICK l \in ToSet(LinksAt(t)) : u = Append(t, l)
      BY <3>2
    <3>4. l \in Links /\ t \in Seq(Links) /\ Len(t) = n
      BY <1>2, <1>4, <2>1, <3>2, GroupLinks
    <3>. QED
      BY <3>3, <3>4, Extends
  <2>. QED
    BY <2>1, <2>2
<1>5. \A n \in S : \A t \in Trails[n] : Len(t) = n
  OBVIOUS
<1> HIDE DEF S
<1>6. 0 .. L \subseteq S
  BY <1>1, <1>3, <1>4, Induction
<1>. QED
  BY <1>2, <1>5, <1>6 DEF L

(* A trail that is listed, seen from its last link and from its first *)
LEMMA ListedFacts ==
  ASSUME file \in Files, max_depth \in Nat
  PROVE  /\ <<>> \in Listed
         /\ \A t \in Listed : t \in Seq(Links) /\ Len(t) \in Nat
         /\ \A t \in Listed : Expanded(t) =>
              \A l \in ToSet(LinksAt(t)) : l \in Links /\ Append(t, l) \in Listed
         /\ \A t \in Listed : t # <<>> =>
              \E s \in AllTrails : /\ Expanded(s) /\ Len(t) = Len(s) + 1 /\ s \in Seq(Links)
                                   /\ \E l \in ToSet(LinksAt(s)) : t = Append(s, l)
<1> DEFINE L == max_depth + 1
<1>1. L \in Nat
  OBVIOUS
<1>2. /\ Trails[0] = {<<>>}
      /\ \A n \in 1 .. L : Trails[n] = Longer(Trails[n - 1])
  BY TrailsAre
<1>3. \A n \in 0 .. L : \A t \in Trails[n] : t \in Seq(Links) /\ Len(t) = n
  BY TrailLengths
<1>4. \A t : t \in AllTrails <=> \E n \in 0 .. L : t \in Trails[n]
  BY DEF AllTrails
<1>5. L = max_depth + 1
  OBVIOUS
<1> HIDE DEF L
<1>6. <<>> \in Listed
  BY <1>1, <1>2, <1>4 DEF Listed
<1>7. \A t \in Listed : t \in AllTrails /\ (t = <<>> \/ Expanded(Front(t)))
  BY DEF Listed
<1>8. \A t \in AllTrails : t \in Seq(Links) /\ Len(t) \in 0 .. L /\ t \in Trails[Len(t)]
  BY <1>3, <1>4
<1>9. ASSUME NEW t \in Listed, Expanded(t), NEW l \in ToSet(LinksAt(t))
      PROVE  l \in Links /\ Append(t, l) \in Listed
  <2>1. IsGroup(t) /\ Len(t) <= max_depth
    BY <1>9 DEF Expanded
  <2>2. l \in Links /\ t \in Seq(Links)
    BY <1>7, <1>8, <2>1, GroupLinks
  <2>3. Front(Append(t, l)) = t
    BY <2>2, Extends
  <2>4. Len(t) \in 0 .. L /\ t \in Trails[Len(t)]
    BY <1>7, <1>8
  <2>5. Len(t) + 1 \in 1 .. L /\ Len(t) + 1 \in 0 .. L /\ (Len(t) + 1) - 1 = Len(t)
    BY <1>1, <1>5, <2>1, <2>4
  <2>6. Append(t, l) \in Trails[Len(t) + 1]
    <3>1. Trails[Len(t) + 1] = Longer(Trails[Len(t)])
      BY <1>2, <2>5
    <3>2. Append(t, l) \in Longer(Trails[Len(t)])
      BY <1>9, <2>1, <2>4, LongerIs
    <3>. QED
      BY <3>1, <3>2
  <2>. QED
    BY <1>4, <1>9, <2>2, <2>3, <2>5, <2>6 DEF Listed
<1>10. ASSUME NEW t \in Listed, t # <<>>
       PROVE  \E s \in AllTrails : /\ Expanded(s) /\ Len(t) = Len(s) + 1 /\ s \in Seq(Links)
                                   /\ \E l \in ToSet(LinksAt(s)) : t = Append(s, l)
  <2>1. t \in Seq(Links) /\ Len(t) \in 0 .. L /\ t \in Trails[Len(t)] /\ Expanded(Front(t))
    BY <1>7, <1>8, <1>10
  <2>2. Len(t) # 0
    BY <1>10, <2>1, EmptySeq
  <2>3. Len(t) \in 1 .. L /\ Len(t) - 1 \in 0 .. L
    BY <1>1, <2>1, <2>2
  <2>4. t \in Longer(Trails[Len(t) - 1])
    BY <1>2, <2>1, <2>3
  <2>5. PICK s \in Trails[Len(t) - 1] : IsGroup(s) /\ \E l \in ToSet(LinksAt(s)) : t = Append(s, l)
    BY <2>4, LongerIs
  <2>6. PICK l \in ToSet(LinksAt(s)) : t = Append(s, l)
    BY <2>5
  <2>7. s \in AllTrails /\ s \in Seq(Links) /\ l \in Links
    BY <1>3, <1>4, <2>3, <2>5, GroupLinks
  <2>8. Len(t) = Len(s) + 1 /\ Front(t) = s
    BY <2>6, <2>7, Extends
  <2>. QED
    BY <2>1, <2>6, <2>7, <2>8
<1>11. \A t \in Listed : t \in Seq(Links) /\ Len(t) \in Nat
  BY <1>7, <1>8
<1>. QED
  BY <1>6, <1>9, <1>10, <1>11

(* What a trail shows depends on the file and on max_depth only *)
Path(t) == [i \in DOMAIN t |-> t[i].name]

Visible(t) == Len(t) <= (IF max_depth = 0 THEN 1 ELSE max_depth) /\ FewOnTheWay(t)

LEMMA SameTree ==
  ASSUME file' = file, max_depth' = max_depth
  PROVE  /\ Listed' = Listed
         /\ \A t : (Expanded(t)' <=> Expanded(t)) /\ LinksAt(t)' = LinksAt(t)
         /\ \A t : (Visible(t)' <=> Visible(t)) /\ ShownAs(t)' = ShownAs(t)
<1>1. Trails' = Trails
  BY DEF Trails, IsGroup, Shown, Followed
<1>2. \A t : (Expanded(t)' <=> Expanded(t)) /\ LinksAt(t)' = LinksAt(t)
  BY DEF Expanded, LinksAt, IsGroup, Shown, Followed, FewOnTheWay
<1>3. \A t : (Visible(t)' <=> Visible(t)) /\ ShownAs(t)' = ShownAs(t)
  BY DEF Visible, ShownAs, Shown, Followed, FewOnTheWay
<1>4. AllTrails' = AllTrails
  BY <1>1 DEF AllTrails
<1>5. Listed' = Listed
  BY <1>2, <1>4 DEF Listed
<1>. QED
  BY <1>2, <1>3, <1>5

(* The groups on the way to a trail with one more link *)
LEMMA FewStep ==
  ASSUME NEW t \in Seq(Links), NEW l \in Links
  PROVE  FewOnTheWay(Append(t, l)) <=> FewOnTheWay(t) /\ (t # <<>> => Len(LinksAt(t)) <= MaxLinks)
<1> DEFINE u == Append(t, l)
           n == Len(t)
           few(s) == Len(file[At(s)].links) <= MaxLinks
<1>1. /\ u \in Seq(Links) /\ n \in Nat /\ Len(u) = n + 1
      /\ \A i \in 1 .. n : u[i] = t[i]
  BY Extends
<1> HIDE DEF u
<1>2. ASSUME NEW k \in 1 .. n PROVE SubSeq(u, 1, k) = SubSeq(t, 1, k)
  <2> DEFINE x == SubSeq(u, 1, k)
             y == SubSeq(t, 1, k)
  <2>1. k \in 1 - 1 .. n /\ k \in 1 - 1 .. n + 1 /\ 1 \in 1 .. n + 1 /\ 1 \in 1 .. (n + 1) + 1
    BY <1>1
  <2>2. x \in Seq(Links) /\ Len(x) = k - 1 + 1 /\ \A i \in 1 .. k - 1 + 1 : x[i] = u[1 + i - 1]
    BY <1>1, <2>1, SubSeqProperties
  <2>3. y \in Seq(Links) /\ Len(y) = k - 1 + 1 /\ \A i \in 1 .. k - 1 + 1 : y[i] = t[1 + i - 1]
    BY <1>1, <2>1, SubSeqProperties
  <2> HIDE DEF x, y
  <2>4. k - 1 + 1 = k /\ \A i \in 1 .. k : 1 + i - 1 = i /\ i \in 1 .. n
    BY <1>1
  <2>5. Len(x) = Len(y) /\ \A i \in 1 .. Len(x) : x[i] = y[i]
    BY <1>1, <2>2, <2>3, <2>4
  <2>6. x = y
    BY <2>2, <2>3, <2>5, SeqEqual
  <2>. QED
    BY <2>6 DEF x, y
<1>3. n # 0 => SubSeq(t, 1, n) = t
  <2> DEFINE y == SubSeq(t, 1, n)
  <2>1. n \in 1 - 1 .. n /\ 1 \in 1 .. n + 1
    BY <1>1
  <2>3. y \in Seq(Links) /\ Len(y) = n - 1 + 1 /\ \A i \in 1 .. n - 1 + 1 : y[i] = t[1 + i - 1]
    BY <1>1, <2>1, SubSeqProperties
  <2> HIDE DEF y
  <2>4. n - 1 + 1 = n /\ \A i \in 1 .. n : 1 + i - 1 = i
    BY <1>1
  <2>5. Len(y) = Len(t) /\ \A i \in 1 .. Len(y) : y[i] = t[i]
    BY <1>1, <2>3, <2>4
  <2>6. y = t
    BY <2>3, <2>5, SeqEqual
  <2>. QED
    BY <2>6 DEF y
<1>4. FewOnTheWay(u) <=> \A k \in 1 .. n : few(SubSeq(u, 1, k))
  <2>1. Len(u) - 1 = n
    BY <1>1
  <2>. QED
    BY <2>1 DEF FewOnTheWay
<1>5. FewOnTheWay(t) <=> \A k \in 1 .. n - 1 : few(SubSeq(t, 1, k))
  BY DEF FewOnTheWay
<1>6. FewOnTheWay(u) <=> \A k \in 1 .. n : few(SubSeq(t, 1, k))
  BY <1>2, <1>4
<1>7. t # <<>> <=> n # 0
  BY EmptySeq
<1>8. few(t) <=> Len(LinksAt(t)) <= MaxLinks
  BY DEF LinksAt
<1> HIDE DEF few, n
<1>9. CASE n = 0
  <2>1. 1 .. n = {} /\ 1 .. n - 1 = {}
    BY <1>9
  <2>. QED
    BY <1>5, <1>6, <1>7, <1>9, <2>1 DEF u
<1>10. CASE n # 0
  <2>1. n \in 1 .. n /\ \A k \in 1 .. n : k \in 1 .. n - 1 \/ k = n
    BY <1>1, <1>10
  <2>2. \A k \in 1 .. n - 1 : k \in 1 .. n
    BY <1>1
  <2>3. few(SubSeq(t, 1, n)) <=> few(t)
    BY <1>3, <1>10
  <2>4. (\A k \in 1 .. n : few(SubSeq(t, 1, k))) <=> (\A k \in 1 .. n - 1 : few(SubSeq(t, 1, k))) /\ few(SubSeq(t, 1, n))
    BY <2>1, <2>2
  <2>. QED
    BY <1>5, <1>6, <1>7, <1>8, <1>10, <2>3, <2>4 DEF u
<1>. QED
  BY <1>9, <1>10

(* visit_link encodes the members of a group exactly if they are visible *)
LEMMA EncodeIs ==
  ASSUME file \in Files, max_depth \in Nat, NEW t \in Seq(Links), Expanded(t), NEW l \in Links
  PROVE  EncodeMembers(Len(t), Len(LinksAt(t))) <=> Visible(Append(t, l))
<1> DEFINE n == Len(t)
           few == Len(LinksAt(t)) <= MaxLinks
<1>1. n \in Nat /\ n <= max_depth /\ Len(Append(t, l)) = n + 1
  BY Extends DEF Expanded
<1>2. FewOnTheWay(Append(t, l)) <=> (n # 0 => few)
  BY FewStep, EmptySeq DEF Expanded
<1>3. Visible(Append(t, l)) <=> n + 1 <= (IF max_depth = 0 THEN 1 ELSE max_depth) /\ (n # 0 => few)
  BY <1>1, <1>2 DEF Visible
<1>4. EncodeMembers(n, Len(LinksAt(t))) <=> n = 0 \/ (few /\ n < max_depth)
  BY DEF EncodeMembers
<1> HIDE DEF few, n
<1>. QED
  BY <1>1, <1>3, <1>4 DEF n

LEMMA PathFacts ==
  ASSUME NEW t \in Seq(Links)
  PROVE  /\ Path(t) \in Seq(STRING) /\ Len(Path(t)) = Len(t)
         /\ \A i \in 1 .. Len(t) : Path(t)[i] = t[i].name
         /\ \A l \in Links : Path(Append(t, l)) = Append(Path(t), l.name)
<1> DEFINE n == Len(t)
<1>1. n \in Nat /\ DOMAIN t = 1 .. n /\ \A i \in 1 .. n : t[i] \in Links
  OBVIOUS
<1>2. \A i \in 1 .. n : t[i].name \in STRING
  BY <1>1 DEF Links
<1>3. Path(t) = [i \in 1 .. n |-> t[i].name]
  BY <1>1 DEF Path
<1>4. Path(t) \in Seq(STRING) /\ Len(Path(t)) = n
  BY <1>1, <1>2, <1>3
<1>5. \A i \in 1 .. n : Path(t)[i] = t[i].name
  BY <1>3
<1>6. ASSUME NEW l \in Links PROVE Path(Append(t, l)) = Append(Path(t), l.name)
  <2> DEFINE u == Append(t, l)
             p == Path(u)
             q == Append(Path(t), l.name)
  <2>1. u \in Seq(Links) /\ Len(u) = n + 1 /\ u[n + 1] = l /\ \A i \in 1 .. n : u[i] = t[i]
    BY Extends
  <2>2. l.name \in STRING
    BY DEF Links
  <2>3. q \in Seq(STRING) /\ Len(q) = n + 1 /\ q[n + 1] = l.name /\ \A i \in 1 .. n : q[i] = Path(t)[i]
    BY <1>4, <2>2, Extends
  <2> HIDE DEF u, q
  <2>4. DOMAIN u = 1 .. n + 1
    BY <2>1
  <2>5. p = [i \in 1 .. n + 1 |-> u[i].name]
    BY <2>4 DEF Path
  <2>6. \A i \in 1 .. n + 1 : u[i] \in Links
    BY <2>1, <2>4
  <2>7. p \in Seq(STRING) /\ Len(p) = n + 1
    BY <1>1, <2>5, <2>6 DEF Links
  <2> HIDE DEF p
  <2>8. ASSUME NEW i \in 1 .. n + 1 PROVE p[i] = q[i]
    <3>1. p[i] = u[i].name
      BY <2>5
    <3>2. i = n + 1 \/ i \in 1 .. n
      BY <1>1
    <3>. QED
      BY <1>5, <2>1, <2>3, <3>1, <3>2
  <2>9. p = q
    BY <2>3, <2>7, <2>8, SeqEqual
  <2>. QED
    BY <2>9 DEF p, q, u
<1>. QED
  BY <1>4, <1>5, <1>6

(* A path leads to one thing: a group has one link of a name *)
LEMMA PathUnique ==
  ASSUME file \in Files, max_depth \in Nat, NEW t \in Listed, NEW u \in Listed, Path(t) = Path(u)
  PROVE  t = u
<1> DEFINE L == max_depth + 1
           S == { n \in 0 .. L : \A x, y \in Trails[n] : Path(x) = Path(y) => x = y }
<1>1. L \in Nat
  OBVIOUS
<1>2. /\ Trails[0] = {<<>>}
      /\ \A n \in 1 .. L : Trails[n] = Longer(Trails[n - 1])
  BY TrailsAre
<1>3. \A n \in 0 .. L : \A x \in Trails[n] : x \in Seq(Links) /\ Len(x) = n
  BY TrailLengths
<1>4. \A x \in Listed : \E n \in 0 .. L : x \in Trails[n]
  BY DEF Listed, AllTrails
<1> HIDE DEF L
<1>5. 0 \in S
  <2>1. 0 \in 0 .. L
    BY <1>1
  <2>. QED
    BY <1>2, <2>1
<1>6. ASSUME NEW n \in 0 .. L - 1, n \in S PROVE n + 1 \in S
  <2>1. n + 1 \in 1 .. L /\ n + 1 \in 0 .. L /\ (n + 1) - 1 = n /\ n \in 0 .. L
    BY <1>1
  <2>2. ASSUME NEW x \in Trails[n + 1], NEW y \in Trails[n + 1], Path(x) = Path(y) PROVE x = y
    <3>1. x \in Longer(Trails[n]) /\ y \in Longer(Trails[n])
      BY <1>2, <2>1
    <3>2. PICK s \in Trails[n] : IsGroup(s) /\ \E l \in ToSet(LinksAt(s)) : x = Append(s, l)
      BY <3>1, LongerIs
    <3>3. PICK l \in ToSet(LinksAt(s)) : x = Append(s, l)
      BY <3>2
    <3>4. PICK v \in Trails[n] : IsGroup(v) /\ \E m \in ToSet(LinksAt(v)) : y = Append(v, m)
      BY <3>1, LongerIs
    <3>5. PICK m \in ToSet(LinksAt(v)) : y = Append(v, m)
      BY <3>4
    <3>6. s \in Seq(Links) /\ v \in Seq(Links)
      BY <1>3, <2>1
    <3>7. l \in Links /\ m \in Links /\ l.name \in STRING /\ m.name \in STRING
      BY <3>2, <3>4, GroupLinks DEF Links
    <3>8. Append(Path(s), l.name) = Append(Path(v), m.name)
      <4>1. Path(x) = Append(Path(s), l.name)
        BY <3>3, <3>6, <3>7, PathFacts
      <4>2. Path(y) = Append(Path(v), m.name)
        BY <3>5, <3>6, <3>7, PathFacts
      <4>. QED
        BY <2>2, <4>1, <4>2, Zenon
    <3>9. Path(s) \in Seq(STRING) /\ Path(v) \in Seq(STRING)
      BY <3>6, PathFacts
    <3>10. Path(s) = Path(v) /\ l.name = m.name
      <4>1. /\ Front(Append(Path(s), l.name)) = Path(s) /\ Last(Append(Path(s), l.name)) = l.name
        BY <3>7, <3>9, Extends
      <4>2. /\ Front(Append(Path(v), m.name)) = Path(v) /\ Last(Append(Path(v), m.name)) = m.name
        BY <3>7, <3>9, Extends
      <4>. QED
        BY <3>8, <4>1, <4>2, Zenon
    <3>11. s = v
      BY <1>6, <3>10
    <3>12. l = m
      BY <3>2, <3>10, <3>11, GroupLinks
    <3>. QED
      BY <3>3, <3>5, <3>11, <3>12
  <2>. QED
    BY <2>1, <2>2
<1>7. \A n \in S : \A x, y \in Trails[n] : Path(x) = Path(y) => x = y
  OBVIOUS
<1> HIDE DEF S
<1>8. 0 .. L \subseteq S
  BY <1>1, <1>5, <1>6, Induction
<1>9. PICK n \in 0 .. L : t \in Trails[n]
  BY <1>4
<1>10. PICK m \in 0 .. L : u \in Trails[m]
  BY <1>4
<1>11. t \in Seq(Links) /\ u \in Seq(Links) /\ Len(t) = n /\ Len(u) = m
  BY <1>3, <1>9, <1>10
<1>12. n = m
  BY <1>11, PathFacts
<1>. QED
  BY <1>7, <1>8, <1>9, <1>10, <1>12

-----------------------------------------------------------------------------
(* The walk in terms of trails: W was written; A are the groups on the way,  *)
(* R[i] the links of A[i] that are not visited yet; P is what is opened now, *)
(* if anything.                                                              *)

Pending(A, R, P) == { t \in Listed : t \in P \/ \E i \in 1 .. Len(A) : \E l \in R[i] : t = Append(A[i], l) }

(* Each link once, below its own group *)
Written(W) ==
  /\ W \in Seq(Listed)
  /\ \A i, j \in 1 .. Len(W) : W[i] = W[j] => i = j
  /\ \A i \in 2 .. Len(W) : W[i] # <<>> /\ Begins(Front(W[i]), W[i - 1])

(* The groups on the way are one trail; what is left in them is not on it *)
Descent(A, R) ==
  /\ A \in Seq(Listed)
  /\ \A i \in 1 .. Len(A) : Len(A[i]) = i - 1 /\ Expanded(A[i]) /\ R[i] \in SUBSET ToSet(LinksAt(A[i]))
  /\ \A i, j \in 1 .. Len(A) : i <= j => Begins(A[i], A[j])
  /\ \A i, j \in 1 .. Len(A) : i < j => \A l \in R[i] : ~Begins(Append(A[i], l), A[j])

(* The last thing written is in all of the groups on the way, or is the last *)
LastInside(W, A) ==
  Len(A) > 0 => Len(W) > 0 /\ \A i \in 1 .. Len(A) : Begins(A[i], W[Len(W)])

(* What is opened is in the last of the groups, and not one of what is left *)
Candidate(W, A, R, o) ==
  /\ o \in Listed
  /\ Len(A) = 0 => Len(W) = 0 /\ o = <<>>
  /\ Len(A) > 0 => \E l \in Links : o = Append(A[Len(A)], l)
  /\ \A i \in 1 .. Len(A) : \A l \in R[i] : ~Begins(Append(A[i], l), o)

(* Nothing that is left was written, with anything below it *)
Untouched(W, A, R, P) == \A p \in Pending(A, R, P) : \A i \in 1 .. Len(W) : ~Begins(p, W[i])

(* Everything in a group that was written is written, or is left *)
Covered(W, A, R, P) ==
  /\ <<>> \in ToSet(W) \cup Pending(A, R, P)
  /\ \A t \in ToSet(W) : Expanded(t) =>
       \A l \in ToSet(LinksAt(t)) : Append(t, l) \in ToSet(W) \cup Pending(A, R, P)

Walked(W, A, R, P) ==
  /\ Written(W) /\ Descent(A, R) /\ LastInside(W, A)
  /\ \A o \in P : Candidate(W, A, R, o)
  /\ Untouched(W, A, R, P) /\ Covered(W, A, R, P)

LEMMA Nonempty ==
  ASSUME NEW T, NEW s \in Seq(T)
  PROVE  /\ Len(s) \in Nat /\ (Len(s) = 0 <=> s = <<>>)
         /\ \A i \in 1 .. Len(s) : s[i] \in T /\ s[i] \in ToSet(s)
         /\ \A x \in ToSet(s) : x \in T /\ \E i \in 1 .. Len(s) : x = s[i]
<1>1. Len(s) \in Nat /\ (Len(s) = 0 <=> s = <<>>) /\ DOMAIN s = 1 .. Len(s)
  BY EmptySeq
<1>2. \A i \in 1 .. Len(s) : s[i] \in T
  BY SeqElement, <1>1
<1>. QED
  BY <1>1, <1>2 DEF ToSet

LEMMA SetOfAppend ==
  ASSUME NEW T, NEW s \in Seq(T), NEW e \in T
  PROVE  ToSet(Append(s, e)) = ToSet(s) \cup {e}
<1> DEFINE u == Append(s, e)
           n == Len(s)
<1>1. u \in Seq(T) /\ n \in Nat /\ Len(u) = n + 1 /\ u[n + 1] = e /\ \A i \in 1 .. n : u[i] = s[i]
  BY Extends
<1>2. DOMAIN s = 1 .. n /\ DOMAIN u = 1 .. n + 1
  BY <1>1
<1>3. n + 1 \in 1 .. n + 1 /\ \A i \in 1 .. n + 1 : i = n + 1 \/ i \in 1 .. n
  BY <1>1
<1>4. \A i \in 1 .. n : i \in 1 .. n + 1
  BY <1>1
<1> HIDE DEF u, n
<1>5. ASSUME NEW x \in ToSet(u) PROVE x \in ToSet(s) \cup {e}
  BY <1>1, <1>2, <1>3 DEF ToSet
<1>6. ASSUME NEW x \in ToSet(s) \cup {e} PROVE x \in ToSet(u)
  BY <1>1, <1>2, <1>3, <1>4 DEF ToSet
<1>7. ToSet(u) = ToSet(s) \cup {e}
  BY <1>5, <1>6
<1>. QED
  BY <1>7 DEF u

(* The types of what a walk is made of *)
LEMMA WalkTypes ==
  ASSUME file \in Files, max_depth \in Nat, NEW A, NEW R, Descent(A, R)
  PROVE  /\ Len(A) \in Nat
         /\ \A i \in 1 .. Len(A) : /\ A[i] \in Listed /\ A[i] \in Seq(Links) /\ Len(A[i]) = i - 1
                                   /\ Expanded(A[i]) /\ R[i] \in SUBSET ToSet(LinksAt(A[i]))
                                   /\ \A l \in R[i] : l \in Links /\ Append(A[i], l) \in Listed
<1>1. /\ A \in Seq(Listed)
      /\ \A i \in 1 .. Len(A) : Len(A[i]) = i - 1 /\ Expanded(A[i]) /\ R[i] \in SUBSET ToSet(LinksAt(A[i]))
  BY DEF Descent
<1>2. Len(A) \in Nat /\ \A i \in 1 .. Len(A) : A[i] \in Listed
  BY <1>1, Nonempty
<1>3. /\ \A t \in Listed : t \in Seq(Links) /\ Len(t) \in Nat
      /\ \A t \in Listed : Expanded(t) => \A l \in ToSet(LinksAt(t)) : l \in Links /\ Append(t, l) \in Listed
  BY ListedFacts
<1>. QED
  BY <1>1, <1>2, <1>3

(* What is opened is written: it is new, and goes below its own group *)
LEMMA WriteStep ==
  ASSUME file \in Files, max_depth \in Nat, NEW W, NEW A, NEW R, NEW o, Walked(W, A, R, {o})
  PROVE  /\ W \in Seq(Listed) /\ o \in Listed /\ o \in Seq(Links) /\ Len(o) = Len(A)
         /\ Written(Append(W, o)) /\ Len(Append(W, o)) > 0
         /\ Append(W, o)[Len(Append(W, o))] = o
         /\ ToSet(Append(W, o)) = ToSet(W) \cup {o}
         /\ \A i \in 1 .. Len(A) : Begins(A[i], o)
         /\ \A i \in 1 .. Len(Append(W, o)) : (i \in 1 .. Len(W) /\ Append(W, o)[i] = W[i]) \/ Append(W, o)[i] = o
<1> DEFINE V == Append(W, o)
           n == Len(W)
           d == Len(A)
<1>1. /\ W \in Seq(Listed)
      /\ \A i, j \in 1 .. n : W[i] = W[j] => i = j
      /\ \A i \in 2 .. n : W[i] # <<>> /\ Begins(Front(W[i]), W[i - 1])
  BY DEF Walked, Written
<1>2. /\ o \in Listed
      /\ d = 0 => n = 0 /\ o = <<>>
      /\ d > 0 => \E l \in Links : o = Append(A[d], l)
  BY DEF Walked, Candidate
<1>3. \A i, j \in 1 .. d : i <= j => Begins(A[i], A[j])
  BY DEF Walked, Descent
<1>4. d > 0 => n > 0 /\ \A i \in 1 .. d : Begins(A[i], W[n])
  BY DEF Walked, LastInside
<1>5. d \in Nat /\ \A i \in 1 .. d : A[i] \in Seq(Links) /\ Len(A[i]) = i - 1
  BY WalkTypes DEF Walked
<1>6. \A i \in 1 .. n : ~Begins(o, W[i])
  <2>1. o \in Pending(A, R, {o})
    BY <1>2 DEF Pending
  <2>. QED
    BY <2>1 DEF Walked, Untouched
<1>7. o \in Seq(Links) /\ \A t \in Listed : t \in Seq(Links)
  BY <1>2, ListedFacts
<1>8. Begins(o, o)
  BY <1>7 DEF Begins
<1>9. n \in Nat /\ \A i \in 1 .. n : W[i] # o
  BY <1>1, <1>6, <1>8
<1>10. /\ V \in Seq(Listed) /\ Len(V) = n + 1 /\ V[n + 1] = o
       /\ \A i \in 1 .. n : V[i] = W[i]
  BY <1>1, <1>2, Extends
<1>11. ToSet(V) = ToSet(W) \cup {o}
  BY <1>1, <1>2, SetOfAppend
<1> HIDE DEF V, n, d
<1>12. \A i \in 1 .. n + 1 : i \in 1 .. n \/ i = n + 1
  BY <1>9
<1>13. \A i, j \in 1 .. n + 1 : V[i] = V[j] => i = j
  <2>1. SUFFICES ASSUME NEW i \in 1 .. n + 1, NEW j \in 1 .. n + 1, V[i] = V[j] PROVE i = j
    OBVIOUS
  <2>2. CASE i \in 1 .. n /\ j \in 1 .. n
    BY <1>1, <1>10, <2>1, <2>2
  <2>3. CASE i = n + 1 /\ j \in 1 .. n
    BY <1>9, <1>10, <2>1, <2>3
  <2>4. CASE i \in 1 .. n /\ j = n + 1
    BY <1>9, <1>10, <2>1, <2>4
  <2>. QED
    BY <1>12, <2>2, <2>3, <2>4
<1>14. CASE d = 0
  <2>1. n = 0 /\ o = <<>>
    BY <1>2, <1>14
  <2>2. 1 .. d = {} /\ 2 .. n + 1 = {} /\ Len(o) = 0
    BY <1>14, <2>1
  <2>3. Written(V)
    BY <1>10, <1>13, <2>2 DEF Written
  <2>4. n + 1 > 0
    BY <1>9
  <2>. QED
    BY <1>1, <1>2, <1>7, <1>10, <1>11, <1>12, <1>14, <2>2, <2>3, <2>4 DEF V, n, d
<1>15. CASE d # 0
  <2>1. d > 0 /\ d \in 1 .. d /\ n > 0
    BY <1>4, <1>5, <1>15
  <2>2. PICK l \in Links : o = Append(A[d], l)
    BY <1>2, <2>1
  <2>3. A[d] \in Seq(Links) /\ Len(A[d]) = d - 1
    BY <1>5, <2>1
  <2>4. o # <<>> /\ Front(o) = A[d] /\ Len(o) = (d - 1) + 1 /\ Begins(A[d], o)
    BY <2>2, <2>3, Extends
  <2>5. Len(o) = d
    BY <1>5, <2>4
  <2>6. Begins(A[d], W[n])
    BY <1>4, <2>1
  <2>7. ASSUME NEW i \in 2 .. n + 1 PROVE V[i] # <<>> /\ Begins(Front(V[i]), V[i - 1])
    <3>1. CASE i = n + 1
      <4>1. V[i] = o /\ i - 1 = n /\ n \in 1 .. n
        BY <1>9, <1>10, <2>1, <3>1
      <4>. QED
        BY <1>10, <2>4, <2>6, <4>1
    <3>2. CASE i # n + 1
      <4>1. i \in 2 .. n /\ i \in 1 .. n /\ i - 1 \in 1 .. n
        BY <1>9, <3>2
      <4>. QED
        BY <1>1, <1>10, <4>1
    <3>. QED
      BY <3>1, <3>2
  <2>8. Written(V)
    BY <1>10, <1>13, <2>7 DEF Written
  <2>9. ASSUME NEW i \in 1 .. d PROVE Begins(A[i], o)
    <3>1. i <= d /\ A[i] \in Seq(Links)
      BY <1>5
    <3>2. Begins(A[i], A[d])
      BY <1>3, <2>1, <3>1
    <3>. QED
      BY <1>7, <2>3, <2>4, <3>1, <3>2, BeginsTransitive
  <2>10. n + 1 > 0
    BY <1>9
  <2>. QED
    BY <1>1, <1>2, <1>7, <1>10, <1>11, <1>12, <2>5, <2>8, <2>9, <2>10 DEF V, n, d
<1>. QED
  BY <1>14, <1>15

(* Nothing else that is left goes below what is opened *)
LEMMA PendingIs ==
  ASSUME file \in Files, max_depth \in Nat, NEW A, NEW R, Descent(A, R), NEW P \in SUBSET Listed, NEW t
  PROVE  t \in Pending(A, R, P) <=> (t \in P \/ \E i \in 1 .. Len(A) : \E l \in R[i] : t = Append(A[i], l))
<1>1. \A i \in 1 .. Len(A) : \A l \in R[i] : Append(A[i], l) \in Listed
  BY WalkTypes
<1>. QED
  BY <1>1 DEF Pending

(* A link that is not followed, an object that is not a group, or a group of *)
(* which nothing is shown                                                    *)
LEMMA LeafStep ==
  ASSUME file \in Files, max_depth \in Nat, NEW W, NEW A, NEW R, NEW o, Walked(W, A, R, {o}), ~Expanded(o)
  PROVE  Walked(Append(W, o), A, R, {})
<1> DEFINE V == Append(W, o)
<1>1. /\ o \in Listed /\ o \in Seq(Links)
      /\ Written(V) /\ Len(V) > 0 /\ V[Len(V)] = o /\ ToSet(V) = ToSet(W) \cup {o}
      /\ \A i \in 1 .. Len(A) : Begins(A[i], o)
      /\ \A i \in 1 .. Len(V) : (i \in 1 .. Len(W) /\ V[i] = W[i]) \/ V[i] = o
  BY WriteStep
<1>2. /\ Descent(A, R) /\ Candidate(W, A, R, o)
      /\ Untouched(W, A, R, {o}) /\ Covered(W, A, R, {o})
  BY DEF Walked
<1>3. \A t : t \in Pending(A, R, {o}) <=> (t = o \/ \E i \in 1 .. Len(A) : \E l \in R[i] : t = Append(A[i], l))
  BY <1>1, <1>2, PendingIs
<1>4. \A t : t \in Pending(A, R, {}) <=> \E i \in 1 .. Len(A) : \E l \in R[i] : t = Append(A[i], l)
  BY <1>2, PendingIs
<1> HIDE DEF V
<1>5. LastInside(V, A)
  BY <1>1 DEF LastInside
<1>6. Untouched(V, A, R, {})
  <2>1. SUFFICES ASSUME NEW p \in Pending(A, R, {}), NEW i \in 1 .. Len(V) PROVE ~Begins(p, V[i])
    BY DEF Untouched
  <2>2. p \in Pending(A, R, {o})
    BY <1>3, <1>4
  <2>3. ~Begins(p, o)
    <3>1. PICK j \in 1 .. Len(A) : \E l \in R[j] : p = Append(A[j], l)
      BY <1>4
    <3>2. PICK l \in R[j] : p = Append(A[j], l)
      BY <3>1
    <3>3. \A k \in 1 .. Len(A) : \A m \in R[k] : ~Begins(Append(A[k], m), o)
      BY <1>2 DEF Candidate
    <3>4. ~Begins(Append(A[j], l), o)
      BY <3>3
    <3>. QED
      BY <3>2, <3>4, Zenon
  <2>. QED
    BY <1>1, <1>2, <2>2, <2>3 DEF Untouched
<1>7. ToSet(V) \cup Pending(A, R, {}) = ToSet(W) \cup Pending(A, R, {o})
  BY <1>1, <1>3, <1>4
<1>8. Covered(V, A, R, {})
  BY <1>1, <1>2, <1>7 DEF Covered
<1>. QED
  BY <1>1, <1>2, <1>5, <1>6, <1>8 DEF Walked, V

(* A group of which the members are shown *)
LEMMA DescendStep ==
  ASSUME file \in Files, max_depth \in Nat, NEW W, NEW A, NEW R, NEW o, Walked(W, A, R, {o}), Expanded(o),
         NEW R2, \A i \in 1 .. Len(A) : R2[i] = R[i], R2[Len(A) + 1] = ToSet(LinksAt(o))
  PROVE  Walked(Append(W, o), Append(A, o), R2, {})
<1> DEFINE V == Append(W, o)
           B == Append(A, o)
           n == Len(A)
<1>1. /\ o \in Listed /\ o \in Seq(Links) /\ Len(o) = n
      /\ Written(V) /\ Len(V) > 0 /\ V[Len(V)] = o /\ ToSet(V) = ToSet(W) \cup {o}
      /\ \A i \in 1 .. n : Begins(A[i], o)
      /\ \A i \in 1 .. Len(V) : (i \in 1 .. Len(W) /\ V[i] = W[i]) \/ V[i] = o
  BY WriteStep
<1>2. /\ Descent(A, R) /\ Candidate(W, A, R, o)
      /\ Untouched(W, A, R, {o}) /\ Covered(W, A, R, {o})
  BY DEF Walked
<1>3. /\ n \in Nat
      /\ \A i \in 1 .. n : A[i] \in Seq(Links) /\ Len(A[i]) = i - 1 /\ Expanded(A[i]) /\ R[i] \in SUBSET ToSet(LinksAt(A[i]))
  BY <1>2, WalkTypes
<1>4. /\ A \in Seq(Listed)
      /\ \A i, j \in 1 .. n : i <= j => Begins(A[i], A[j])
      /\ \A i, j \in 1 .. n : i < j => \A l \in R[i] : ~Begins(Append(A[i], l), A[j])
  BY <1>2 DEF Descent
<1>5. \A i \in 1 .. n : \A l \in R[i] : ~Begins(Append(A[i], l), o)
  BY <1>2 DEF Candidate
<1>6. /\ B \in Seq(Listed) /\ Len(B) = n + 1 /\ B[n + 1] = o /\ \A i \in 1 .. n : B[i] = A[i]
  BY <1>1, <1>4, Extends
<1>7. \A l \in ToSet(LinksAt(o)) : l \in Links /\ Append(o, l) \in Listed
  BY <1>1, ListedFacts
<1> HIDE DEF V, B, n
<1>8. \A i \in 1 .. n + 1 : i \in 1 .. n \/ i = n + 1
  BY <1>3
<1>9. n + 1 \in 1 .. n + 1 /\ \A i \in 1 .. n : i \in 1 .. n + 1
  BY <1>3
<1>10. (\A i \in 1 .. n : R2[i] = R[i]) /\ R2[n + 1] = ToSet(LinksAt(o))
  BY DEF n
<1>11. Begins(o, o)
  BY <1>1 DEF Begins
<1>12. Descent(B, R2)
  <2>1. ASSUME NEW i \in 1 .. n + 1
        PROVE  Len(B[i]) = i - 1 /\ Expanded(B[i]) /\ R2[i] \in SUBSET ToSet(LinksAt(B[i]))
    <3>1. CASE i \in 1 .. n
      BY <1>3, <1>6, <1>10, <3>1
    <3>2. CASE i = n + 1
      <4>1. B[i] = o /\ i - 1 = n /\ R2[i] = ToSet(LinksAt(o))
        BY <1>3, <1>6, <1>10, <3>2
      <4>. QED
        BY <1>1, <4>1
    <3>. QED
      BY <1>8, <3>1, <3>2
  <2>2. ASSUME NEW i \in 1 .. n + 1, NEW j \in 1 .. n + 1, i <= j PROVE Begins(B[i], B[j])
    <3>1. CASE j \in 1 .. n
      <4>1. i \in 1 .. n
        BY <1>3, <2>2, <3>1
      <4>. QED
        BY <1>4, <1>6, <2>2, <3>1, <4>1
    <3>2. CASE j = n + 1
      BY <1>1, <1>6, <1>8, <1>11, <3>2
    <3>. QED
      BY <1>8, <3>1, <3>2
  <2>3. ASSUME NEW i \in 1 .. n + 1, NEW j \in 1 .. n + 1, i < j, NEW l \in R2[i]
        PROVE  ~Begins(Append(B[i], l), B[j])
    <3>1. i \in 1 .. n
      BY <1>3, <2>3
    <3>2. B[i] = A[i] /\ l \in R[i]
      BY <1>6, <1>10, <3>1
    <3>3. CASE j \in 1 .. n
      <4>1. B[j] = A[j] /\ ~Begins(Append(A[i], l), A[j])
        BY <1>4, <1>6, <2>3, <3>1, <3>2, <3>3
      <4>. QED
        BY <3>2, <4>1, Zenon
    <3>4. CASE j = n + 1
      <4>1. B[j] = o /\ ~Begins(Append(A[i], l), o)
        BY <1>5, <1>6, <3>1, <3>2, <3>4
      <4>. QED
        BY <3>2, <4>1, Zenon
    <3>. QED
      BY <1>8, <3>3, <3>4
  <2>. QED
    BY <1>6, <2>1, <2>2, <2>3 DEF Descent
<1>13. LastInside(V, B)
  <2>1. \A i \in 1 .. n + 1 : Begins(B[i], o)
    BY <1>1, <1>6, <1>8, <1>11
  <2>. QED
    BY <1>1, <1>6, <2>1 DEF LastInside
<1>14. \A t : t \in Pending(A, R, {o}) <=> (t = o \/ \E i \in 1 .. n : \E l \in R[i] : t = Append(A[i], l))
  <2>1. {o} \in SUBSET Listed
    BY <1>1
  <2>2. \A t : t \in Pending(A, R, {o}) <=> (t \in {o} \/ \E i \in 1 .. Len(A) : \E l \in R[i] : t = Append(A[i], l))
    BY <1>2, <2>1, PendingIs
  <2>. QED
    BY <2>2 DEF n
<1>15. \A t : t \in Pending(B, R2, {}) <=>
         (\E i \in 1 .. n : \E l \in R[i] : t = Append(A[i], l)) \/ \E l \in ToSet(LinksAt(o)) : t = Append(o, l)
  <2>1. SUFFICES ASSUME NEW t
                 PROVE  t \in Pending(B, R2, {}) <=>
                          (\E i \in 1 .. n : \E l \in R[i] : t = Append(A[i], l)) \/ \E l \in ToSet(LinksAt(o)) : t = Append(o, l)
    OBVIOUS
  <2> DEFINE Old(i) == \E l \in R[i] : t = Append(A[i], l)
             New(i) == \E l \in R2[i] : t = Append(B[i], l)
  <2>2. t \in Pending(B, R2, {}) <=> \E i \in 1 .. n + 1 : New(i)
    <3>1. t \in Pending(B, R2, {}) <=> (t \in {} \/ \E i \in 1 .. Len(B) : New(i))
      BY <1>12, PendingIs
    <3>. QED
      BY <1>6, <3>1
  <2>3. ASSUME NEW i \in 1 .. n PROVE New(i) <=> Old(i)
    <3>1. R2[i] = R[i] /\ B[i] = A[i]
      BY <1>6, <1>10
    <3>. QED
      BY <3>1, Zenon
  <2>4. New(n + 1) <=> \E l \in ToSet(LinksAt(o)) : t = Append(o, l)
    <3>1. R2[n + 1] = ToSet(LinksAt(o)) /\ B[n + 1] = o
      BY <1>6, <1>10
    <3>. QED
      BY <3>1, Zenon
  <2> HIDE DEF New, Old
  <2>5. (\E i \in 1 .. n + 1 : New(i)) <=> (\E i \in 1 .. n : Old(i)) \/ New(n + 1)
    BY <1>8, <1>9, <2>3, Zenon
  <2>. QED
    BY <2>2, <2>4, <2>5 DEF Old
<1>16. Untouched(V, B, R2, {})
  <2>1. SUFFICES ASSUME NEW p \in Pending(B, R2, {}), NEW i \in 1 .. Len(V) PROVE ~Begins(p, V[i])
    BY DEF Untouched
  <2>2. CASE \E j \in 1 .. n : \E l \in R[j] : p = Append(A[j], l)
    <3>1. PICK j \in 1 .. n : \E l \in R[j] : p = Append(A[j], l)
      BY <2>2
    <3>2. PICK l \in R[j] : p = Append(A[j], l)
      BY <3>1
    <3>3. ~Begins(Append(A[j], l), o)
      BY <1>5
    <3>4. p \in Pending(A, R, {o})
      BY <1>14, <2>2
    <3>5. ~Begins(p, o)
      BY <3>2, <3>3, Zenon
    <3>. QED
      BY <1>1, <1>2, <3>4, <3>5 DEF Untouched
  <2>3. CASE \E l \in ToSet(LinksAt(o)) : p = Append(o, l)
    <3>1. PICK l \in ToSet(LinksAt(o)) : p = Append(o, l)
      BY <2>3
    <3>2. l \in Links
      BY <1>7
    <3>3. ~Begins(p, o)
      BY <1>1, <3>1, <3>2, BeginsAppend
    <3>4. ASSUME NEW j \in 1 .. Len(W) PROVE ~Begins(p, W[j])
      <4>1. o \in Pending(A, R, {o})
        BY <1>14
      <4>2. ~Begins(o, W[j])
        BY <1>2, <4>1 DEF Untouched
      <4>3. W[j] \in Seq(Links)
        <5>1. W \in Seq(Listed)
          BY DEF Walked, Written
        <5>2. W[j] \in Listed
          BY <5>1, Nonempty
        <5>. QED
          BY <5>2, ListedFacts
      <4>4. Begins(Append(o, l), W[j]) => Begins(o, W[j])
        BY <1>1, <3>2, <4>3, BeginsAppend
      <4>. QED
        BY <3>1, <4>2, <4>4, Zenon
    <3>. QED
      BY <1>1, <3>3, <3>4
  <2>. QED
    BY <1>15, <2>2, <2>3
<1>17. Covered(V, B, R2, {})
  <2>1. ASSUME NEW t \in ToSet(W) \cup Pending(A, R, {o}) PROVE t \in ToSet(V) \cup Pending(B, R2, {})
    BY <1>1, <1>14, <1>15
  <2>2. <<>> \in ToSet(V) \cup Pending(B, R2, {})
    BY <1>2, <2>1 DEF Covered
  <2>3. ASSUME NEW t \in ToSet(V), Expanded(t), NEW l \in ToSet(LinksAt(t))
        PROVE  Append(t, l) \in ToSet(V) \cup Pending(B, R2, {})
    <3>1. CASE t \in ToSet(W)
      BY <1>2, <2>1, <2>3, <3>1 DEF Covered
    <3>2. CASE t = o
      BY <1>15, <2>3, <3>2
    <3>. QED
      BY <1>1, <3>1, <3>2
  <2>. QED
    BY <2>2, <2>3 DEF Covered
<1>. QED
  BY <1>1, <1>12, <1>13, <1>16, <1>17 DEF Walked, V, B

(* The next link of the last of the groups on the way *)
LEMMA TakeStep ==
  ASSUME file \in Files, max_depth \in Nat, NEW W, NEW A, NEW R, Walked(W, A, R, {}), Len(A) > 0,
         NEW l \in R[Len(A)], NEW R2,
         \A i \in 1 .. Len(A) - 1 : R2[i] = R[i], R2[Len(A)] = R[Len(A)] \ {l}
  PROVE  Walked(W, A, R2, {Append(A[Len(A)], l)})
<1> DEFINE n == Len(A)
           o == Append(A[n], l)
<1>1. Written(W) /\ Descent(A, R) /\ LastInside(W, A) /\ Untouched(W, A, R, {}) /\ Covered(W, A, R, {})
  BY DEF Walked
<1>2. /\ n \in Nat
      /\ \A i \in 1 .. n : /\ A[i] \in Seq(Links) /\ Len(A[i]) = i - 1 /\ Expanded(A[i])
                           /\ R[i] \in SUBSET ToSet(LinksAt(A[i]))
                           /\ \A m \in R[i] : m \in Links /\ Append(A[i], m) \in Listed
  BY <1>1, WalkTypes
<1>3. /\ A \in Seq(Listed)
      /\ \A i, j \in 1 .. n : i <= j => Begins(A[i], A[j])
      /\ \A i, j \in 1 .. n : i < j => \A m \in R[i] : ~Begins(Append(A[i], m), A[j])
  BY <1>1 DEF Descent
<1>4. /\ n > 0 /\ l \in R[n]
      /\ \A i \in 1 .. n - 1 : R2[i] = R[i]
      /\ R2[n] = R[n] \ {l}
  OBVIOUS
<1> HIDE DEF n
<1>5. n \in 1 .. n /\ \A i \in 1 .. n : i = n \/ (i \in 1 .. n - 1 /\ i < n)
  BY <1>2, <1>4
<1>6. l \in Links /\ o \in Listed /\ A[n] \in Seq(Links) /\ Len(A[n]) = n - 1
  BY <1>2, <1>4, <1>5
<1>7. ASSUME NEW i \in 1 .. n PROVE R2[i] \in SUBSET R[i]
  BY <1>4, <1>5
<1>8. Descent(A, R2)
  <2>1. \A i \in 1 .. n : Len(A[i]) = i - 1 /\ Expanded(A[i]) /\ R2[i] \in SUBSET ToSet(LinksAt(A[i]))
    BY <1>2, <1>7
  <2>2. \A i, j \in 1 .. n : i < j => \A m \in R2[i] : ~Begins(Append(A[i], m), A[j])
    BY <1>3, <1>7
  <2>. QED
    BY <1>3, <2>1, <2>2 DEF Descent, n
<1>9. o \in Seq(Links) /\ o[Len(A[n]) + 1] = l
  BY <1>6, Extends
<1>10. ASSUME NEW i \in 1 .. n, NEW m \in R2[i] PROVE ~Begins(Append(A[i], m), o)
  <2>1. m \in R[i] /\ m \in Links /\ A[i] \in Seq(Links) /\ Len(A[i]) = i - 1
    BY <1>2, <1>7
  <2>2. CASE i = n
    <3>1. m # l
      BY <1>4, <2>2
    <3> HIDE DEF o
    <3>2. Begins(Append(A[n], m), o) => o[Len(A[n]) + 1] = m
      BY <1>6, <1>9, <2>1, BeginsAppend
    <3>3. ~Begins(Append(A[n], m), o)
      BY <1>9, <3>1, <3>2, Zenon
    <3>. QED
      BY <2>2, <3>3, Zenon
  <2>3. CASE i # n
    <3>1. i < n
      BY <1>5, <2>3
    <3> DEFINE u == Append(A[i], m)
    <3>2. u \in Seq(Links) /\ Len(u) = (i - 1) + 1
      BY <2>1, Extends
    <3> HIDE DEF u
    <3>3. Len(u) <= Len(A[n])
      BY <1>2, <1>6, <3>1, <3>2
    <3>4. Begins(u, o) => Begins(u, A[n])
      BY <1>6, <3>2, <3>3, BeginsAppend
    <3>5. ~Begins(u, A[n])
      <4>1. \A k \in R[i] : ~Begins(Append(A[i], k), A[n])
        BY <1>3, <1>5, <3>1
      <4>. QED
        BY <2>1, <4>1, Zenon DEF u
    <3>. QED
      BY <3>4, <3>5, Zenon DEF u
  <2>. QED
    BY <2>2, <2>3
<1>11. Candidate(W, A, R2, o)
  <2>1. \E m \in Links : o = Append(A[n], m)
    BY <1>6
  <2>2. ~(n = 0)
    BY <1>4
  <2>. QED
    BY <1>6, <1>10, <2>1, <2>2, Zenon DEF Candidate, n
<1> HIDE DEF o
<1>12. Pending(A, R2, {o}) = Pending(A, R, {})
  <2>1. \A t : t \in Pending(A, R, {}) <=> \E i \in 1 .. n : \E m \in R[i] : t = Append(A[i], m)
    BY <1>1, PendingIs DEF n
  <2>2. {o} \in SUBSET Listed
    BY <1>6 DEF o
  <2>3. \A t : t \in Pending(A, R2, {o}) <=> (t \in {o} \/ \E i \in 1 .. n : \E m \in R2[i] : t = Append(A[i], m))
    BY <1>8, <2>2, PendingIs DEF n
  <2>4. ASSUME NEW t \in Pending(A, R, {}) PROVE t \in Pending(A, R2, {o})
    <3>1. PICK i \in 1 .. n : \E m \in R[i] : t = Append(A[i], m)
      BY <2>1
    <3>2. PICK m \in R[i] : t = Append(A[i], m)
      BY <3>1
    <3>3. CASE i = n /\ m = l
      <4>1. t = o
        BY <3>2, <3>3, Zenon DEF o
      <4>. QED
        BY <2>3, <4>1
    <3>4. CASE ~(i = n /\ m = l)
      <4>1. m \in R2[i]
        BY <1>4, <1>5, <3>4
      <4>. QED
        BY <2>3, <3>2, <4>1
    <3>. QED
      BY <3>3, <3>4
  <2>5. ASSUME NEW t \in Pending(A, R2, {o}) PROVE t \in Pending(A, R, {})
    <3>1. CASE t = o
      BY <1>4, <1>5, <2>1, <3>1, Zenon DEF o
    <3>2. CASE \E i \in 1 .. n : \E m \in R2[i] : t = Append(A[i], m)
      BY <1>7, <2>1, <3>2
    <3>. QED
      BY <2>3, <3>1, <3>2
  <2>. QED
    BY <2>4, <2>5
<1>13. Untouched(W, A, R2, {o}) /\ Covered(W, A, R2, {o})
  BY <1>1, <1>12 DEF Untouched, Covered
<1>14. Walked(W, A, R2, {o})
  BY <1>1, <1>8, <1>11, <1>13 DEF Walked
<1>. QED
  BY <1>14 DEF o, n

(* A group of which all links were visited *)
LEMMA PopStep ==
  ASSUME file \in Files, max_depth \in Nat, NEW W, NEW A, NEW R, Walked(W, A, R, {}), Len(A) > 0, R[Len(A)] = {},
         NEW R2, \A i \in 1 .. Len(A) - 1 : R2[i] = R[i]
  PROVE  Walked(W, Front(A), R2, {}) /\ Len(Front(A)) = Len(A) - 1 /\ \A i \in 1 .. Len(A) - 1 : Front(A)[i] = A[i]
<1> DEFINE n == Len(A) - 1
           B == Front(A)
<1>1. Written(W) /\ Descent(A, R) /\ LastInside(W, A) /\ Untouched(W, A, R, {}) /\ Covered(W, A, R, {})
  BY DEF Walked
<1>2. Len(A) \in Nat /\ \A i \in 1 .. Len(A) : Len(A[i]) = i - 1 /\ Expanded(A[i]) /\ R[i] \in SUBSET ToSet(LinksAt(A[i]))
  BY <1>1, WalkTypes
<1>3. /\ A \in Seq(Listed)
      /\ \A i, j \in 1 .. Len(A) : i <= j => Begins(A[i], A[j])
      /\ \A i, j \in 1 .. Len(A) : i < j => \A m \in R[i] : ~Begins(Append(A[i], m), A[j])
  BY <1>1 DEF Descent
<1>4. n \in Nat /\ Len(A) = n + 1 /\ \A i \in 1 .. n : i \in 1 .. Len(A)
  BY <1>2
<1>5. A # <<>>
  BY <1>3, <1>4, EmptySeq
<1>6. PICK s \in Seq(Listed), e \in Listed : A = Append(s, e) /\ Len(A) = Len(s) + 1 /\ Front(A) = s /\ Last(A) = e
  <2> DEFINE T == Listed
  <2> HIDE DEF T
  <2>1. A \in Seq(T)
    BY <1>3 DEF T
  <2>2. \E s \in Seq(T), e \in T : A = Append(s, e) /\ Len(A) = Len(s) + 1 /\ Front(A) = s /\ Last(A) = e
    BY <1>5, <2>1, Splits
  <2>. QED
    BY <2>2, Zenon DEF T
<1>7. B \in Seq(Listed) /\ Len(B) = n /\ \A i \in 1 .. n : B[i] = A[i]
  <2>1. \A i \in 1 .. Len(s) : Append(s, e)[i] = s[i]
    BY Extends
  <2>2. Len(s) = n
    BY <1>4, <1>6
  <2>. QED
    BY <1>6, <2>1, <2>2
<1>8. (\A i \in 1 .. n : R2[i] = R[i]) /\ R[n + 1] = {} /\ \A i \in 1 .. Len(A) : i \in 1 .. n \/ i = n + 1
  <2>1. \A i \in 1 .. n : R2[i] = R[i]
    OBVIOUS
  <2> HIDE DEF n
  <2>2. R[n + 1] = {}
    BY <1>4, Zenon
  <2>3. \A i \in 1 .. Len(A) : i \in 1 .. n \/ i = n + 1
    BY <1>4
  <2>. QED
    BY <2>1, <2>2, <2>3
<1> HIDE DEF B, n
<1>9. Descent(B, R2)
  <2>1. ASSUME NEW i \in 1 .. n
        PROVE  Len(B[i]) = i - 1 /\ Expanded(B[i]) /\ R2[i] \in SUBSET ToSet(LinksAt(B[i]))
    BY <1>2, <1>4, <1>7, <1>8
  <2>2. ASSUME NEW i \in 1 .. n, NEW j \in 1 .. n PROVE i <= j => Begins(B[i], B[j])
    BY <1>3, <1>4, <1>7
  <2>3. ASSUME NEW i \in 1 .. n, NEW j \in 1 .. n, i < j, NEW m \in R2[i] PROVE ~Begins(Append(B[i], m), B[j])
    <3>1. B[i] = A[i] /\ B[j] = A[j] /\ m \in R[i] /\ i \in 1 .. Len(A) /\ j \in 1 .. Len(A)
      BY <1>4, <1>7, <1>8
    <3>2. ~Begins(Append(A[i], m), A[j])
      BY <1>3, <2>3, <3>1
    <3>. QED
      BY <3>1, <3>2, Zenon
  <2>. QED
    BY <1>7, <2>1, <2>2, <2>3 DEF Descent
<1>10. LastInside(W, B)
  <2>1. Len(A) > 0
    OBVIOUS
  <2>. QED
    BY <1>1, <1>4, <1>7, <2>1 DEF LastInside
<1>11. Pending(B, R2, {}) = Pending(A, R, {})
  <2>1. \A t : t \in Pending(A, R, {}) <=> \E i \in 1 .. Len(A) : \E m \in R[i] : t = Append(A[i], m)
    BY <1>1, PendingIs
  <2>2. \A t : t \in Pending(B, R2, {}) <=> \E i \in 1 .. n : \E m \in R2[i] : t = Append(B[i], m)
    <3>1. \A t : t \in Pending(B, R2, {}) <=> \E i \in 1 .. Len(B) : \E m \in R2[i] : t = Append(B[i], m)
      BY <1>9, PendingIs
    <3>. QED
      BY <1>7, <3>1, Zenon
  <2>3. ASSUME NEW t \in Pending(A, R, {}) PROVE t \in Pending(B, R2, {})
    <3>1. PICK i \in 1 .. Len(A) : \E m \in R[i] : t = Append(A[i], m)
      BY <2>1
    <3>2. PICK m \in R[i] : t = Append(A[i], m)
      BY <3>1
    <3>3. i \in 1 .. n
      BY <1>8
    <3>4. m \in R2[i] /\ t = Append(B[i], m)
      BY <1>7, <1>8, <3>2, <3>3
    <3>. QED
      BY <2>2, <3>3, <3>4
  <2>4. ASSUME NEW t \in Pending(B, R2, {}) PROVE t \in Pending(A, R, {})
    <3>1. PICK i \in 1 .. n : \E m \in R2[i] : t = Append(B[i], m)
      BY <2>2
    <3>2. PICK m \in R2[i] : t = Append(B[i], m)
      BY <3>1
    <3>3. i \in 1 .. Len(A) /\ m \in R[i] /\ t = Append(A[i], m)
      BY <1>4, <1>7, <1>8, <3>2
    <3>. QED
      BY <2>1, <3>3
  <2>. QED
    BY <2>3, <2>4
<1>12. Untouched(W, B, R2, {}) /\ Covered(W, B, R2, {})
  BY <1>1, <1>11 DEF Untouched, Covered
<1>13. Walked(W, B, R2, {})
  BY <1>1, <1>9, <1>10, <1>12 DEF Walked
<1>. QED
  BY <1>7, <1>13 DEF B, n

LEMMA WalkBegins ==
  ASSUME file \in Files, max_depth \in Nat, NEW R
  PROVE  Walked(<<>>, <<>>, R, {<<>>})
<1>1. <<>> \in Listed
  BY ListedFacts
<1>2. Len(<<>>) = 0 /\ 1 .. 0 = {} /\ 2 .. 0 = {} /\ <<>> \in Seq(Listed)
  OBVIOUS
<1>3. Written(<<>>) /\ Descent(<<>>, R) /\ LastInside(<<>>, <<>>)
  BY <1>2 DEF Written, Descent, LastInside
<1>4. Candidate(<<>>, <<>>, R, <<>>)
  BY <1>1, <1>2 DEF Candidate
<1>5. Untouched(<<>>, <<>>, R, {<<>>})
  BY <1>2 DEF Untouched
<1>6. <<>> \in Pending(<<>>, R, {<<>>})
  BY <1>1 DEF Pending
<1>7. ToSet(<<>>) = {}
  BY DEF ToSet
<1>8. Covered(<<>>, <<>>, R, {<<>>})
  BY <1>6, <1>7 DEF Covered
<1>. QED
  BY <1>3, <1>4, <1>5, <1>8 DEF Walked

(* A trail to a group that is shown is listed itself *)
LEMMA ExpandedListed ==
  ASSUME file \in Files, max_depth \in Nat, NEW s \in AllTrails, Expanded(s)
  PROVE  s \in Listed
<1> DEFINE L == max_depth + 1
<1>1. L \in Nat
  OBVIOUS
<1>2. Trails[0] = {<<>>} /\ \A n \in 1 .. L : Trails[n] = Longer(Trails[n - 1])
  BY TrailsAre
<1>3. \A n \in 0 .. L : \A t \in Trails[n] : t \in Seq(Links) /\ Len(t) = n
  BY TrailLengths
<1>4. PICK n \in 0 .. L : s \in Trails[n]
  BY DEF AllTrails
<1> HIDE DEF L
<1>5. CASE n = 0
  <2>1. s = <<>>
    BY <1>2, <1>4, <1>5
  <2>. QED
    BY <2>1 DEF Listed
<1>6. CASE n # 0
  <2>1. n \in 1 .. L /\ n - 1 \in 0 .. L
    BY <1>1, <1>6
  <2>2. s \in Longer(Trails[n - 1])
    BY <1>2, <1>4, <2>1
  <2>3. PICK v \in Trails[n - 1] : IsGroup(v) /\ \E l \in ToSet(LinksAt(v)) : s = Append(v, l)
    BY <2>2, LongerIs
  <2>4. PICK l \in ToSet(LinksAt(v)) : s = Append(v, l)
    BY <2>3
  <2>5. v \in Seq(Links) /\ Len(v) = n - 1 /\ l \in Links /\ Len(s) = n
    BY <1>3, <1>4, <2>1, <2>3, GroupLinks
  <2>6. Front(s) = v
    BY <2>4, <2>5, Extends
  <2>7. FewOnTheWay(s) /\ Len(s) <= max_depth
    BY DEF Expanded
  <2>8. FewOnTheWay(v)
    BY <2>4, <2>5, <2>7, FewStep
  <2>9. Len(v) <= max_depth
    BY <1>1, <2>5, <2>7
  <2>10. Expanded(v)
    BY <2>3, <2>8, <2>9 DEF Expanded
  <2>. QED
    BY <2>6, <2>10 DEF Listed
<1>. QED
  BY <1>5, <1>6

(* When nothing is left, everything was written *)
LEMMA WalkComplete ==
  ASSUME file \in Files, max_depth \in Nat, NEW W, NEW R, Walked(W, <<>>, R, {})
  PROVE  Listed \subseteq ToSet(W)
<1> DEFINE L == max_depth + 1
           S == { n \in 0 .. L : \A t \in Listed : Len(t) = n => t \in ToSet(W) }
<1>1. L \in Nat
  OBVIOUS
<1>2. Pending(<<>>, R, {}) = {}
  <2>1. 1 .. Len(<<>>) = {}
    OBVIOUS
  <2>. QED
    BY <2>1 DEF Pending
<1>3. <<>> \in ToSet(W) /\ \A t \in ToSet(W) : Expanded(t) => \A l \in ToSet(LinksAt(t)) : Append(t, l) \in ToSet(W)
  BY <1>2 DEF Walked, Covered
<1>4. /\ \A t \in Listed : t \in Seq(Links) /\ Len(t) \in Nat
      /\ \A t \in Listed : t # <<>> =>
           \E s \in AllTrails : /\ Expanded(s) /\ Len(t) = Len(s) + 1 /\ s \in Seq(Links)
                                /\ \E l \in ToSet(LinksAt(s)) : t = Append(s, l)
  BY ListedFacts
<1>5. \A t \in Listed : Len(t) \in 0 .. L
  BY TrailLengths DEF Listed, AllTrails
<1> HIDE DEF L
<1>6. 0 \in S
  <2>1. ASSUME NEW t \in Listed, Len(t) = 0 PROVE t \in ToSet(W)
    <3>1. t = <<>>
      BY <1>4, <2>1, EmptySeq
    <3>. QED
      BY <1>3, <3>1
  <2>2. 0 \in 0 .. L
    BY <1>1
  <2>. QED
    BY <2>1, <2>2
<1>7. ASSUME NEW n \in 0 .. L - 1, n \in S PROVE n + 1 \in S
  <2>1. n + 1 \in 0 .. L /\ n \in Nat
    BY <1>1
  <2>2. ASSUME NEW t \in Listed, Len(t) = n + 1 PROVE t \in ToSet(W)
    <3>1. t # <<>>
      <4>1. Len(t) # 0
        BY <2>1, <2>2
      <4>. QED
        BY <4>1
    <3>2. PICK s \in AllTrails : /\ Expanded(s) /\ Len(t) = Len(s) + 1 /\ s \in Seq(Links)
                                 /\ \E l \in ToSet(LinksAt(s)) : t = Append(s, l)
      BY <1>4, <3>1
    <3>3. PICK l \in ToSet(LinksAt(s)) : t = Append(s, l)
      BY <3>2
    <3>4. s \in Listed
      BY <3>2, ExpandedListed
    <3>5. Len(s) = n
      <4>1. Len(s) \in Nat /\ Len(s) + 1 = n + 1
        BY <1>4, <2>2, <3>2, <3>4
      <4>. QED
        BY <2>1, <4>1
    <3>6. s \in ToSet(W)
      BY <1>7, <3>4, <3>5
    <3>. QED
      BY <1>3, <3>2, <3>3, <3>6
  <2>. QED
    BY <2>1, <2>2
<1>8. \A n \in S : \A t \in Listed : Len(t) = n => t \in ToSet(W)
  OBVIOUS
<1> HIDE DEF S
<1>9. 0 .. L \subseteq S
  BY <1>1, <1>6, <1>7, Induction
<1>. QED
  BY <1>5, <1>8, <1>9

-----------------------------------------------------------------------------
(* What is written for trails, and that it is the answer *)

Shows(t) == Entry(Path(t), ShownAs(t))
Entries(W) == [i \in 1 .. Len(W) |-> Shows(W[i])]

LEMMA AnswerIs == Answer = { Shows(t) : t \in Listed }
  BY DEF Answer, Shows, Listed, AllTrails, Path

LEMMA EntriesFacts ==
  ASSUME NEW W \in Seq(Listed)
  PROVE  /\ Entries(W) \in Seq(Answer) /\ Len(Entries(W)) = Len(W)
         /\ \A i \in 1 .. Len(W) : Entries(W)[i] = Shows(W[i])
         /\ \A o \in Listed : Entries(Append(W, o)) = Append(Entries(W), Shows(o))
<1> DEFINE n == Len(W)
           q == Entries(W)
<1>1. n \in Nat /\ \A i \in 1 .. n : W[i] \in Listed
  BY Nonempty
<1>2. \A t \in Listed : Shows(t) \in Answer
  BY AnswerIs
<1>3. q = [i \in 1 .. n |-> Shows(W[i])]
  BY DEF Entries
<1> HIDE DEF q, n
<1>4. q \in Seq(Answer) /\ Len(q) = n
  <2>1. q \in [1 .. n -> Answer]
    BY <1>1, <1>2, <1>3
  <2>. QED
    BY <1>1, <2>1
<1>5. \A i \in 1 .. n : q[i] = Shows(W[i])
  BY <1>3
<1>6. ASSUME NEW o \in Listed PROVE Entries(Append(W, o)) = Append(q, Shows(o))
  <2> DEFINE V == Append(W, o)
             r == Entries(V)
             e == Shows(o)
             z == Append(q, e)
  <2>1. V \in Seq(Listed) /\ Len(V) = n + 1 /\ V[n + 1] = o /\ \A i \in 1 .. n : V[i] = W[i]
    BY Extends DEF n
  <2> HIDE DEF V, e
  <2>2. e \in Answer
    BY <1>2 DEF e
  <2>3. z \in Seq(Answer) /\ Len(z) = n + 1 /\ z[n + 1] = e /\ \A i \in 1 .. n : z[i] = q[i]
    BY <1>4, <2>2, Extends
  <2>4. r = [i \in 1 .. n + 1 |-> Shows(V[i])]
    BY <2>1 DEF Entries
  <2>5. \A i \in 1 .. n + 1 : i \in 1 .. n \/ i = n + 1
    BY <1>1
  <2> HIDE DEF z, r
  <2>6. \A i \in 1 .. n + 1 : V[i] \in Listed
    BY <1>1, <2>1, <2>5
  <2>7. r \in Seq(Answer) /\ Len(r) = n + 1
    <3>1. r \in [1 .. n + 1 -> Answer]
      BY <1>2, <2>4, <2>6
    <3>. QED
      BY <1>1, <3>1
  <2>8. ASSUME NEW i \in 1 .. n + 1 PROVE r[i] = z[i]
    <3>1. r[i] = Shows(V[i])
      BY <2>4
    <3>. QED
      BY <1>5, <2>1, <2>3, <2>5, <3>1 DEF e
  <2>9. r = z
    BY <2>3, <2>7, <2>8, SeqEqual
  <2>. QED
    BY <2>9 DEF r, z, V, e
<1>. QED
  BY <1>4, <1>5, <1>6 DEF q, n

LEMMA BeginsIsPrefix ==
  ASSUME NEW T, NEW s \in Seq(T), NEW t \in Seq(T), Begins(s, t)
  PROVE  IsPrefix(s, t)
<1> DEFINE n == Len(s)
           x == SubSeq(s, 1, n)
           y == SubSeq(t, 1, n)
<1>1. n \in Nat /\ Len(t) \in Nat /\ n <= Len(t) /\ \A i \in 1 .. n : t[i] = s[i]
  BY DEF Begins
<1>2. 1 \in 1 .. Len(s) + 1 /\ n \in 1 - 1 .. Len(s) /\ 1 \in 1 .. Len(t) + 1 /\ n \in 1 - 1 .. Len(t)
  BY <1>1
<1>3. x \in Seq(T) /\ Len(x) = n - 1 + 1 /\ \A i \in 1 .. n - 1 + 1 : x[i] = s[1 + i - 1]
  BY <1>2, SubSeqProperties
<1>4. y \in Seq(T) /\ Len(y) = n - 1 + 1 /\ \A i \in 1 .. n - 1 + 1 : y[i] = t[1 + i - 1]
  BY <1>2, SubSeqProperties
<1>5. n - 1 + 1 = n /\ \A i \in 1 .. n : 1 + i - 1 = i
  BY <1>1
<1> HIDE DEF x, y
<1>6. Len(x) = Len(y) /\ \A i \in 1 .. Len(x) : x[i] = y[i]
  BY <1>1, <1>3, <1>4, <1>5
<1>7. x = y
  BY <1>3, <1>4, <1>6, SeqEqual
<1>. QED
  BY <1>1, <1>7 DEF IsPrefix, x, y

LEMMA WrittenShows ==
  ASSUME file \in Files, max_depth \in Nat, NEW W, Written(W), NEW q, q = Entries(W)
  PROVE  /\ ToSet(q) \subseteq Answer
         /\ IsInjective(q)
         /\ \A i \in 2 .. Len(q) : IsPrefix(Front(q[i].path), q[i - 1].path)
         /\ Listed \subseteq ToSet(W) => Answer \subseteq ToSet(q)
<1> DEFINE n == Len(W)
<1>1. /\ W \in Seq(Listed)
      /\ \A i, j \in 1 .. n : W[i] = W[j] => i = j
      /\ \A i \in 2 .. n : W[i] # <<>> /\ Begins(Front(W[i]), W[i - 1])
  BY DEF Written
<1>2. q \in Seq(Answer) /\ Len(q) = n /\ \A i \in 1 .. n : q[i] = Shows(W[i])
  BY <1>1, EntriesFacts
<1>3. n \in Nat /\ \A i \in 1 .. n : W[i] \in Listed /\ W[i] \in Seq(Links)
  BY <1>1, Nonempty, ListedFacts
<1>4. \A t \in ToSet(W) : \E i \in 1 .. n : t = W[i]
  BY <1>1, Nonempty
<1> HIDE DEF n
<1>5. DOMAIN q = 1 .. n
  BY <1>2
<1>6. \A i \in 1 .. n : q[i].path = Path(W[i])
  BY <1>2 DEF Shows, Entry
<1>7. ToSet(q) \subseteq Answer
  BY <1>2 DEF ToSet
<1>8. IsInjective(q)
  <2>1. SUFFICES ASSUME NEW i \in 1 .. n, NEW j \in 1 .. n, q[i] = q[j] PROVE i = j
    BY <1>5 DEF IsInjective
  <2>2. Path(W[i]) = Path(W[j])
    BY <1>6, <2>1
  <2>3. W[i] = W[j]
    BY <1>3, <2>2, PathUnique
  <2>. QED
    BY <1>1, <2>3
<1>9. ASSUME NEW i \in 2 .. n PROVE IsPrefix(Front(q[i].path), q[i - 1].path)
  <2>1. i \in 1 .. n /\ i - 1 \in 1 .. n
    BY <1>3
  <2>2. W[i] \in Seq(Links) /\ W[i - 1] \in Seq(Links) /\ W[i] # <<>> /\ Begins(Front(W[i]), W[i - 1])
    BY <1>1, <1>3, <2>1
  <2> DEFINE t == W[i]
             u == W[i - 1]
  <2> HIDE DEF t, u
  <2>3. t \in Seq(Links) /\ u \in Seq(Links) /\ t # <<>> /\ Begins(Front(t), u)
    BY <2>2 DEF t, u
  <2>4. PICK v \in Seq(Links), l \in Links : t = Append(v, l) /\ Len(t) = Len(v) + 1 /\ Front(t) = v /\ Last(t) = l
    BY <2>3, Splits
  <2>5. Path(t) = Append(Path(v), l.name) /\ Path(v) \in Seq(STRING) /\ Path(u) \in Seq(STRING)
    BY <2>3, <2>4, PathFacts
  <2>6. l.name \in STRING
    BY DEF Links
  <2>7. Front(Path(t)) = Path(v)
    <3>1. Front(Append(Path(v), l.name)) = Path(v)
      BY <2>5, <2>6, Extends
    <3>. QED
      BY <2>5, <3>1
  <2>8. Begins(Path(v), Path(u))
    <3>1. /\ Len(v) \in Nat /\ Len(u) \in Nat /\ Len(v) <= Len(u) /\ \A k \in 1 .. Len(v) : u[k] = v[k]
      BY <2>3, <2>4 DEF Begins
    <3>2. /\ Len(Path(v)) = Len(v) /\ \A k \in 1 .. Len(v) : Path(v)[k] = v[k].name
      BY PathFacts
    <3>3. /\ Len(Path(u)) = Len(u) /\ \A k \in 1 .. Len(u) : Path(u)[k] = u[k].name
      BY <2>3, PathFacts
    <3>4. \A k \in 1 .. Len(v) : k \in 1 .. Len(u)
      BY <3>1
    <3>5. \A k \in 1 .. Len(v) : Path(u)[k] = Path(v)[k]
      BY <3>1, <3>2, <3>3, <3>4
    <3>. QED
      BY <3>1, <3>2, <3>3, <3>5 DEF Begins
  <2>9. IsPrefix(Path(v), Path(u))
    BY <2>5, <2>8, BeginsIsPrefix
  <2>10. q[i].path = Path(t) /\ q[i - 1].path = Path(u)
    BY <1>6, <2>1 DEF t, u
  <2>. QED
    BY <2>7, <2>9, <2>10, Zenon
<1>10. ASSUME Listed \subseteq ToSet(W), NEW a \in Answer PROVE a \in ToSet(q)
  <2>1. PICK t \in Listed : a = Shows(t)
    BY AnswerIs
  <2>2. PICK i \in 1 .. n : t = W[i]
    BY <1>4, <1>10
  <2>3. a = q[i]
    BY <1>2, <2>1, <2>2
  <2>. QED
    BY <1>5, <2>3 DEF ToSet
<1>. QED
  BY <1>2, <1>7, <1>8, <1>9, <1>10

-----------------------------------------------------------------------------
(* The invariant of the walk *)

LEMMA SameWalk ==
  ASSUME file' = file, max_depth' = max_depth, NEW W, NEW A, NEW R, NEW P
  PROVE  (Walked(W, A, R, P)' <=> Walked(W, A, R, P)) /\ Entries(W)' = Entries(W)
<1>1. /\ Listed' = Listed
      /\ \A t : (Expanded(t)' <=> Expanded(t)) /\ LinksAt(t)' = LinksAt(t)
      /\ \A t : ShownAs(t)' = ShownAs(t)
  BY SameTree
<1>2. Written(W)' <=> Written(W)
  BY <1>1 DEF Written
<1>3. Descent(A, R)' <=> Descent(A, R)
  BY <1>1 DEF Descent
<1>4. LastInside(W, A)' <=> LastInside(W, A)
  BY DEF LastInside
<1>5. \A o : Candidate(W, A, R, o)' <=> Candidate(W, A, R, o)
  BY <1>1 DEF Candidate
<1>6. Pending(A, R, P)' = Pending(A, R, P)
  BY <1>1 DEF Pending
<1>7. Untouched(W, A, R, P)' <=> Untouched(W, A, R, P)
  BY <1>6 DEF Untouched
<1>8. Covered(W, A, R, P)' <=> Covered(W, A, R, P)
  BY <1>1, <1>6 DEF Covered
<1>9. Walked(W, A, R, P)' <=> Walked(W, A, R, P)
  BY <1>2, <1>3, <1>4, <1>5, <1>7, <1>8, Zenon DEF Walked
<1>10. Entries(W)' = Entries(W)
  BY <1>1 DEF Entries, Shows
<1>. QED
  BY <1>9, <1>10

LEMMA OneLess ==
  ASSUME NEW T, NEW s \in Seq(T), s # <<>>, IsInjective(s)
  PROVE  /\ Head(s) \in ToSet(s) /\ Head(s) \in T
         /\ Tail(s) \in Seq(T) /\ IsInjective(Tail(s))
         /\ ToSet(Tail(s)) = ToSet(s) \ {Head(s)}
<1> DEFINE n == Len(s)
           t == Tail(s)
<1>1. n \in Nat /\ n > 0 /\ DOMAIN s = 1 .. n
  BY EmptySeq
<1>2. Head(s) = s[1] /\ Head(s) \in T /\ t \in Seq(T) /\ Len(t) = n - 1 /\ \A i \in 1 .. n - 1 : t[i] = s[i + 1]
  BY HeadTailProperties
<1> HIDE DEF t, n
<1>3. DOMAIN t = 1 .. n - 1
  BY <1>2
<1>4. 1 \in 1 .. n /\ \A i \in 1 .. n - 1 : i + 1 \in 1 .. n /\ i + 1 # 1
  BY <1>1
<1>5. \A i, j \in 1 .. n : s[i] = s[j] => i = j
  BY <1>1 DEF IsInjective
<1>6. Head(s) \in ToSet(s)
  BY <1>1, <1>2, <1>4 DEF ToSet
<1>7. IsInjective(t)
  <2>1. SUFFICES ASSUME NEW i \in 1 .. n - 1, NEW j \in 1 .. n - 1, t[i] = t[j] PROVE i = j
    BY <1>3 DEF IsInjective
  <2>2. i + 1 = j + 1
    BY <1>2, <1>4, <1>5, <2>1
  <2>. QED
    BY <2>2
<1>8. ASSUME NEW x \in ToSet(t) PROVE x \in ToSet(s) \ {Head(s)}
  <2>1. PICK i \in 1 .. n - 1 : x = t[i]
    BY <1>3 DEF ToSet
  <2>2. x = s[i + 1] /\ i + 1 \in 1 .. n /\ i + 1 # 1
    BY <1>2, <1>4, <2>1
  <2>3. x # s[1]
    BY <1>4, <1>5, <2>2
  <2>. QED
    BY <1>1, <1>2, <2>2, <2>3 DEF ToSet
<1>9. ASSUME NEW x \in ToSet(s) \ {Head(s)} PROVE x \in ToSet(t)
  <2>1. PICK i \in 1 .. n : x = s[i]
    BY <1>1 DEF ToSet
  <2>2. i # 1
    BY <1>2, <1>9, <2>1
  <2>3. i - 1 \in 1 .. n - 1 /\ (i - 1) + 1 = i
    BY <1>1, <2>2
  <2>4. x = t[i - 1]
    BY <1>2, <2>1, <2>3
  <2>. QED
    BY <1>3, <2>3, <2>4 DEF ToSet
<1>. QED
  BY <1>2, <1>6, <1>7, <1>8, <1>9 DEF t

(* Where the walk is: it opens what opening names, or visits links of the    *)
(* last group, or reads a dataset                                            *)
PlaceInv ==
  /\ file = NoFile \/ (file \in Files /\ max_depth \in Nat)
  /\ pc # "end" => result = "none"
  /\ file # NoFile =>
       /\ pc = "open" \/ result = "failed" \/ opening = <<>>
       /\ pc = "open" => opening # <<>>
       /\ pc = "links" => stack # <<>>
       /\ result = "walked" => stack = <<>> /\ opening = <<>>

LEMMA NextPlaces ==
  ASSUME Next
  PROVE  /\ pc \notin {"open", "links", "end"} /\ pc' \notin {"open", "links"}
         /\ pc' = "end" \/ result' = result
         /\ result' = result \/ result' # "walked"
<1>1. CASE PackDataset
  <2>1. pc = "object" /\ (End("refused") \/ End("no_data") \/ (pc' = "begin" /\ UNCHANGED result))
    BY <1>1 DEF PackDataset
  <2>. QED
    BY <2>1 DEF End
<1>2. CASE DivideByZero
  BY <1>2 DEF DivideByZero, End
<1>3. CASE Refuse
  BY <1>3 DEF Refuse, End
<1>4. CASE Start
  BY <1>4 DEF Start
<1>5. CASE SelectNext
  <2>1. pc = "next" /\ (End("ok") \/ (pc' \in {"read", "select"} /\ UNCHANGED result))
    BY <1>5 DEF SelectNext
  <2>. QED
    BY <2>1 DEF End
<1>6. CASE SelectSlice
  BY <1>6 DEF SelectSlice
<1>7. CASE Selected
  BY <1>7 DEF Selected
<1>8. CASE Read
  <2>1. pc = "read" /\ (End("failed") \/ (pc' = "body" /\ UNCHANGED result))
    BY <1>8 DEF Read
  <2>. QED
    BY <2>1 DEF End
<1>9. CASE PackBin
  BY <1>9 DEF PackBin
<1>10. CASE PackElement
  BY <1>10 DEF PackElement
<1>11. CASE PackNested
  BY <1>11 DEF PackNested, End
<1>12. CASE Packed
  BY <1>12 DEF Packed
<1>13. CASE Fail
  BY <1>13 DEF Fail, End
<1>. QED
  BY <1>1, <1>2, <1>3, <1>4, <1>5, <1>6, <1>7, <1>8, <1>9, <1>10, <1>11, <1>12, <1>13 DEF Next

LEMMA PlaceInvInit == WalkInit => PlaceInv
<1> SUFFICES ASSUME WalkInit PROVE PlaceInv
  OBVIOUS
<1>1. stack = <<>> /\ result = "none"
  BY DEF WalkInit, Init, Fresh
<1>2. CASE pc = "begin" /\ file = NoFile
  BY <1>1, <1>2 DEF PlaceInv
<1>3. CASE pc = "open" /\ file \in Files /\ max_depth \in MaxDepths /\ opening = <<Entry(<<>>, "root")>>
  BY <1>1, <1>3, ObjectConstants DEF PlaceInv
<1>. QED
  BY <1>2, <1>3 DEF WalkInit

LEMMA VisitLinkIs ==
  ASSUME VisitLink
  PROVE  LET link == Head(Top.links)
             path == Append(Top.path, link.name)
             encode == EncodeMembers(Len(Top.path), Top.nr_links)
         IN /\ pc = "links" /\ Top.links # <<>> /\ result' = result
            /\ stack' = [stack EXCEPT ![Len(stack)].links = Tail(@)]
            /\ \/ /\ ~encode
                  /\ packed' = Append(packed, Entry(path, "nil")) /\ pc' = "links" /\ opening' = opening
               \/ /\ encode /\ link.type \in {"hard", "external"}
                  /\ opening' = <<Entry(path, link.to)>> /\ pc' = "open" /\ packed' = packed
               \/ /\ encode /\ link.type \notin {"hard", "external"}
                  /\ packed' = Append(packed, Entry(path, PackedLink(link))) /\ pc' = "links" /\ opening' = opening
  BY Zenon DEF VisitLink, Show

(* The groups on the way, as visit_link keeps them *)
Frames == [path : Seq(STRING), nr_links : Nat, links : Seq(Links)]

LEMMA PlaceInvStep ==
  ASSUME PlaceInv, file # NoFile => stack \in Seq(Frames), [WalkNext]_allvars
  PROVE  PlaceInv'
<1>1. file' = file /\ max_depth' = max_depth
  BY DEF WalkNext, Walk, walk, allvars, OpenFails, WalkFails, OpenTooDeep, OpenGroup, OpenDataset, OpenUnknown,
         VisitLink, GroupPacked, DatasetPacked
<1>2. CASE UNCHANGED allvars
  BY <1>2 DEF allvars, vars, walk, PlaceInv
<1>3. CASE Next /\ UNCHANGED walk
  BY <1>3, NextPlaces DEF PlaceInv, walk
<1>4. CASE OpenFails \/ WalkFails
  <2>1. pc' = "end" /\ result' = "failed"
    BY <1>4 DEF OpenFails, WalkFails, End
  <2>. QED
    BY <1>1, <2>1 DEF PlaceInv
<1>5. CASE OpenTooDeep \/ OpenUnknown
  <2>1. pc = "open" /\ opening' = <<>> /\ Continue /\ stack' = stack
    BY <1>5 DEF OpenTooDeep, OpenUnknown, Opened
  <2>. QED
    BY <1>1, <2>1 DEF PlaceInv, Continue, End
<1>6. CASE OpenGroup
  <2>1. pc = "open" /\ pc' = "links" /\ opening' = <<>> /\ result' = result
    BY <1>6 DEF OpenGroup, Opened
  <2>2. stack' # <<>>
    BY <1>6 DEF OpenGroup
  <2>. QED
    BY <1>1, <2>1, <2>2 DEF PlaceInv
<1>7. CASE OpenDataset
  BY <1>1, <1>7 DEF OpenDataset, Opened, PlaceInv
<1>8. CASE VisitLink
  <2>1. pc = "links" /\ result' = result /\ (file # NoFile => opening = <<>> /\ stack # <<>>)
    BY <1>8 DEF VisitLink, PlaceInv
  <2>2. stack # <<>> => stack' # <<>>
    BY <1>8 DEF VisitLink
  <2>3. (pc' = "links" /\ opening' = opening) \/ (pc' = "open" /\ opening' # <<>>)
    <3> DEFINE e == Entry(Append(Top.path, Head(Top.links).name), Head(Top.links).to)
    <3>1. (pc' = "links" /\ opening' = opening) \/ (pc' = "open" /\ opening' = <<e>>)
      BY <1>8, VisitLinkIs
    <3> HIDE DEF e
    <3>2. <<e>> # <<>>
      OBVIOUS
    <3>. QED
      BY <3>1, <3>2
  <2>. QED
    BY <1>1, <2>1, <2>2, <2>3 DEF PlaceInv
<1>9. CASE GroupPacked
  <2>1. pc = "links" /\ opening' = opening /\ (file # NoFile => opening = <<>> /\ stack # <<>>)
    BY <1>9 DEF GroupPacked, PlaceInv
  <2>2. /\ stack' = Front(stack) /\ (Len(stack) = 1 => pc' = "end" /\ result' = "walked")
        /\ Len(stack) # 1 => pc' = pc /\ result' = result
    BY <1>9 DEF GroupPacked, End
  <2>3. ASSUME file # NoFile PROVE Len(stack') \in Nat /\ (Len(stack) = 1 <=> Len(stack') = 0) /\ (stack' = <<>> <=> Len(stack') = 0)
    <3>1. PICK s \in Seq(Frames), e \in Frames : stack = Append(s, e) /\ Len(stack) = Len(s) + 1 /\ Front(stack) = s /\ Last(stack) = e
      BY <2>1, <2>3, Splits
    <3>2. Len(s) \in Nat /\ (s = <<>> <=> Len(s) = 0)
      BY EmptySeq
    <3>. QED
      BY <2>2, <3>1, <3>2
  <2>. QED
    BY <1>1, <2>1, <2>2, <2>3 DEF PlaceInv
<1>10. CASE DatasetPacked
  BY <1>1, <1>10 DEF DatasetPacked, PlaceInv, walk
<1>. QED
  BY <1>2, <1>3, <1>4, <1>5, <1>6, <1>7, <1>8, <1>9, <1>10 DEF WalkNext, Walk

(* The variables of the walk in terms of trails *)
Represents(W, A, R, O) ==
  /\ packed = Entries(W)
  /\ stack \in Seq(Frames) /\ Len(stack) = Len(A)
  /\ \A i \in 1 .. Len(A) :
       /\ stack[i].path = Path(A[i]) /\ stack[i].nr_links = Len(LinksAt(A[i]))
       /\ IsInjective(stack[i].links) /\ R[i] = ToSet(stack[i].links)
  /\ opening = <<>> => Walked(W, A, R, {})
  /\ opening # <<>> => /\ Walked(W, A, R, {O}) /\ opening = <<Entry(Path(O), At(O))>>
                       /\ Visible(O) /\ Followed(O)

(* The inductive invariant *)
TreeInv == PlaceInv /\ (file # NoFile => \E W, A, R, O : Represents(W, A, R, O))

LEMMA RepresentsNext ==
  ASSUME file' = file, max_depth' = max_depth, NEW W, NEW A, NEW R, NEW O,
         packed' = Entries(W),
         stack' \in Seq(Frames), Len(stack') = Len(A),
         \A i \in 1 .. Len(A) :
           /\ stack'[i].path = Path(A[i]) /\ stack'[i].nr_links = Len(LinksAt(A[i]))
           /\ IsInjective(stack'[i].links) /\ R[i] = ToSet(stack'[i].links),
         opening' = <<>> => Walked(W, A, R, {}),
         opening' # <<>> => /\ Walked(W, A, R, {O}) /\ opening' = <<Entry(Path(O), At(O))>>
                            /\ Visible(O) /\ Followed(O)
  PROVE  Represents(W, A, R, O)'
<1>1. /\ \A t : LinksAt(t)' = LinksAt(t)
      /\ Visible(O)' <=> Visible(O)
  BY SameTree
<1>2. /\ Walked(W, A, R, {})' <=> Walked(W, A, R, {})
      /\ Walked(W, A, R, {O})' <=> Walked(W, A, R, {O})
      /\ Entries(W)' = Entries(W)
  BY SameWalk
<1>3. \A i \in 1 .. Len(A) : Len(LinksAt(A[i]))' = Len(LinksAt(A[i]))
  BY <1>1
<1>. QED
  BY <1>1, <1>2, <1>3 DEF Represents

LEMMA CandidateLength ==
  ASSUME file \in Files, max_depth \in Nat, NEW W, NEW A, NEW R, NEW o, Walked(W, A, R, {o})
  PROVE  Len(o) = Len(A)
<1> DEFINE d == Len(A)
<1>1. d \in Nat /\ \A i \in 1 .. d : A[i] \in Seq(Links) /\ Len(A[i]) = i - 1
  BY WalkTypes DEF Walked
<1>2. (d = 0 => o = <<>>) /\ (d > 0 => \E l \in Links : o = Append(A[d], l))
  BY DEF Walked, Candidate
<1> HIDE DEF d
<1>3. CASE d = 0
  <2>1. Len(<<>>) = 0
    OBVIOUS
  <2>. QED
    BY <1>2, <1>3, <2>1 DEF d
<1>4. CASE d # 0
  <2>1. d > 0 /\ d \in 1 .. d
    BY <1>1, <1>4
  <2>2. PICK l \in Links : o = Append(A[d], l)
    BY <1>2, <2>1
  <2>3. A[d] \in Seq(Links) /\ Len(A[d]) = d - 1
    BY <1>1, <2>1
  <2>4. Len(o) = (d - 1) + 1
    BY <2>2, <2>3, Extends
  <2>5. Len(o) = d
    BY <1>1, <2>4
  <2>. QED
    BY <2>5 DEF d
<1>. QED
  BY <1>3, <1>4

(* What is opened *)
LEMMA OpenFacts ==
  ASSUME PlaceInv, file # NoFile, pc = "open", NEW W, NEW A, NEW R, NEW O, Represents(W, A, R, O)
  PROVE  /\ file \in Files /\ max_depth \in Nat
         /\ Walked(W, A, R, {O}) /\ Visible(O) /\ Followed(O)
         /\ O \in Listed /\ O \in Seq(Links) /\ Len(O) = Len(A) /\ W \in Seq(Listed)
         /\ opening[1].path = Path(O) /\ Target = At(O) /\ Depth = Len(O)
<1>1. file \in Files /\ max_depth \in Nat /\ opening # <<>>
  BY DEF PlaceInv
<1>2. Walked(W, A, R, {O}) /\ opening = <<Entry(Path(O), At(O))>> /\ Visible(O) /\ Followed(O)
  BY <1>1 DEF Represents
<1>3. O \in Listed /\ O \in Seq(Links) /\ Len(O) = Len(A) /\ W \in Seq(Listed)
  <2>1. O \in Listed /\ W \in Seq(Listed)
    BY <1>2 DEF Walked, Candidate, Written
  <2>2. O \in Seq(Links)
    BY <1>1, <2>1, ListedFacts
  <2>3. Len(O) = Len(A)
    BY <1>1, <1>2, CandidateLength
  <2>. QED
    BY <2>1, <2>2, <2>3
<1>4. opening[1] = Entry(Path(O), At(O))
  BY <1>2
<1>5. opening[1].path = Path(O) /\ opening[1].as = At(O)
  BY <1>4 DEF Entry
<1>6. Len(Path(O)) = Len(O)
  BY <1>3, PathFacts
<1>. QED
  BY <1>1, <1>2, <1>3, <1>5, <1>6 DEF Target, Depth

(* An object is written that is not a group, or a group that is too deep *)
LEMMA OpensLeaf ==
  ASSUME PlaceInv, file # NoFile, pc = "open", NEW W, NEW A, NEW R, NEW O, Represents(W, A, R, O),
         opening' = <<>>, packed' = Append(packed, Entry(opening[1].path, ShownAs(O))), ~Expanded(O),
         file' = file, max_depth' = max_depth, stack' = stack
  PROVE  Represents(Append(W, O), A, R, O)'
<1>1. /\ file \in Files /\ max_depth \in Nat
      /\ Walked(W, A, R, {O}) /\ O \in Listed /\ W \in Seq(Listed) /\ opening[1].path = Path(O)
  BY OpenFacts
<1>2. Walked(Append(W, O), A, R, {})
  BY <1>1, LeafStep
<1>3. Entries(Append(W, O)) = Append(Entries(W), Shows(O))
  BY <1>1, EntriesFacts
<1>4. packed = Entries(W)
  BY DEF Represents
<1>5. packed' = Entries(Append(W, O))
  BY <1>1, <1>3, <1>4, Zenon DEF Shows
<1>6. /\ stack \in Seq(Frames) /\ Len(stack) = Len(A)
      /\ \A i \in 1 .. Len(A) :
           /\ stack[i].path = Path(A[i]) /\ stack[i].nr_links = Len(LinksAt(A[i]))
           /\ IsInjective(stack[i].links) /\ R[i] = ToSet(stack[i].links)
  BY DEF Represents
<1> DEFINE V == Append(W, O)
<1>7. Walked(V, A, R, {}) /\ packed' = Entries(V)
  BY <1>2, <1>5
<1> HIDE DEF V
<1>8. Represents(V, A, R, O)'
  BY <1>6, <1>7, RepresentsNext
<1>. QED
  BY <1>8 DEF V

(* A group is written and gone into *)
LEMMA OpensGroup ==
  ASSUME PlaceInv, file # NoFile, NEW W, NEW A, NEW R, NEW O, Represents(W, A, R, O), OpenGroup
  PROVE  \E V, B, S, P : Represents(V, B, S, P)'
<1>0. /\ pc = "open" /\ Target \in DOMAIN file /\ file[Target].type = "group" /\ Depth <= max_depth
      /\ packed' = Append(packed, Entry(opening[1].path, "group")) /\ opening' = <<>>
      /\ stack' = Append(stack, [path |-> opening[1].path, nr_links |-> Len(file[Target].links),
                                 links |-> file[Target].links])
      /\ file' = file /\ max_depth' = max_depth
  BY DEF OpenGroup, Show, Opened
<1>1. /\ file \in Files /\ max_depth \in Nat
      /\ Walked(W, A, R, {O}) /\ O \in Listed /\ W \in Seq(Listed) /\ O \in Seq(Links)
      /\ Visible(O) /\ Followed(O)
      /\ opening[1].path = Path(O) /\ Target = At(O) /\ Depth = Len(O)
  BY <1>0, OpenFacts
<1>2. Shown(O) /\ IsGroup(O)
  BY <1>0, <1>1 DEF Shown, IsGroup
<1>3. Expanded(O)
  BY <1>0, <1>1, <1>2 DEF Expanded, Visible
<1>4. ShownAs(O) = "group"
  <2>1. ~(Len(O) > (IF max_depth = 0 THEN 1 ELSE max_depth)) /\ FewOnTheWay(O)
    <3>1. Len(O) \in Nat
      BY <1>1
    <3>. QED
      BY <1>1, <3>1 DEF Visible
  <2>. QED
    BY <1>0, <1>1, <1>2, <2>1 DEF ShownAs
<1>5. /\ LinksAt(O) \in Seq(Links) /\ Len(LinksAt(O)) \in Nat /\ IsInjective(LinksAt(O))
  BY <1>1, <1>2, GroupLinks
<1>6. file[Target].links = LinksAt(O)
  BY <1>1 DEF LinksAt
<1> DEFINE n == Len(A)
           V == Append(W, O)
           B == Append(A, O)
           f == [path |-> Path(O), nr_links |-> Len(LinksAt(O)), links |-> LinksAt(O)]
<1>7. stack' = Append(stack, f)
  BY <1>0, <1>1, <1>6
<1>8. /\ A \in Seq(Listed) /\ n \in Nat
  BY <1>1, Nonempty DEF Walked, Descent
<1>9. /\ stack \in Seq(Frames) /\ Len(stack) = n /\ packed = Entries(W)
      /\ \A i \in 1 .. n :
           /\ stack[i].path = Path(A[i]) /\ stack[i].nr_links = Len(LinksAt(A[i]))
           /\ IsInjective(stack[i].links) /\ R[i] = ToSet(stack[i].links)
  BY DEF Represents
<1>10. PICK S : (\A i \in 1 .. n : S[i] = R[i]) /\ S[n + 1] = ToSet(LinksAt(O))
  <2> DEFINE F == [i \in 1 .. n + 1 |-> IF i = n + 1 THEN ToSet(LinksAt(O)) ELSE R[i]]
  <2>1. (\A i \in 1 .. n : F[i] = R[i]) /\ F[n + 1] = ToSet(LinksAt(O))
    BY <1>8
  <2>. QED
    BY <2>1
<1>11. Walked(V, B, S, {})
  BY <1>1, <1>3, <1>10, DescendStep
<1>12. packed' = Entries(V)
  <2>1. Entries(V) = Append(Entries(W), Shows(O))
    BY <1>1, EntriesFacts
  <2>. QED
    BY <1>0, <1>1, <1>4, <1>9, <2>1, Zenon DEF Shows
<1>13. B \in Seq(Listed) /\ Len(B) = n + 1 /\ B[n + 1] = O /\ \A i \in 1 .. n : B[i] = A[i]
  BY <1>1, <1>8, Extends
<1>14. Path(O) \in Seq(STRING)
  BY <1>1, PathFacts
<1>15. f \in Frames /\ f.path = Path(O) /\ f.nr_links = Len(LinksAt(O)) /\ f.links = LinksAt(O)
  BY <1>5, <1>14 DEF Frames
<1> HIDE DEF f, V, B, n
<1>16. stack' \in Seq(Frames) /\ Len(stack') = n + 1 /\ stack'[n + 1] = f /\ \A i \in 1 .. n : stack'[i] = stack[i]
  BY <1>7, <1>9, <1>15, Extends
<1>17. ASSUME NEW i \in 1 .. n + 1
       PROVE  /\ stack'[i].path = Path(B[i]) /\ stack'[i].nr_links = Len(LinksAt(B[i]))
              /\ IsInjective(stack'[i].links) /\ S[i] = ToSet(stack'[i].links)
  <2>1. CASE i = n + 1
    BY <1>5, <1>10, <1>13, <1>15, <1>16, <2>1
  <2>2. CASE i # n + 1
    <3>1. i \in 1 .. n
      BY <1>8, <2>2
    <3>2. stack'[i] = stack[i] /\ B[i] = A[i] /\ S[i] = R[i]
      BY <1>10, <1>13, <1>16, <3>1
    <3>3. /\ stack[i].path = Path(A[i]) /\ stack[i].nr_links = Len(LinksAt(A[i]))
          /\ IsInjective(stack[i].links) /\ R[i] = ToSet(stack[i].links)
      BY <1>9, <3>1
    <3>. QED
      BY <3>2, <3>3, Zenon
  <2>. QED
    BY <2>1, <2>2
<1>18. Represents(V, B, S, O)'
  <2>1. Len(stack') = Len(B)
    BY <1>13, <1>16
  <2>2. \A i \in 1 .. Len(B) :
          /\ stack'[i].path = Path(B[i]) /\ stack'[i].nr_links = Len(LinksAt(B[i]))
          /\ IsInjective(stack'[i].links) /\ S[i] = ToSet(stack'[i].links)
    BY <1>13, <1>17
  <2>3. (opening' = <<>> => Walked(V, B, S, {})) /\ ~(opening' # <<>>)
    BY <1>0, <1>11
  <2>4. stack' \in Seq(Frames)
    BY <1>16
  <2>. QED
    BY <1>0, <1>12, <2>1, <2>2, <2>3, <2>4, RepresentsNext
<1>. QED
  BY <1>18

LEMMA LinkTaken ==
  ASSUME NEW s \in Seq(Frames), Len(s) > 0, s[Len(s)].links # <<>>, IsInjective(s[Len(s)].links)
  PROVE  LET n == Len(s)
             u == [s EXCEPT ![n].links = Tail(@)]
         IN /\ u \in Seq(Frames) /\ Len(u) = n
            /\ \A i \in 1 .. n - 1 : u[i] = s[i]
            /\ u[n].path = s[n].path /\ u[n].nr_links = s[n].nr_links /\ IsInjective(u[n].links)
            /\ ToSet(u[n].links) = ToSet(s[n].links) \ {Head(s[n].links)}
            /\ Head(s[n].links) \in ToSet(s[n].links) /\ Head(s[n].links) \in Links
<1> DEFINE n == Len(s)
           u == [s EXCEPT ![n].links = Tail(@)]
<1>1. n \in Nat /\ n \in 1 .. n /\ DOMAIN s = 1 .. n /\ \A i \in 1 .. n : s[i] \in Frames
  OBVIOUS
<1>2. /\ s[n].path \in Seq(STRING) /\ s[n].nr_links \in Nat /\ s[n].links \in Seq(Links)
      /\ DOMAIN s[n] = {"path", "nr_links", "links"}
  BY <1>1 DEF Frames
<1> DEFINE q == s[n].links
           f == [s[n] EXCEPT !.links = Tail(q)]
<1>3. /\ Head(q) \in ToSet(q) /\ Head(q) \in Links
      /\ Tail(q) \in Seq(Links) /\ IsInjective(Tail(q))
      /\ ToSet(Tail(q)) = ToSet(q) \ {Head(q)}
  BY <1>2, OneLess
<1>4. f.path = s[n].path /\ f.nr_links = s[n].nr_links /\ f.links = Tail(q) /\ f \in Frames
  <2>1. s[n] \in Frames /\ Tail(q) \in Seq(Links)
    BY <1>1, <1>3
  <2> HIDE DEF q
  <2>. QED
    BY <2>1 DEF Frames
<1>5. u = [s EXCEPT ![n] = f]
  OBVIOUS
<1> HIDE DEF f, u, n
<1>6. u \in Seq(Frames) /\ Len(u) = n /\ u[n] = f /\ \A i \in 1 .. n - 1 : u[i] = s[i]
  <2>1. u = [i \in 1 .. n |-> IF i = n THEN f ELSE s[i]]
    BY <1>1, <1>5
  <2>2. u \in [1 .. n -> Frames]
    BY <1>1, <1>4, <2>1
  <2>3. u \in Seq(Frames) /\ Len(u) = n
    BY <1>1, <2>2
  <2>4. \A i \in 1 .. n - 1 : i \in 1 .. n /\ i # n
    BY <1>1
  <2>. QED
    BY <1>1, <2>1, <2>3, <2>4
<1>. QED
  BY <1>2, <1>3, <1>4, <1>6 DEF q, u, n

(* What is shown for a link: visit_link *)
LEMMA LinkShown ==
  ASSUME max_depth \in Nat, NEW t \in Seq(Links), NEW l \in Links, NEW o, o = Append(t, l)
  PROVE  /\ ~Visible(o) => ShownAs(o) = "nil" /\ ~Expanded(o)
         /\ l.type \in {"hard", "external"} => Followed(o) /\ At(o) = l.to
         /\ Visible(o) /\ l.type \notin {"hard", "external"} => ShownAs(o) = PackedLink(l) /\ ~Expanded(o)
<1>1. o \in Seq(Links) /\ o # <<>> /\ Last(o) = l /\ Len(o) \in Nat
  BY Extends
<1>2. Followed(o) <=> l.type \in {"hard", "external"}
  BY <1>1 DEF Followed
<1>3. At(o) = l.to
  BY <1>1 DEF At
<1>4. Visible(o) <=> ~(Len(o) > (IF max_depth = 0 THEN 1 ELSE max_depth) \/ ~FewOnTheWay(o))
  BY <1>1 DEF Visible
<1>5. ~Visible(o) => ShownAs(o) = "nil"
  BY <1>4 DEF ShownAs
<1>6. ~Visible(o) => ~Expanded(o)
  BY <1>1, <1>4 DEF Expanded
<1>7. Visible(o) /\ l.type \notin {"hard", "external"} => ShownAs(o) = PackedLink(l)
  BY <1>1, <1>2, <1>4 DEF ShownAs, PackedLink
<1>8. l.type \notin {"hard", "external"} => ~Expanded(o)
  BY <1>2 DEF Expanded, IsGroup, Shown
<1>. QED
  BY <1>2, <1>3, <1>5, <1>6, <1>7, <1>8

LEMMA VisitsLink ==
  ASSUME PlaceInv, file # NoFile, NEW W, NEW A, NEW R, NEW O, Represents(W, A, R, O), VisitLink
  PROVE  \E V, B, S, P : Represents(V, B, S, P)'
<1>0. file' = file /\ max_depth' = max_depth
  BY DEF VisitLink
<1>1. /\ file \in Files /\ max_depth \in Nat /\ opening = <<>> /\ stack # <<>>
  BY DEF PlaceInv, VisitLink
<1>2. /\ stack \in Seq(Frames) /\ Len(stack) = Len(A) /\ packed = Entries(W) /\ Walked(W, A, R, {})
      /\ \A i \in 1 .. Len(A) :
           /\ stack[i].path = Path(A[i]) /\ stack[i].nr_links = Len(LinksAt(A[i]))
           /\ IsInjective(stack[i].links) /\ R[i] = ToSet(stack[i].links)
  BY <1>1 DEF Represents
<1> DEFINE n == Len(A)
<1>3. n \in Nat /\ n > 0 /\ n \in 1 .. n /\ Len(stack) = n
  <2>1. Len(stack) # 0
    BY <1>1, <1>2, EmptySeq
  <2>. QED
    BY <1>2, <2>1
<1> HIDE DEF n
<1>4. PICK l : l = Head(stack[n].links)
  OBVIOUS
<1>5. Top = stack[n]
  BY <1>3 DEF Top
<1>6. LET path == Append(stack[n].path, l.name)
          encode == EncodeMembers(Len(stack[n].path), stack[n].nr_links)
      IN /\ stack[n].links # <<>>
         /\ stack' = [stack EXCEPT ![n].links = Tail(@)]
         /\ \/ /\ ~encode
               /\ packed' = Append(packed, Entry(path, "nil")) /\ opening' = opening
            \/ /\ encode /\ l.type \in {"hard", "external"}
               /\ opening' = <<Entry(path, l.to)>> /\ packed' = packed
            \/ /\ encode /\ l.type \notin {"hard", "external"}
               /\ packed' = Append(packed, Entry(path, PackedLink(l))) /\ opening' = opening
  <2>1. LET link == Head(Top.links)
            path == Append(Top.path, link.name)
            encode == EncodeMembers(Len(Top.path), Top.nr_links)
        IN /\ pc = "links" /\ Top.links # <<>> /\ result' = result
           /\ stack' = [stack EXCEPT ![Len(stack)].links = Tail(@)]
           /\ \/ /\ ~encode
                 /\ packed' = Append(packed, Entry(path, "nil")) /\ pc' = "links" /\ opening' = opening
              \/ /\ encode /\ link.type \in {"hard", "external"}
                 /\ opening' = <<Entry(path, link.to)>> /\ pc' = "open" /\ packed' = packed
              \/ /\ encode /\ link.type \notin {"hard", "external"}
                 /\ packed' = Append(packed, Entry(path, PackedLink(link))) /\ pc' = "links" /\ opening' = opening
    BY VisitLinkIs, Zenon
  <2>2. Head(Top.links) = l
    BY <1>4, <1>5, Zenon
  <2>3. Len(stack) = n
    BY <1>3
  <2>. QED
    BY <1>5, <2>1, <2>2, <2>3, Zenon
<1>7. IsInjective(stack[n].links) /\ stack[n].path = Path(A[n]) /\ stack[n].nr_links = Len(LinksAt(A[n])) /\ R[n] = ToSet(stack[n].links)
  BY <1>2, <1>3 DEF n
<1>8. /\ stack' \in Seq(Frames) /\ Len(stack') = n
      /\ \A i \in 1 .. n - 1 : stack'[i] = stack[i]
      /\ stack'[n].path = stack[n].path /\ stack'[n].nr_links = stack[n].nr_links /\ IsInjective(stack'[n].links)
      /\ ToSet(stack'[n].links) = ToSet(stack[n].links) \ {l}
      /\ l \in ToSet(stack[n].links) /\ l \in Links
  <2>1. PICK s : s = stack
    OBVIOUS
  <2>2. PICK u : u = stack'
    OBVIOUS
  <2>3. /\ s \in Seq(Frames) /\ n = Len(s) /\ n > 0 /\ s[n].links # <<>> /\ IsInjective(s[n].links)
        /\ u = [s EXCEPT ![n].links = Tail(@)] /\ l = Head(s[n].links)
    <3>1. s \in Seq(Frames) /\ n = Len(s) /\ n > 0 /\ IsInjective(s[n].links) /\ l = Head(s[n].links)
      BY <1>2, <1>3, <1>4, <1>7, <2>1
    <3>2. stack[n].links # <<>> /\ stack' = [stack EXCEPT ![n].links = Tail(@)]
      BY <1>6, Zenon
    <3>3. s[n].links # <<>> /\ u = [s EXCEPT ![n].links = Tail(@)]
      BY <2>1, <2>2, <3>2, Zenon
    <3>. QED
      BY <3>1, <3>3, Zenon
  <2>4. /\ u \in Seq(Frames) /\ Len(u) = n
        /\ \A i \in 1 .. n - 1 : u[i] = s[i]
        /\ u[n].path = s[n].path /\ u[n].nr_links = s[n].nr_links /\ IsInjective(u[n].links)
        /\ ToSet(u[n].links) = ToSet(s[n].links) \ {Head(s[n].links)}
        /\ Head(s[n].links) \in ToSet(s[n].links) /\ Head(s[n].links) \in Links
    <3>1. LET m == Len(s)
              v == [s EXCEPT ![m].links = Tail(@)]
          IN /\ v \in Seq(Frames) /\ Len(v) = m
             /\ \A i \in 1 .. m - 1 : v[i] = s[i]
             /\ v[m].path = s[m].path /\ v[m].nr_links = s[m].nr_links /\ IsInjective(v[m].links)
             /\ ToSet(v[m].links) = ToSet(s[m].links) \ {Head(s[m].links)}
             /\ Head(s[m].links) \in ToSet(s[m].links) /\ Head(s[m].links) \in Links
      <4>1. s \in Seq(Frames) /\ Len(s) > 0 /\ s[Len(s)].links # <<>> /\ IsInjective(s[Len(s)].links)
        BY <2>3, Zenon
      <4>. QED
        BY <4>1, LinkTaken
    <3>. QED
      BY <2>3, <3>1, Zenon
  <2>. QED
    BY <2>1, <2>2, <2>3, <2>4, Zenon
<1>9. /\ A[n] \in Seq(Links) /\ Expanded(A[n])
  BY <1>1, <1>2, <1>3, WalkTypes DEF Walked, n
<1>10. PICK S : (\A i \in 1 .. n - 1 : S[i] = R[i]) /\ S[n] = R[n] \ {l}
  <2> DEFINE F == [i \in 1 .. n |-> IF i = n THEN R[n] \ {l} ELSE R[i]]
  <2>1. \A i \in 1 .. n - 1 : i \in 1 .. n /\ i # n
    BY <1>3
  <2>2. (\A i \in 1 .. n - 1 : F[i] = R[i]) /\ F[n] = R[n] \ {l}
    BY <1>3, <2>1
  <2>. QED
    BY <2>2
<1>11. PICK o : o = Append(A[n], l)
  OBVIOUS
<1>12. Walked(W, A, S, {o})
  <2>1. l \in R[n]
    BY <1>7, <1>8
  <2>2. Walked(W, A, S, {Append(A[n], l)})
    BY <1>1, <1>2, <1>3, <1>10, <2>1, TakeStep DEF n
  <2>. QED
    BY <1>11, <2>2, Zenon
<1>13. Append(stack[n].path, l.name) = Path(o)
  <2>1. Path(Append(A[n], l)) = Append(Path(A[n]), l.name)
    BY <1>8, <1>9, PathFacts
  <2>. QED
    BY <1>7, <1>11, <2>1, Zenon
<1>14. EncodeMembers(Len(stack[n].path), stack[n].nr_links) <=> Visible(o)
  <2>1. EncodeMembers(Len(A[n]), Len(LinksAt(A[n]))) <=> Visible(Append(A[n], l))
    BY <1>1, <1>8, <1>9, EncodeIs
  <2>2. Len(Path(A[n])) = Len(A[n])
    BY <1>9, PathFacts
  <2>. QED
    BY <1>7, <1>11, <2>1, <2>2, Zenon
<1>15. ASSUME NEW i \in 1 .. Len(A)
       PROVE  /\ stack'[i].path = Path(A[i]) /\ stack'[i].nr_links = Len(LinksAt(A[i]))
              /\ IsInjective(stack'[i].links) /\ S[i] = ToSet(stack'[i].links)
  <2>1. CASE i = n
    BY <1>7, <1>8, <1>10, <2>1
  <2>2. CASE i # n
    <3>1. i \in 1 .. n - 1
      BY <1>3, <2>2 DEF n
    <3>2. stack'[i] = stack[i] /\ S[i] = R[i]
      BY <1>8, <1>10, <3>1
    <3>. QED
      BY <1>2, <3>2
  <2>. QED
    BY <2>1, <2>2
<1>16. Len(stack') = Len(A) /\ stack' \in Seq(Frames)
  BY <1>8 DEF n
<1>17. /\ ~Visible(o) => ShownAs(o) = "nil" /\ ~Expanded(o)
       /\ l.type \in {"hard", "external"} => Followed(o) /\ At(o) = l.to
       /\ Visible(o) /\ l.type \notin {"hard", "external"} => ShownAs(o) = PackedLink(l) /\ ~Expanded(o)
  <2>1. /\ ~Visible(Append(A[n], l)) => ShownAs(Append(A[n], l)) = "nil" /\ ~Expanded(Append(A[n], l))
        /\ l.type \in {"hard", "external"} => Followed(Append(A[n], l)) /\ At(Append(A[n], l)) = l.to
        /\ Visible(Append(A[n], l)) /\ l.type \notin {"hard", "external"} =>
             ShownAs(Append(A[n], l)) = PackedLink(l) /\ ~Expanded(Append(A[n], l))
    BY <1>1, <1>8, <1>9, LinkShown
  <2>. QED
    BY <1>11, <2>1, Zenon
<1>18. CASE Visible(o) /\ l.type \in {"hard", "external"}
  <2>1. opening' = <<Entry(Path(o), l.to)>> /\ packed' = packed
    BY <1>6, <1>13, <1>14, <1>18, Zenon
  <2>2. <<Entry(Path(o), l.to)>> # <<>>
    OBVIOUS
  <2>3. opening' # <<>> /\ opening' = <<Entry(Path(o), At(o))>> /\ Followed(o) /\ packed' = Entries(W)
    BY <1>2, <1>17, <1>18, <2>1, <2>2
  <2>4. Represents(W, A, S, o)'
    BY <1>0, <1>12, <1>15, <1>16, <1>18, <2>3, RepresentsNext
  <2>. QED
    BY <2>4
<1>19. CASE ~Visible(o) \/ l.type \notin {"hard", "external"}
  <2>1. opening' = <<>> /\ packed' = Append(packed, Entry(Path(o), ShownAs(o))) /\ ~Expanded(o)
    <3>1. CASE ~Visible(o)
      <4>1. opening' = opening /\ packed' = Append(packed, Entry(Path(o), "nil"))
        BY <1>6, <1>13, <1>14, <3>1, Zenon
      <4>. QED
        BY <1>1, <1>17, <3>1, <4>1, Zenon
    <3>2. CASE Visible(o) /\ l.type \notin {"hard", "external"}
      <4>1. opening' = opening /\ packed' = Append(packed, Entry(Path(o), PackedLink(l)))
        BY <1>6, <1>13, <1>14, <3>2, Zenon
      <4>. QED
        BY <1>1, <1>17, <3>2, <4>1, Zenon
    <3>. QED
      BY <1>19, <3>1, <3>2
  <2>2. PICK V : V = Append(W, o)
    OBVIOUS
  <2>3. Walked(V, A, S, {})
    BY <1>1, <1>12, <2>1, <2>2, LeafStep
  <2>4. packed' = Entries(V)
    <3>1. W \in Seq(Listed) /\ o \in Listed
      BY <1>12 DEF Walked, Written, Candidate
    <3>2. Entries(Append(W, o)) = Append(Entries(W), Shows(o))
      BY <3>1, EntriesFacts
    <3>. QED
      BY <1>2, <2>1, <2>2, <3>2, Zenon DEF Shows
  <2>5. Represents(V, A, S, o)'
    BY <1>0, <1>15, <1>16, <2>1, <2>3, <2>4, RepresentsNext
  <2>. QED
    BY <2>5
<1>. QED
  BY <1>18, <1>19

LEMMA LeavesGroup ==
  ASSUME PlaceInv, file # NoFile, NEW W, NEW A, NEW R, NEW O, Represents(W, A, R, O), GroupPacked
  PROVE  \E V, B, S, P : Represents(V, B, S, P)'
<1>0. /\ pc = "links" /\ Top.links = <<>> /\ stack' = Front(stack) /\ opening' = opening /\ packed' = packed
      /\ file' = file /\ max_depth' = max_depth
  BY DEF GroupPacked
<1>1. /\ file \in Files /\ max_depth \in Nat /\ opening = <<>> /\ stack # <<>>
  BY <1>0 DEF PlaceInv
<1>2. /\ stack \in Seq(Frames) /\ Len(stack) = Len(A) /\ packed = Entries(W) /\ Walked(W, A, R, {})
      /\ \A i \in 1 .. Len(A) :
           /\ stack[i].path = Path(A[i]) /\ stack[i].nr_links = Len(LinksAt(A[i]))
           /\ IsInjective(stack[i].links) /\ R[i] = ToSet(stack[i].links)
  BY <1>1 DEF Represents
<1> DEFINE n == Len(A)
<1>3. n \in Nat /\ n > 0 /\ n \in 1 .. n /\ Len(stack) = n
  <2>1. Len(stack) # 0
    BY <1>1, <1>2, EmptySeq
  <2>. QED
    BY <1>2, <2>1
<1>4. R[n] = {}
  <2>1. stack[n].links = <<>>
    BY <1>0, <1>3 DEF Top
  <2>2. ToSet(<<>>) = {}
    BY DEF ToSet
  <2>3. R[n] = ToSet(stack[n].links)
    BY <1>2, <1>3
  <2>. QED
    BY <2>1, <2>2, <2>3, Zenon
<1>5. PICK B : B = Front(A)
  OBVIOUS
<1>6. Walked(W, B, R, {}) /\ Len(B) = n - 1 /\ \A i \in 1 .. n - 1 : B[i] = A[i]
  <2>1. Walked(W, Front(A), R, {}) /\ Len(Front(A)) = Len(A) - 1 /\ \A i \in 1 .. Len(A) - 1 : Front(A)[i] = A[i]
    BY <1>1, <1>2, <1>3, <1>4, PopStep
  <2>. QED
    BY <1>5, <2>1, Zenon
<1> HIDE DEF n
<1>7. stack' \in Seq(Frames) /\ Len(stack') = n - 1 /\ \A i \in 1 .. n - 1 : stack'[i] = stack[i]
  <2>1. PICK s \in Seq(Frames), e \in Frames : stack = Append(s, e) /\ Len(stack) = Len(s) + 1 /\ Front(stack) = s /\ Last(stack) = e
    BY <1>1, <1>2, Splits
  <2>2. Len(s) \in Nat /\ \A i \in 1 .. Len(s) : Append(s, e)[i] = s[i]
    BY Extends
  <2>3. Len(s) = n - 1
    BY <1>3, <2>1, <2>2
  <2>4. stack' = s
    BY <1>0, <2>1
  <2>. QED
    BY <2>1, <2>2, <2>3, <2>4
<1>8. ASSUME NEW i \in 1 .. Len(B)
      PROVE  /\ stack'[i].path = Path(B[i]) /\ stack'[i].nr_links = Len(LinksAt(B[i]))
             /\ IsInjective(stack'[i].links) /\ R[i] = ToSet(stack'[i].links)
  <2>1. i \in 1 .. n - 1 /\ i \in 1 .. n
    BY <1>3, <1>6
  <2>2. stack'[i] = stack[i] /\ B[i] = A[i]
    BY <1>6, <1>7, <2>1
  <2>3. /\ stack[i].path = Path(A[i]) /\ stack[i].nr_links = Len(LinksAt(A[i]))
        /\ IsInjective(stack[i].links) /\ R[i] = ToSet(stack[i].links)
    BY <1>2, <2>1 DEF n
  <2>. QED
    BY <2>2, <2>3, Zenon
<1>9. Len(stack') = Len(B)
  BY <1>6, <1>7
<1>10. opening' = <<>> /\ packed' = Entries(W) /\ stack' \in Seq(Frames)
  BY <1>0, <1>1, <1>2, <1>7
<1>11. Represents(W, B, R, O)'
  BY <1>0, <1>6, <1>8, <1>9, <1>10, RepresentsNext
<1>. QED
  BY <1>11

(* What is shown for an object that is not gone into: pack_object *)
LEMMA ObjectShown ==
  ASSUME max_depth \in Nat, NEW O \in Seq(Links), Visible(O), Followed(O), At(O) \in DOMAIN file
  PROVE  /\ file[At(O)].type = "group" /\ Len(O) > max_depth => ShownAs(O) = "nil" /\ ~Expanded(O)
         /\ file[At(O)].type = "dataset" => ShownAs(O) = "dataset" /\ ~Expanded(O)
         /\ file[At(O)].type = "other" => ShownAs(O) = "unknown" /\ ~Expanded(O)
<1>1. Len(O) \in Nat /\ ~(Len(O) > (IF max_depth = 0 THEN 1 ELSE max_depth) \/ ~FewOnTheWay(O)) /\ Shown(O)
  BY DEF Visible, Shown
<1>2. ShownAs(O) = CASE file[At(O)].type = "group"   -> IF Len(O) <= max_depth THEN "group" ELSE "nil"
                     [] file[At(O)].type = "dataset" -> "dataset"
                     [] file[At(O)].type = "other"   -> "unknown"
  BY <1>1 DEF ShownAs
<1>3. file[At(O)].type = "group" /\ Len(O) > max_depth => ShownAs(O) = "nil"
  BY <1>1, <1>2
<1>4. file[At(O)].type = "dataset" => ShownAs(O) = "dataset"
  BY <1>2
<1>5. file[At(O)].type = "other" => ShownAs(O) = "unknown"
  BY <1>2
<1>6. Expanded(O) => file[At(O)].type = "group" /\ Len(O) <= max_depth
  BY DEF Expanded, IsGroup
<1>. QED
  BY <1>1, <1>3, <1>4, <1>5, <1>6

LEMMA OpensObject ==
  ASSUME PlaceInv, file # NoFile, NEW W, NEW A, NEW R, NEW O, Represents(W, A, R, O),
         OpenTooDeep \/ OpenDataset \/ OpenUnknown
  PROVE  \E V, B, S, P : Represents(V, B, S, P)'
<1>1. /\ pc = "open" /\ Target \in DOMAIN file /\ opening' = <<>>
      /\ file' = file /\ max_depth' = max_depth /\ stack' = stack
  BY DEF OpenTooDeep, OpenDataset, OpenUnknown, Opened
<1>2. /\ max_depth \in Nat /\ O \in Seq(Links) /\ Visible(O) /\ Followed(O)
      /\ opening[1].path = Path(O) /\ Target = At(O) /\ Depth = Len(O)
  BY <1>1, OpenFacts
<1>3. /\ file[At(O)].type = "group" /\ Len(O) > max_depth => ShownAs(O) = "nil" /\ ~Expanded(O)
      /\ file[At(O)].type = "dataset" => ShownAs(O) = "dataset" /\ ~Expanded(O)
      /\ file[At(O)].type = "other" => ShownAs(O) = "unknown" /\ ~Expanded(O)
  BY <1>1, <1>2, ObjectShown
<1>4. packed' = Append(packed, Entry(opening[1].path, ShownAs(O))) /\ ~Expanded(O)
  <2>1. CASE OpenTooDeep
    <3>1. file[Target].type = "group" /\ Depth > max_depth /\ packed' = Append(packed, Entry(opening[1].path, "nil"))
      BY <2>1 DEF OpenTooDeep, Show
    <3>. QED
      BY <1>2, <1>3, <3>1
  <2>2. CASE OpenDataset
    <3>1. file[Target].type = "dataset" /\ packed' = Append(packed, Entry(opening[1].path, "dataset"))
      BY <2>2 DEF OpenDataset, Show
    <3>. QED
      BY <1>2, <1>3, <3>1
  <2>3. CASE OpenUnknown
    <3>1. file[Target].type = "other" /\ packed' = Append(packed, Entry(opening[1].path, "unknown"))
      BY <2>3 DEF OpenUnknown, Show
    <3>. QED
      BY <1>2, <1>3, <3>1
  <2>. QED
    BY <2>1, <2>2, <2>3
<1>5. Represents(Append(W, O), A, R, O)'
  BY <1>1, <1>4, OpensLeaf
<1>. QED
  BY <1>5

LEMMA TreeInvInit == WalkInit => TreeInv
<1> SUFFICES ASSUME WalkInit PROVE TreeInv
  OBVIOUS
<1>1. PlaceInv
  BY PlaceInvInit
<1>2. ASSUME file # NoFile PROVE \E W, A, R, O : Represents(W, A, R, O)
  <2>1. stack = <<>> /\ packed = <<>> /\ opening = <<Entry(<<>>, "root")>>
    BY <1>2 DEF WalkInit
  <2>2. file \in Files /\ max_depth \in Nat
    BY <1>1, <1>2 DEF PlaceInv
  <2>3. Walked(<<>>, <<>>, <<>>, {<<>>})
    BY <2>2, WalkBegins
  <2>4. Path(<<>>) = <<>> /\ At(<<>>) = "root" /\ Entries(<<>>) = <<>>
    BY DEF Path, At, Entries
  <2>5. Followed(<<>>)
    BY DEF Followed
  <2>6. Visible(<<>>)
    <3>1. Len(<<>>) = 0 /\ 1 .. Len(<<>>) - 1 = {}
      OBVIOUS
    <3>. QED
      BY <2>2, <3>1 DEF Visible, FewOnTheWay
  <2>7. opening # <<>> /\ Len(<<>>) = 0 /\ 1 .. 0 = {} /\ <<>> \in Seq(Frames)
    BY <2>1
  <2>8. Represents(<<>>, <<>>, <<>>, <<>>)
    BY <2>1, <2>3, <2>4, <2>5, <2>6, <2>7 DEF Represents
  <2>. QED
    BY <2>8
<1>. QED
  BY <1>1, <1>2 DEF TreeInv

LEMMA TreeInvStep ==
  ASSUME TreeInv, [WalkNext]_allvars
  PROVE  TreeInv'
<1>1. PlaceInv'
  <2>1. file # NoFile => stack \in Seq(Frames)
    BY DEF TreeInv, Represents
  <2>. QED
    BY <2>1, PlaceInvStep DEF TreeInv
<1>2. PlaceInv
  BY DEF TreeInv
<1>3. file' = file
  BY DEF WalkNext, Walk, walk, allvars, OpenFails, WalkFails, OpenTooDeep, OpenGroup, OpenDataset, OpenUnknown,
         VisitLink, GroupPacked, DatasetPacked
<1>4. ASSUME file # NoFile PROVE \E V, B, S, P : Represents(V, B, S, P)'
  <2>1. PICK W, A, R, O : Represents(W, A, R, O)
    BY <1>4 DEF TreeInv
  <2>2. ASSUME UNCHANGED walk PROVE \E V, B, S, P : Represents(V, B, S, P)'
    <3>1. /\ file' = file /\ max_depth' = max_depth /\ opening' = opening /\ stack' = stack /\ packed' = packed
      BY <2>2 DEF walk
    <3>2. Represents(W, A, R, O)'
      <4>1. /\ packed' = Entries(W) /\ stack' \in Seq(Frames) /\ Len(stack') = Len(A)
            /\ opening' = <<>> => Walked(W, A, R, {})
            /\ opening' # <<>> => /\ Walked(W, A, R, {O}) /\ opening' = <<Entry(Path(O), At(O))>>
                                 /\ Visible(O) /\ Followed(O)
        BY <2>1, <3>1 DEF Represents
      <4>2. \A i \in 1 .. Len(A) :
              /\ stack'[i].path = Path(A[i]) /\ stack'[i].nr_links = Len(LinksAt(A[i]))
              /\ IsInjective(stack'[i].links) /\ R[i] = ToSet(stack'[i].links)
        BY <2>1, <3>1 DEF Represents
      <4>. QED
        BY <3>1, <4>1, <4>2, RepresentsNext
    <3>. QED
      BY <3>2
  <2>3. CASE UNCHANGED allvars
    BY <2>2, <2>3 DEF allvars
  <2>4. CASE Next /\ UNCHANGED walk
    BY <2>2, <2>4
  <2>5. CASE OpenFails \/ WalkFails \/ DatasetPacked
    <3>1. UNCHANGED walk
      BY <2>5 DEF OpenFails, WalkFails, DatasetPacked
    <3>. QED
      BY <2>2, <3>1
  <2>6. CASE OpenTooDeep \/ OpenDataset \/ OpenUnknown
    BY <1>2, <1>4, <2>1, <2>6, OpensObject
  <2>7. CASE OpenGroup
    BY <1>2, <1>4, <2>1, <2>7, OpensGroup
  <2>8. CASE VisitLink
    BY <1>2, <1>4, <2>1, <2>8, VisitsLink
  <2>9. CASE GroupPacked
    BY <1>2, <1>4, <2>1, <2>9, LeavesGroup
  <2>. QED
    BY <2>3, <2>4, <2>5, <2>6, <2>7, <2>8, <2>9 DEF WalkNext, Walk
<1>. QED
  BY <1>1, <1>3, <1>4 DEF TreeInv

LEMMA TreeInvShows == TreeInv => ShowsTheTree
<1> SUFFICES ASSUME TreeInv, file # NoFile
             PROVE  /\ ToSet(packed) \subseteq Answer
                    /\ IsInjective(packed)
                    /\ \A i \in 2 .. Len(packed) : IsPrefix(Front(packed[i].path), packed[i - 1].path)
                    /\ result = "walked" => Answer \subseteq ToSet(packed)
  BY DEF ShowsTheTree
<1>1. PICK W, A, R, O : Represents(W, A, R, O)
  BY DEF TreeInv
<1>2. file \in Files /\ max_depth \in Nat
  BY DEF TreeInv, PlaceInv
<1>3. packed = Entries(W) /\ Written(W)
  BY <1>1 DEF Represents, Walked
<1>4. /\ ToSet(packed) \subseteq Answer
      /\ IsInjective(packed)
      /\ \A i \in 2 .. Len(packed) : IsPrefix(Front(packed[i].path), packed[i - 1].path)
      /\ Listed \subseteq ToSet(W) => Answer \subseteq ToSet(packed)
  BY <1>2, <1>3, WrittenShows
<1>5. ASSUME result = "walked" PROVE Listed \subseteq ToSet(W)
  <2>1. stack = <<>> /\ opening = <<>>
    BY <1>5 DEF TreeInv, PlaceInv
  <2>2. Walked(W, A, R, {}) /\ Len(stack) = Len(A)
    BY <1>1, <2>1 DEF Represents
  <2>3. A = <<>>
    <3>1. A \in Seq(Listed)
      BY <2>2 DEF Walked, Descent
    <3>2. Len(A) = 0
      BY <2>1, <2>2
    <3>. QED
      BY <3>1, <3>2, EmptySeq
  <2>. QED
    BY <1>2, <2>2, <2>3, WalkComplete
<1>. QED
  BY <1>4, <1>5

(* pack_group and visit_link show the tree: for every file, whatever circles *)
(* its links form and however many lead to one object, for every max_depth   *)
(* and every limit of links, what is written is part of the tree below the   *)
(* object asked for, each link once and below its own group, and all of it   *)
(* when the walk is complete.                                                *)
THEOREM TreeAlwaysShown == WalkSpec => []ShowsTheTree
<1>1. WalkInit => TreeInv
  BY TreeInvInit
<1>2. TreeInv /\ [WalkNext]_allvars => TreeInv'
  BY TreeInvStep
<1>3. TreeInv => ShowsTheTree
  BY TreeInvShows
<1>. QED
  BY <1>1, <1>2, <1>3, PTL DEF WalkSpec
=============================================================================
