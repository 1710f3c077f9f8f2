-------------------------- MODULE FileCacheProofs --------------------------
(***************************************************************************)
(* Proofs about FileCache for any files, datasets and limits: the reader's *)
(* cache and the manager's shadow of it keep within their limits, the      *)
(* shadow knows whatever the reader has open, and expiry closes the        *)
(* expired files and no other.                                             *)
(***************************************************************************)
EXTENDS FileCache, FiniteSetTheorems, TLAPS

(* The shape of a cache: types, limits, and no name twice *)
WellFormed(c) ==
  /\ c \in Seq(Entries)
  /\ Len(c) <= MaxOpenFiles
  /\ \A i, j \in 1 .. Len(c) : c[i].name = c[j].name => i = j
  /\ \A i \in 1 .. Len(c) : Bounded(c[i].datasets, MaxOpenDatasets)

(* Whatever c has open s knows, in the same order of use *)
Knows(c, s) ==
  /\ Len(c) <= Len(s)
  /\ \A i \in 1 .. Len(c) : c[i].name = s[i].name /\ Prefix(c[i].datasets, s[i].datasets)

(* The files in increasing order of age *)
Sorted(c) == \A i, j \in 1 .. Len(c) : i <= j => c[i].age <= c[j].age

(* What the shadow will be once the manager has seen the answer *)
Pending ==
  CASE "DATASET_OPENED" \in retcode -> OpenDataset(OpenFile(shadow, request.file), request.dataset)
    [] retcode = {"FILE_OPENED"} -> OpenFile(shadow, request.file)
    [] OTHER -> shadow

(* An answer is out only while its request is *)
Exchange ==
  /\ request = NULL => retcode = {}
  /\ "DATASET_OPENED" \in retcode => request.dataset # NULL
  /\ reader = "dead" => cache = <<>> /\ ~expired

CacheInv ==
  /\ TypeOK
  /\ WellFormed(cache) /\ WellFormed(shadow)
  /\ Sorted(cache)
  /\ Exchange
  /\ Knows(cache, Pending)
  /\ ~expired /\ reader # "dead" => Knows(Pending, cache)

-----------------------------------------------------------------------------
(* Lists of datasets *)

(* What becomes of a list when x is used: x is at the head, what was       *)
(* before its old place (or what there is room for) moves back by one.     *)
Used(s, max, x) ==
  IF \E j \in 1 .. Len(s) : s[j] = x
  THEN MakeItemHead(s, CHOOSE j \in 1 .. Len(s) : s[j] = x)
  ELSE AddItemHead(s, max, x)

(* The place x is taken from: its own, or the free or the last one *)
Place(s, max, x) ==
  IF \E j \in 1 .. Len(s) : s[j] = x
  THEN CHOOSE j \in 1 .. Len(s) : s[j] = x
  ELSE IF Len(s) >= max THEN max ELSE Len(s) + 1

(* ordered_map_make_item_head permutes: the entry at i comes first *)
LEMMA MakeItemHeadShape ==
  ASSUME NEW S, NEW s \in Seq(S), NEW i \in 1 .. Len(s)
  PROVE  /\ MakeItemHead(s, i) \in Seq(S)
         /\ Len(MakeItemHead(s, i)) = Len(s)
         /\ MakeItemHead(s, i)[1] = s[i]
         /\ \A k \in 2 .. Len(s) : MakeItemHead(s, i)[k] = IF k <= i THEN s[k - 1] ELSE s[k]
<1> DEFINE m == MakeItemHead(s, i)
<1>1. \A k \in 1 .. Len(s) : (IF k = 1 THEN s[i] ELSE IF k <= i THEN s[k - 1] ELSE s[k]) \in S
  OBVIOUS
<1>2. m \in [1 .. Len(s) -> S]
  BY <1>1 DEF MakeItemHead
<1>3. m \in Seq(S) /\ Len(m) = Len(s)
  BY <1>2
<1>. QED
  BY <1>3 DEF MakeItemHead

(* Adding at the head drops the tail when the list is full *)
LEMMA AddItemHeadShape ==
  ASSUME NEW S, NEW s \in Seq(S), NEW max \in Nat \ {0}, Len(s) <= max, NEW e \in S
  PROVE  LET k == IF Len(s) >= max THEN max ELSE Len(s) + 1
             a == AddItemHead(s, max, e)
         IN  /\ a \in Seq(S)
             /\ Len(a) = k
             /\ a[1] = e
             /\ \A j \in 2 .. k : a[j] = s[j - 1]
<1> DEFINE n == IF Len(s) >= max THEN max - 1 ELSE Len(s)
           t == SubSeq(s, 1, n)
<1>1. n \in 0 .. Len(s)
  OBVIOUS
<1>2. t \in Seq(S) /\ Len(t) = n /\ \A j \in 1 .. n : t[j] = s[j]
  BY <1>1
<1>3. <<e>> \in Seq(S) /\ Len(<<e>>) = 1 /\ <<e>>[1] = e
  OBVIOUS
<1> HIDE DEF t
<1>4. /\ <<e>> \o t \in Seq(S)
      /\ Len(<<e>> \o t) = n + 1
      /\ (<<e>> \o t)[1] = e
      /\ \A j \in 2 .. n + 1 : (<<e>> \o t)[j] = t[j - 1]
  BY <1>1, <1>2, <1>3
<1>5. AddItemHead(s, max, e) = <<e>> \o t
  BY DEF AddItemHead, t
<1>. QED
  BY <1>1, <1>2, <1>4, <1>5

(* u is s after the use of x, which took x from place k *)
UseOf(S, s, max, x, k, u) ==
  /\ k \in 1 .. max
  /\ u \in Seq(S)
  /\ Len(u) = IF k <= Len(s) THEN Len(s) ELSE k
  /\ u[1] = x
  /\ \A j \in 2 .. Len(u) : u[j] = IF j <= k THEN s[j - 1] ELSE s[j]
  /\ (\E j \in 1 .. Len(s) : s[j] = x) => k <= Len(s) /\ s[k] = x
  /\ ~(\E j \in 1 .. Len(s) : s[j] = x) =>
        k = (IF Len(s) >= max THEN max ELSE Len(s) + 1) /\ Len(u) = k

LEMMA UsedShape ==
  ASSUME NEW S, NEW s \in Seq(S), NEW max \in Nat \ {0}, Bounded(s, max), NEW x \in S
  PROVE  UseOf(S, s, max, x, Place(s, max, x), Used(s, max, x))
<1>1. Len(s) \in Nat /\ Len(s) <= max
  BY DEF Bounded
<1>2. CASE \E j \in 1 .. Len(s) : s[j] = x
  <2> DEFINE k == CHOOSE j \in 1 .. Len(s) : s[j] = x
  <2>1. k \in 1 .. Len(s) /\ s[k] = x
    BY <1>2
  <2>2. Place(s, max, x) = k /\ Used(s, max, x) = MakeItemHead(s, k)
    BY <1>2 DEF Place, Used
  <2> DEFINE u == MakeItemHead(s, k)
  <2> HIDE DEF k
  <2>3. /\ u \in Seq(S) /\ Len(u) = Len(s) /\ u[1] = s[k]
        /\ \A j \in 2 .. Len(s) : u[j] = IF j <= k THEN s[j - 1] ELSE s[j]
    BY <2>1, MakeItemHeadShape
  <2> HIDE DEF u
  <2>4. UseOf(S, s, max, x, k, u)
    BY <1>1, <1>2, <2>1, <2>3 DEF UseOf
  <2>. QED
    BY <2>2, <2>4 DEF u
<1>3. CASE ~ \E j \in 1 .. Len(s) : s[j] = x
  <2>1. Place(s, max, x) = (IF Len(s) >= max THEN max ELSE Len(s) + 1)
        /\ Used(s, max, x) = AddItemHead(s, max, x)
    BY <1>3 DEF Place, Used
  <2> DEFINE k == IF Len(s) >= max THEN max ELSE Len(s) + 1
             u == AddItemHead(s, max, x)
  <2>2. u \in Seq(S) /\ Len(u) = k /\ u[1] = x /\ \A j \in 2 .. k : u[j] = s[j - 1]
    BY <1>1, AddItemHeadShape
  <2>3. k \in 1 .. max /\ (k <= Len(s) => k = Len(s))
    BY <1>1
  <2> HIDE DEF u
  <2>4. UseOf(S, s, max, x, k, u)
    BY <1>1, <1>3, <2>2, <2>3 DEF UseOf
  <2>. QED
    BY <2>1, <2>4 DEF u
<1>. QED
  BY <1>2, <1>3

(* Use keeps a list within its limit and without repetition *)
LEMMA UseBounded ==
  ASSUME NEW S, NEW s \in Seq(S), NEW max \in Nat \ {0}, Bounded(s, max), NEW x \in S,
         NEW k, NEW u, UseOf(S, s, max, x, k, u)
  PROVE  Bounded(u, max)
<1>1. UseOf(S, s, max, x, k, u)
  OBVIOUS
<1>2. Len(s) \in Nat /\ Len(s) <= max /\ \A i, j \in 1 .. Len(s) : s[i] = s[j] => i = j
  BY DEF Bounded
<1>3. Len(u) <= max
  BY <1>1, <1>2 DEF UseOf
<1> DEFINE old(j) == IF j <= k THEN j - 1 ELSE j
<1>4. \A j \in 2 .. Len(u) : old(j) \in 1 .. Len(s) /\ u[j] = s[old(j)] /\ u[j] # x
  BY <1>1, <1>2 DEF UseOf
<1>5. \A i, j \in 1 .. Len(u) : u[i] = u[j] => i = j
  <2> SUFFICES ASSUME NEW i \in 1 .. Len(u), NEW j \in 1 .. Len(u), u[i] = u[j] PROVE i = j
    OBVIOUS
  <2>1. CASE i = 1 \/ j = 1
    BY <1>1, <1>4, <2>1 DEF UseOf
  <2>2. CASE i # 1 /\ j # 1
    <3>1. i \in 2 .. Len(u) /\ j \in 2 .. Len(u)
      BY <2>2, <1>1 DEF UseOf
    <3>2. old(i) \in 1 .. Len(s) /\ old(j) \in 1 .. Len(s) /\ s[old(i)] = s[old(j)]
      BY <1>4, <3>1
    <3>3. old(i) = old(j)
      <4> HIDE DEF old
      <4>. QED
        BY <1>2, <3>2
    <3>4. k \in Int /\ i \in Int /\ j \in Int
      BY <1>1, <3>1 DEF UseOf
    <3>. QED
      BY <3>3, <3>4
  <2>. QED
    BY <2>1, <2>2
<1>. QED
  BY <1>3, <1>5 DEF Bounded

(* The list that knows more still does after both were used alike *)
LEMMA UsePrefix ==
  ASSUME NEW S, NEW s \in Seq(S), NEW t \in Seq(S), NEW max \in Nat \ {0},
         Bounded(s, max), Bounded(t, max), Prefix(s, t), NEW x \in S,
         NEW k, NEW u, UseOf(S, s, max, x, k, u),
         NEW l, NEW v, UseOf(S, t, max, x, l, v)
  PROVE  /\ Prefix(u, v)
         /\ (\E j \in 1 .. Len(s) : s[j] = x) => l = k
         /\ ~(\E j \in 1 .. Len(s) : s[j] = x) => Len(u) = k /\ k <= l
<1>1. UseOf(S, s, max, x, k, u)
  OBVIOUS
<1>2. UseOf(S, t, max, x, l, v)
  OBVIOUS
<1>3. /\ Len(s) \in Nat /\ Len(s) <= max
      /\ Len(t) \in Nat /\ Len(t) <= max
      /\ \A i, j \in 1 .. Len(t) : t[i] = t[j] => i = j
      /\ Len(s) <= Len(t) /\ \A j \in 1 .. Len(s) : s[j] = t[j]
  BY DEF Bounded, Prefix
<1>4. CASE \E j \in 1 .. Len(s) : s[j] = x
  <2>1. k \in 1 .. Len(s) /\ s[k] = x /\ t[k] = x
    BY <1>1, <1>3, <1>4 DEF UseOf
  <2>2. l \in 1 .. Len(t) /\ t[l] = x
    BY <1>2, <1>3, <2>1 DEF UseOf
  <2>3. l = k
    BY <1>3, <2>1, <2>2
  <2>4. Len(u) = Len(s) /\ Len(v) = Len(t)
    BY <1>1, <1>2, <2>1, <2>2 DEF UseOf
  <2>5. ASSUME NEW j \in 1 .. Len(u) PROVE u[j] = v[j]
    <3>1. CASE j = 1
      BY <1>1, <1>2, <3>1 DEF UseOf
    <3>2. CASE j # 1
      <4>1. j \in 2 .. Len(u) /\ j \in 2 .. Len(v) /\ j \in 1 .. Len(s) /\ j - 1 \in 1 .. Len(s)
        BY <1>3, <2>4, <3>2
      <4>2. u[j] = (IF j <= k THEN s[j - 1] ELSE s[j]) /\ v[j] = (IF j <= k THEN t[j - 1] ELSE t[j])
        BY <1>1, <1>2, <2>3, <4>1 DEF UseOf
      <4>. QED
        BY <1>3, <4>1, <4>2
    <3>. QED
      BY <3>1, <3>2
  <2>. QED
    BY <1>3, <1>4, <2>3, <2>4, <2>5 DEF Prefix
<1>5. CASE ~ \E j \in 1 .. Len(s) : s[j] = x
  <2>1. k = (IF Len(s) >= max THEN max ELSE Len(s) + 1) /\ Len(u) = k
    BY <1>1, <1>5 DEF UseOf
  <2>2. l >= k
    <3>1. CASE \E j \in 1 .. Len(t) : t[j] = x
      <4>1. l \in 1 .. Len(t) /\ t[l] = x
        BY <1>2, <3>1 DEF UseOf
      <4>2. l \notin 1 .. Len(s)
        BY <1>3, <1>5, <4>1
      <4>. QED
        BY <1>3, <2>1, <4>1, <4>2
    <3>2. CASE ~ \E j \in 1 .. Len(t) : t[j] = x
      BY <1>2, <1>3, <2>1, <3>2 DEF UseOf
    <3>. QED
      BY <3>1, <3>2
  <2>3. Len(u) <= Len(v)
    BY <1>1, <1>2, <1>3, <2>1, <2>2 DEF UseOf
  <2>4. ASSUME NEW j \in 1 .. Len(u) PROVE u[j] = v[j]
    <3>1. CASE j = 1
      BY <1>1, <1>2, <3>1 DEF UseOf
    <3>2. CASE j # 1
      <4>1. j \in 2 .. Len(u) /\ j \in 2 .. Len(v) /\ j <= k /\ j <= l
        BY <1>1, <1>2, <1>3, <2>1, <2>2, <2>3, <3>2 DEF UseOf
      <4>2. u[j] = s[j - 1] /\ v[j] = t[j - 1]
        BY <1>1, <1>2, <4>1 DEF UseOf
      <4>3. j - 1 \in 1 .. Len(s)
        BY <1>3, <2>1, <4>1
      <4>. QED
        BY <1>3, <4>2, <4>3
    <3>. QED
      BY <3>1, <3>2
  <2>. QED
    BY <1>1, <1>2, <1>5, <2>1, <2>2, <2>3, <2>4 DEF Prefix, UseOf
<1>. QED
  BY <1>4, <1>5

-----------------------------------------------------------------------------
(* Lists of files *)

(* o is c after file_cache_open_file of f, whose entry came from place k   *)
OpenOf(c, f, k, o) ==
  /\ k \in 1 .. MaxOpenFiles
  /\ o \in Seq(Entries)
  /\ Len(o) = IF k <= Len(c) THEN Len(c) ELSE k
  /\ Len(o) >= 1
  /\ o[1].name = f
  /\ o[1].age = 0
  /\ o[1].datasets = IF HasFile(c, f) THEN c[k].datasets ELSE <<>>
  /\ \A j \in 2 .. Len(o) : o[j] = IF j <= k THEN c[j - 1] ELSE c[j]
  /\ HasFile(c, f) => k <= Len(c) /\ c[k].name = f
  /\ ~HasFile(c, f) =>
        k = (IF Len(c) >= MaxOpenFiles THEN MaxOpenFiles ELSE Len(c) + 1) /\ Len(o) = k

LEMMA EntryType ==
  ASSUME NEW f \in Files
  PROVE  Entry(f) \in Entries
BY CacheConstants DEF Entry, Entries, Ages

LEMMA OpenFileShape ==
  ASSUME NEW c, WellFormed(c), NEW f \in Files
  PROVE  \E k \in 1 .. MaxOpenFiles : OpenOf(c, f, k, OpenFile(c, f))
<1>1. c \in Seq(Entries) /\ Len(c) \in Nat /\ Len(c) <= MaxOpenFiles /\ MaxOpenFiles \in Nat \ {0}
  BY CacheConstants DEF WellFormed
<1>2. CASE HasFile(c, f)
  <2> DEFINE k == CHOOSE i \in 1 .. Len(c) : c[i].name = f
             m == MakeItemHead(c, k)
             e == [m[1] EXCEPT !.age = 0]
             o == OpenFile(c, f)
  <2>1. k \in 1 .. Len(c) /\ c[k].name = f
    BY <1>2 DEF HasFile
  <2>2. o = [m EXCEPT ![1] = e]
    BY <1>2 DEF OpenFile
  <2> HIDE DEF k
  <2>3. /\ m \in Seq(Entries) /\ Len(m) = Len(c) /\ m[1] = c[k]
        /\ \A j \in 2 .. Len(c) : m[j] = IF j <= k THEN c[j - 1] ELSE c[j]
    BY <1>1, <2>1, MakeItemHeadShape
  <2> HIDE DEF m, o
  <2>4. c[k] \in Entries
    BY <1>1, <2>1
  <2>5. e \in Entries /\ e.name = f /\ e.age = 0 /\ e.datasets = c[k].datasets
    <3>1. m[1] \in Entries /\ 0 \in Ages
      BY <2>3, <2>4, CacheConstants DEF Ages
    <3>2. e \in Entries /\ e.age = 0 /\ e.name = m[1].name /\ e.datasets = m[1].datasets
      BY <3>1 DEF Entries
    <3>. QED
      BY <2>1, <2>3, <3>2
  <2> HIDE DEF e
  <2>6. 1 \in 1 .. Len(m)
    BY <1>1, <2>1, <2>3
  <2>7. o \in Seq(Entries) /\ Len(o) = Len(c) /\ o[1] = e /\ \A j \in 2 .. Len(c) : o[j] = m[j]
    BY <1>1, <2>2, <2>3, <2>5, <2>6
  <2>8. k \in 1 .. MaxOpenFiles /\ k <= Len(c) /\ Len(c) >= 1
    BY <1>1, <2>1
  <2>9. OpenOf(c, f, k, o)
    BY <1>1, <1>2, <2>1, <2>3, <2>5, <2>7, <2>8 DEF OpenOf
  <2>. QED
    BY <2>8, <2>9 DEF o
<1>3. CASE ~HasFile(c, f)
  <2> DEFINE k == IF Len(c) >= MaxOpenFiles THEN MaxOpenFiles ELSE Len(c) + 1
             o == OpenFile(c, f)
  <2>1. o = AddItemHead(c, MaxOpenFiles, Entry(f))
    BY <1>3 DEF OpenFile
  <2>2. /\ o \in Seq(Entries) /\ Len(o) = k /\ o[1] = Entry(f)
        /\ \A j \in 2 .. k : o[j] = c[j - 1]
    BY <1>1, <2>1, EntryType, AddItemHeadShape
  <2>3. Entry(f).name = f /\ Entry(f).age = 0 /\ Entry(f).datasets = <<>>
    BY DEF Entry
  <2>4. k \in 1 .. MaxOpenFiles /\ (k <= Len(c) => k = Len(c))
    BY <1>1
  <2> HIDE DEF o
  <2>5. OpenOf(c, f, k, o)
    BY <1>1, <1>3, <2>2, <2>3, <2>4 DEF OpenOf
  <2>. QED
    BY <2>4, <2>5 DEF o
<1>. QED
  BY <1>2, <1>3

(* The names of a cache are a list as the lists of datasets are *)
LEMMA NamesList ==
  ASSUME NEW c \in Seq(Entries)
  PROVE  /\ Names(c) \in Seq(Files)
         /\ Len(Names(c)) = Len(c)
         /\ \A i \in 1 .. Len(c) : Names(c)[i] = c[i].name
<1>1. \A i \in 1 .. Len(c) : c[i].name \in Files
  <2> SUFFICES ASSUME NEW i \in 1 .. Len(c) PROVE c[i].name \in Files
    OBVIOUS
  <2>1. c[i] \in Entries
    OBVIOUS
  <2>. QED
    BY <2>1 DEF Entries
<1>2. Names(c) \in [1 .. Len(c) -> Files] /\ Len(c) \in Nat
  BY <1>1 DEF Names
<1>. QED
  BY <1>2 DEF Names

LEMMA NamesPrefix ==
  ASSUME NEW c \in Seq(Entries), NEW s \in Seq(Entries)
  PROVE  Prefix(Names(c), Names(s)) <=>
           Len(c) <= Len(s) /\ \A i \in 1 .. Len(c) : c[i].name = s[i].name
<1> DEFINE m == Names(c)
           n == Names(s)
<1>1. Len(m) = Len(c) /\ \A i \in 1 .. Len(c) : m[i] = c[i].name
  BY NamesList
<1>2. Len(n) = Len(s) /\ \A i \in 1 .. Len(s) : n[i] = s[i].name
  BY NamesList
<1>3. Len(c) \in Nat /\ Len(s) \in Nat
  OBVIOUS
<1> HIDE DEF m, n
<1>4. Len(c) <= Len(s) => \A i \in 1 .. Len(c) : n[i] = s[i].name
  BY <1>2, <1>3
<1>5. Prefix(m, n) <=> Len(c) <= Len(s) /\ \A i \in 1 .. Len(c) : c[i].name = s[i].name
  BY <1>1, <1>2, <1>4 DEF Prefix
<1>. QED
  BY <1>5 DEF m, n

LEMMA OpenIsUse ==
  ASSUME NEW c, WellFormed(c), NEW f \in Files, NEW k, NEW o, OpenOf(c, f, k, o)
  PROVE  /\ Bounded(Names(c), MaxOpenFiles)
         /\ UseOf(Files, Names(c), MaxOpenFiles, f, k, Names(o))
<1>1. c \in Seq(Entries) /\ Len(c) \in Nat /\ o \in Seq(Entries) /\ Len(o) \in Nat /\ k \in Nat
  BY CacheConstants DEF WellFormed, OpenOf
<1> DEFINE s == Names(c)
           u == Names(o)
<1>2. s \in Seq(Files) /\ Len(s) = Len(c) /\ \A i \in 1 .. Len(c) : s[i] = c[i].name
  BY <1>1, NamesList
<1>3. u \in Seq(Files) /\ Len(u) = Len(o) /\ \A i \in 1 .. Len(o) : u[i] = o[i].name
  BY <1>1, NamesList
<1> HIDE DEF s, u
<1>4. Bounded(s, MaxOpenFiles)
  BY <1>1, <1>2 DEF WellFormed, Bounded
<1>5. HasFile(c, f) <=> \E j \in 1 .. Len(s) : s[j] = f
  BY <1>2 DEF HasFile
<1>6. ASSUME NEW j \in 2 .. Len(u) PROVE u[j] = IF j <= k THEN s[j - 1] ELSE s[j]
  <2>1. o[j] = (IF j <= k THEN c[j - 1] ELSE c[j]) /\ u[j] = o[j].name
    BY <1>1, <1>3, <1>6 DEF OpenOf
  <2>2. (j <= k => j - 1 \in 1 .. Len(c)) /\ (j > k => j \in 1 .. Len(c))
    <3>1. Len(o) = (IF k <= Len(c) THEN Len(c) ELSE k) /\ (k > Len(c) => k = Len(c) + 1)
      BY <1>1, CacheConstants DEF OpenOf
    <3>. QED
      BY <1>1, <1>3, <3>1
  <2>. QED
    BY <1>1, <1>2, <1>3, <2>1, <2>2
<1>7. u[1] = f /\ (HasFile(c, f) => k <= Len(s) /\ s[k] = f)
  BY <1>1, <1>2, <1>3 DEF OpenOf
<1>8. UseOf(Files, s, MaxOpenFiles, f, k, u)
  BY <1>1, <1>2, <1>3, <1>5, <1>6, <1>7 DEF OpenOf, UseOf
<1>. QED
  BY <1>4, <1>8 DEF s, u

(* An entry but the first is one of the old ones, and they keep their order *)
LEMMA OldPlace ==
  ASSUME NEW c, WellFormed(c), NEW f, NEW k, NEW o, OpenOf(c, f, k, o), NEW j \in 2 .. Len(o)
  PROVE  LET old == IF j <= k THEN j - 1 ELSE j
         IN  old \in 1 .. Len(c) /\ o[j] = c[old]
<1>1. Len(c) \in Nat /\ k \in Nat /\ MaxOpenFiles \in Nat /\ Len(c) <= MaxOpenFiles
  BY CacheConstants DEF WellFormed, OpenOf
<1>2. Len(o) = (IF k <= Len(c) THEN Len(c) ELSE k) /\ (k > Len(c) => k = Len(c) + 1)
  BY <1>1 DEF OpenOf
<1>3. o[j] = IF j <= k THEN c[j - 1] ELSE c[j]
  BY DEF OpenOf
<1>. QED
  BY <1>1, <1>2, <1>3

LEMMA OpenFileWellFormed ==
  ASSUME NEW c, WellFormed(c), NEW f \in Files
  PROVE  WellFormed(OpenFile(c, f)) /\ Len(OpenFile(c, f)) >= 1
<1> DEFINE o == OpenFile(c, f)
<1>1. PICK k \in 1 .. MaxOpenFiles : OpenOf(c, f, k, o)
  BY OpenFileShape
<1> HIDE DEF o
<1>2. /\ c \in Seq(Entries) /\ Len(c) \in Nat
      /\ o \in Seq(Entries) /\ Len(o) \in Nat /\ Len(o) >= 1
      /\ MaxOpenFiles \in Nat \ {0} /\ MaxOpenDatasets \in Nat \ {0}
  BY <1>1, CacheConstants DEF WellFormed, OpenOf
<1>3. Bounded(Names(o), MaxOpenFiles)
  BY <1>1, <1>2, NamesList, OpenIsUse, UseBounded
<1>4. /\ Len(o) <= MaxOpenFiles
      /\ \A i, j \in 1 .. Len(o) : o[i].name = o[j].name => i = j
  BY <1>2, <1>3, NamesList DEF Bounded
<1>5. ASSUME NEW j \in 1 .. Len(o) PROVE Bounded(o[j].datasets, MaxOpenDatasets)
  <2>1. CASE j = 1 /\ HasFile(c, f)
    <3>1. k \in 1 .. Len(c) /\ o[j].datasets = c[k].datasets
      BY <1>1, <1>2, <2>1 DEF OpenOf
    <3>. QED
      BY <3>1 DEF WellFormed
  <2>2. CASE j = 1 /\ ~HasFile(c, f)
    <3>1. o[j].datasets = <<>>
      BY <1>1, <2>2 DEF OpenOf
    <3>. QED
      BY <1>2, <3>1 DEF Bounded
  <2>3. CASE j # 1
    <3>1. j \in 2 .. Len(o)
      BY <1>2, <2>3
    <3>. QED
      BY <1>1, <3>1, OldPlace DEF WellFormed
  <2>. QED
    BY <2>1, <2>2, <2>3
<1>. QED
  BY <1>2, <1>4, <1>5 DEF WellFormed, o

LEMMA OpenFileKnows ==
  ASSUME NEW c, NEW s, WellFormed(c), WellFormed(s), Knows(c, s), NEW f \in Files
  PROVE  Knows(OpenFile(c, f), OpenFile(s, f))
<1> DEFINE o == OpenFile(c, f)
           p == OpenFile(s, f)
<1>1. PICK k \in 1 .. MaxOpenFiles : OpenOf(c, f, k, o)
  BY OpenFileShape
<1>2. PICK l \in 1 .. MaxOpenFiles : OpenOf(s, f, l, p)
  BY OpenFileShape
<1> HIDE DEF o, p
<1>3. /\ c \in Seq(Entries) /\ Len(c) \in Nat /\ s \in Seq(Entries) /\ Len(s) \in Nat
      /\ o \in Seq(Entries) /\ Len(o) \in Nat /\ p \in Seq(Entries) /\ Len(p) \in Nat
      /\ MaxOpenFiles \in Nat \ {0} /\ k \in Nat /\ l \in Nat
  BY <1>1, <1>2, CacheConstants DEF WellFormed, OpenOf
<1>4. /\ Len(c) <= Len(s)
      /\ \A i \in 1 .. Len(c) : c[i].name = s[i].name /\ Prefix(c[i].datasets, s[i].datasets)
  BY DEF Knows
<1>5. Prefix(Names(c), Names(s))
  BY <1>3, <1>4, NamesPrefix
<1>6. /\ Names(c) \in Seq(Files) /\ Bounded(Names(c), MaxOpenFiles)
      /\ UseOf(Files, Names(c), MaxOpenFiles, f, k, Names(o))
  BY <1>1, <1>3, NamesList, OpenIsUse
<1>7. /\ Names(s) \in Seq(Files) /\ Bounded(Names(s), MaxOpenFiles)
      /\ UseOf(Files, Names(s), MaxOpenFiles, f, l, Names(p))
  BY <1>2, <1>3, NamesList, OpenIsUse
<1>8. /\ Prefix(Names(o), Names(p))
      /\ (\E j \in 1 .. Len(Names(c)) : Names(c)[j] = f) => l = k
      /\ ~(\E j \in 1 .. Len(Names(c)) : Names(c)[j] = f) => Len(Names(o)) = k /\ k <= l
  BY <1>3, <1>5, <1>6, <1>7, UsePrefix
<1>9. HasFile(c, f) <=> \E j \in 1 .. Len(Names(c)) : Names(c)[j] = f
  BY <1>3, NamesList DEF HasFile
<1>10. (HasFile(c, f) => l = k) /\ (~HasFile(c, f) => Len(o) = k /\ k <= l)
  BY <1>3, <1>8, <1>9, NamesList
<1>11. Len(o) <= Len(p) /\ \A i \in 1 .. Len(o) : o[i].name = p[i].name
  BY <1>3, <1>8, NamesPrefix
<1>12. ASSUME NEW j \in 1 .. Len(o) PROVE Prefix(o[j].datasets, p[j].datasets)
  <2>1. CASE j = 1 /\ HasFile(c, f)
    <3>1. k \in 1 .. Len(c) /\ c[k].name = f /\ o[j].datasets = c[k].datasets
      BY <1>1, <1>3, <2>1 DEF OpenOf
    <3>2. HasFile(s, f)
      BY <1>3, <1>4, <3>1 DEF HasFile
    <3>3. p[j].datasets = s[k].datasets
      BY <1>2, <1>10, <2>1, <3>2 DEF OpenOf
    <3>. QED
      BY <1>4, <3>1, <3>3
  <2>2. CASE j = 1 /\ ~HasFile(c, f)
    <3>1. o[j].datasets = <<>>
      BY <1>1, <2>2 DEF OpenOf
    <3>2. p[j] \in Entries
      BY <1>3, <1>11
    <3>3. Len(p[j].datasets) \in Nat
      BY <3>2 DEF Entries
    <3>. QED
      BY <3>1, <3>3 DEF Prefix
  <2>3. CASE j # 1
    <3> DEFINE a == IF j <= k THEN j - 1 ELSE j
               b == IF j <= l THEN j - 1 ELSE j
    <3>1. j \in 2 .. Len(o) /\ j \in 2 .. Len(p)
      BY <1>3, <1>11, <2>3
    <3>2. a \in 1 .. Len(c) /\ o[j] = c[a]
      BY <1>1, <3>1, OldPlace
    <3>3. b \in 1 .. Len(s) /\ p[j] = s[b]
      BY <1>2, <3>1, OldPlace
    <3>4. a = b
      BY <1>3, <1>10, <3>1
    <3> HIDE DEF a, b
    <3>. QED
      BY <1>4, <3>2, <3>3, <3>4
  <2>. QED
    BY <2>1, <2>2, <2>3
<1>. QED
  BY <1>11, <1>12 DEF Knows, o, p

LEMMA OpenFileSorted ==
  ASSUME NEW c, WellFormed(c), Sorted(c), NEW f \in Files
  PROVE  Sorted(OpenFile(c, f))
<1> DEFINE o == OpenFile(c, f)
<1>1. PICK k \in 1 .. MaxOpenFiles : OpenOf(c, f, k, o)
  BY OpenFileShape
<1> HIDE DEF o
<1>2. /\ c \in Seq(Entries) /\ Len(c) \in Nat /\ o \in Seq(Entries) /\ Len(o) \in Nat /\ k \in Nat
      /\ o[1].age = 0
  BY <1>1, CacheConstants DEF WellFormed, OpenOf
<1> SUFFICES ASSUME NEW i \in 1 .. Len(o), NEW j \in 1 .. Len(o), i <= j
             PROVE  o[i].age <= o[j].age
  BY DEF Sorted, o
<1>3. CASE i = 1
  <2>1. o[j] \in Entries
    BY <1>2
  <2>2. o[j].age \in Nat
    BY <2>1, CacheConstants DEF Entries, Ages
  <2>. QED
    BY <1>2, <1>3, <2>2
<1>4. CASE i # 1
  <2> DEFINE old(n) == IF n <= k THEN n - 1 ELSE n
  <2>1. i \in 2 .. Len(o) /\ j \in 2 .. Len(o)
    BY <1>2, <1>4
  <2>2. old(i) \in 1 .. Len(c) /\ o[i] = c[old(i)] /\ old(j) \in 1 .. Len(c) /\ o[j] = c[old(j)]
    BY <1>1, <2>1, OldPlace
  <2>3. old(i) <= old(j)
    BY <1>2
  <2> HIDE DEF old
  <2>. QED
    BY <2>2, <2>3 DEF Sorted
<1>. QED
  BY <1>3, <1>4

-----------------------------------------------------------------------------
(* The dataset of the file at the head *)

LEMMA OpenDatasetShape ==
  ASSUME NEW c, WellFormed(c), Len(c) >= 1, NEW d \in Datasets
  PROVE  LET o == OpenDataset(c, d)
             u == Used(c[1].datasets, MaxOpenDatasets, d)
         IN  /\ o \in Seq(Entries) /\ Len(o) = Len(c)
             /\ o[1].name = c[1].name /\ o[1].age = c[1].age /\ o[1].datasets = u
             /\ \A j \in 2 .. Len(c) : o[j] = c[j]
             /\ c[1].datasets \in Seq(Datasets) /\ Bounded(c[1].datasets, MaxOpenDatasets)
             /\ u \in Seq(Datasets) /\ Bounded(u, MaxOpenDatasets)
             /\ UseOf(Datasets, c[1].datasets, MaxOpenDatasets, d,
                      Place(c[1].datasets, MaxOpenDatasets, d), u)
<1> DEFINE o == OpenDataset(c, d)
           s == c[1].datasets
           k == Place(s, MaxOpenDatasets, d)
           u == Used(s, MaxOpenDatasets, d)
           e == [c[1] EXCEPT !.datasets = u]
<1>1. c \in Seq(Entries) /\ Len(c) \in Nat /\ MaxOpenDatasets \in Nat \ {0} /\ 1 \in 1 .. Len(c)
  BY CacheConstants DEF WellFormed
<1>2. c[1] \in Entries
  BY <1>1
<1>3. s \in Seq(Datasets) /\ Bounded(s, MaxOpenDatasets)
  BY <1>1, <1>2 DEF Entries, WellFormed
<1>4. UseOf(Datasets, s, MaxOpenDatasets, d, k, u)
  BY <1>1, <1>3, UsedShape
<1>5. u \in Seq(Datasets) /\ Bounded(u, MaxOpenDatasets)
  <2>1. u \in Seq(Datasets)
    BY <1>4 DEF UseOf
  <2> HIDE DEF u, k, s
  <2>. QED
    BY <2>1, <1>1, <1>3, <1>4, UseBounded
<1>6. o = [c EXCEPT ![1] = e]
  BY DEF OpenDataset, Used
<1> HIDE DEF o, u, k
<1>7. e \in Entries /\ e.name = c[1].name /\ e.age = c[1].age /\ e.datasets = u
  BY <1>2, <1>5 DEF Entries
<1> HIDE DEF e
<1>8. o \in Seq(Entries) /\ Len(o) = Len(c) /\ o[1] = e /\ \A j \in 2 .. Len(c) : o[j] = c[j]
  BY <1>1, <1>6, <1>7
<1>. QED
  BY <1>3, <1>4, <1>5, <1>7, <1>8 DEF o, u, k

LEMMA OpenDatasetWellFormed ==
  ASSUME NEW c, WellFormed(c), Len(c) >= 1, NEW d \in Datasets
  PROVE  WellFormed(OpenDataset(c, d))
<1> DEFINE o == OpenDataset(c, d)
<1>1. /\ o \in Seq(Entries) /\ Len(o) = Len(c)
      /\ o[1].name = c[1].name /\ Bounded(o[1].datasets, MaxOpenDatasets)
      /\ \A j \in 2 .. Len(c) : o[j] = c[j]
  BY OpenDatasetShape
<1> HIDE DEF o
<1>2. Len(c) \in Nat /\ Len(c) <= MaxOpenFiles
  BY DEF WellFormed
<1>3. \A i \in 1 .. Len(o) : o[i].name = c[i].name /\ Bounded(o[i].datasets, MaxOpenDatasets)
  <2> SUFFICES ASSUME NEW i \in 1 .. Len(o)
               PROVE  o[i].name = c[i].name /\ Bounded(o[i].datasets, MaxOpenDatasets)
    OBVIOUS
  <2>1. i = 1 \/ i \in 2 .. Len(c)
    BY <1>1, <1>2
  <2>. QED
    BY <1>1, <2>1 DEF WellFormed
<1>4. \A i, j \in 1 .. Len(o) : o[i].name = o[j].name => i = j
  BY <1>1, <1>3 DEF WellFormed
<1>. QED
  BY <1>1, <1>2, <1>3, <1>4 DEF WellFormed, o

LEMMA OpenDatasetKnows ==
  ASSUME NEW c, NEW s, WellFormed(c), WellFormed(s), Knows(c, s), Len(c) >= 1, NEW d \in Datasets
  PROVE  Knows(OpenDataset(c, d), OpenDataset(s, d))
<1> DEFINE o == OpenDataset(c, d)
           p == OpenDataset(s, d)
           l == Place(c[1].datasets, MaxOpenDatasets, d)
           m == Place(s[1].datasets, MaxOpenDatasets, d)
<1>1. Len(c) \in Nat /\ Len(s) \in Nat /\ Len(c) <= Len(s) /\ Len(s) >= 1 /\ MaxOpenDatasets \in Nat \ {0}
  BY CacheConstants DEF WellFormed, Knows
<1>2. /\ o \in Seq(Entries) /\ Len(o) = Len(c) /\ o[1].name = c[1].name
      /\ \A j \in 2 .. Len(c) : o[j] = c[j]
      /\ c[1].datasets \in Seq(Datasets) /\ Bounded(c[1].datasets, MaxOpenDatasets)
      /\ UseOf(Datasets, c[1].datasets, MaxOpenDatasets, d, l, o[1].datasets)
  BY OpenDatasetShape
<1>3. /\ p \in Seq(Entries) /\ Len(p) = Len(s) /\ p[1].name = s[1].name
      /\ \A j \in 2 .. Len(s) : p[j] = s[j]
      /\ s[1].datasets \in Seq(Datasets) /\ Bounded(s[1].datasets, MaxOpenDatasets)
      /\ UseOf(Datasets, s[1].datasets, MaxOpenDatasets, d, m, p[1].datasets)
  BY <1>1, OpenDatasetShape
<1> HIDE DEF o, p, l, m
<1>4. c[1].name = s[1].name /\ Prefix(c[1].datasets, s[1].datasets)
  BY <1>1 DEF Knows
<1>5. Prefix(o[1].datasets, p[1].datasets)
  BY <1>1, <1>2, <1>3, <1>4, UsePrefix
<1>6. ASSUME NEW i \in 1 .. Len(o)
      PROVE  o[i].name = p[i].name /\ Prefix(o[i].datasets, p[i].datasets)
  <2>1. CASE i = 1
    BY <1>2, <1>3, <1>4, <1>5, <2>1
  <2>2. CASE i # 1
    <3>1. i \in 1 .. Len(c) /\ i \in 2 .. Len(c) /\ i \in 2 .. Len(s)
      BY <1>1, <1>2, <2>2
    <3>2. o[i] = c[i] /\ p[i] = s[i]
      BY <1>2, <1>3, <3>1
    <3>. QED
      BY <3>1, <3>2 DEF Knows
  <2>. QED
    BY <2>1, <2>2
<1>. QED
  BY <1>1, <1>2, <1>3, <1>6 DEF Knows, o, p

LEMMA OpenDatasetSorted ==
  ASSUME NEW c, WellFormed(c), Sorted(c), Len(c) >= 1, NEW d \in Datasets
  PROVE  Sorted(OpenDataset(c, d))
<1> DEFINE o == OpenDataset(c, d)
<1>1. Len(o) = Len(c) /\ o[1].age = c[1].age /\ \A j \in 2 .. Len(c) : o[j] = c[j]
  BY OpenDatasetShape
<1>2. Len(c) \in Nat
  BY DEF WellFormed
<1> HIDE DEF o
<1>3. \A i \in 1 .. Len(o) : o[i].age = c[i].age
  <2> SUFFICES ASSUME NEW i \in 1 .. Len(o) PROVE o[i].age = c[i].age
    OBVIOUS
  <2>1. i = 1 \/ i \in 2 .. Len(c)
    BY <1>1, <1>2
  <2>. QED
    BY <1>1, <2>1
<1>4. Sorted(o)
  BY <1>1, <1>3 DEF Sorted
<1>. QED
  BY <1>4 DEF o

-----------------------------------------------------------------------------
(* The inductive invariant *)

LEMMA EmptyCache ==
  /\ WellFormed(<<>>) /\ Sorted(<<>>)
  /\ \A s : WellFormed(s) => Knows(<<>>, s)
BY CacheConstants DEF WellFormed, Sorted, Knows

LEMMA KnowsItself ==
  ASSUME NEW c, WellFormed(c)
  PROVE  Knows(c, c)
BY DEF WellFormed, Knows, Prefix, Entries

LEMMA CacheInit == Init => CacheInv
<1> SUFFICES ASSUME Init PROVE CacheInv
  OBVIOUS
<1>1. TypeOK
  <2>1. cache \in Seq(Entries) /\ shadow \in Seq(Entries)
    BY DEF Init
  <2>. QED
    BY <2>1 DEF Init, TypeOK
<1>2. Pending = <<>> /\ cache = <<>> /\ shadow = <<>>
  BY DEF Init, Pending
<1>3. Exchange
  BY DEF Init, Exchange
<1>4. WellFormed(cache) /\ WellFormed(shadow) /\ Sorted(cache) /\ Knows(cache, Pending) /\ Knows(Pending, cache)
  BY <1>2, EmptyCache
<1>. QED
  BY <1>1, <1>3, <1>4 DEF CacheInv

LEMMA PendingWellFormed ==
  ASSUME CacheInv
  PROVE  WellFormed(Pending)
<1>1. CASE "DATASET_OPENED" \in retcode
  <2>1. request.file \in Files /\ request.dataset \in Datasets
    BY <1>1 DEF CacheInv, TypeOK, Exchange, Requests
  <2>2. Pending = OpenDataset(OpenFile(shadow, request.file), request.dataset)
    BY <1>1 DEF Pending
  <2>. QED
    BY <2>1, <2>2, OpenFileWellFormed, OpenDatasetWellFormed DEF CacheInv
<1>2. CASE retcode = {"FILE_OPENED"}
  <2>1. request.file \in Files
    BY <1>2 DEF CacheInv, TypeOK, Exchange, Requests
  <2>2. Pending = OpenFile(shadow, request.file)
    BY <1>2 DEF Pending
  <2>. QED
    BY <2>1, <2>2, OpenFileWellFormed DEF CacheInv
<1>3. CASE ~("DATASET_OPENED" \in retcode) /\ retcode # {"FILE_OPENED"}
  BY <1>3 DEF CacheInv, Pending
<1>. QED
  BY <1>1, <1>2, <1>3

(* The steps of an exchange in which nothing is opened *)
LEMMA NothingOpened ==
  ASSUME CacheInv, Send \/ FileFails \/ Packed \/ PipeBreaks
  PROVE  CacheInv'
<1>1. cache' = cache /\ shadow' = shadow /\ expired' = expired
  BY DEF Send, FileFails, Packed, PipeBreaks
<1>2. TypeOK'
  BY DEF CacheInv, TypeOK, Send, FileFails, Packed, PipeBreaks
<1>3. Exchange'
  BY CacheConstants DEF CacheInv, TypeOK, Requests, Exchange, Send, FileFails, Packed, PipeBreaks
<1>4. Pending' = Pending
  <2>1. CASE Send
    BY <2>1 DEF CacheInv, Exchange, Pending, Send
  <2>2. CASE FileFails \/ PipeBreaks
    BY <2>2 DEF Pending, FileFails, PipeBreaks
  <2>3. CASE Packed
    BY <2>3 DEF Pending, Packed
  <2>. QED
    BY <2>1, <2>2, <2>3
<1>5. reader' # "dead" => reader # "dead"
  BY DEF Send, FileFails, Packed, PipeBreaks
<1>. QED
  BY <1>1, <1>2, <1>3, <1>4, <1>5 DEF CacheInv

(* The reader opens: the manager will do the same to its copy *)
LEMMA FileOpened ==
  ASSUME CacheInv, ObjectOpens \/ DatasetFails
  PROVE  CacheInv'
<1> DEFINE f == request.file
<1>1. request # NULL /\ f \in Files /\ reader # "dead"
  BY DEF CacheInv, TypeOK, Exchange, Requests, ObjectOpens, DatasetFails
<1>2. cache' = OpenFile(cache, f) /\ UNCHANGED <<shadow, request, expired>> /\ retcode' = {"FILE_OPENED"}
  BY DEF ObjectOpens, DatasetFails
<1>3. Pending = shadow /\ Pending' = OpenFile(shadow, f)
  BY <1>2 DEF Pending, ObjectOpens, DatasetFails
<1> HIDE DEF f
<1>4. WellFormed(cache') /\ Sorted(cache')
  BY <1>1, <1>2, OpenFileWellFormed, OpenFileSorted DEF CacheInv
<1>5. Knows(cache', Pending')
  BY <1>1, <1>2, <1>3, OpenFileKnows DEF CacheInv
<1>6. ~expired => Knows(Pending', cache')
  BY <1>1, <1>2, <1>3, OpenFileKnows DEF CacheInv
<1>7. TypeOK' /\ Exchange'
  BY <1>1, <1>2, <1>4 DEF CacheInv, TypeOK, Exchange, WellFormed, ObjectOpens, DatasetFails
<1>. QED
  BY <1>2, <1>4, <1>5, <1>6, <1>7 DEF CacheInv

LEMMA DatasetOpened ==
  ASSUME CacheInv, DatasetOpens
  PROVE  CacheInv'
<1> DEFINE f == request.file
           d == request.dataset
<1>1. request # NULL /\ f \in Files /\ d \in Datasets /\ reader # "dead"
  BY DEF CacheInv, TypeOK, Exchange, Requests, DatasetOpens
<1>2. /\ cache' = OpenDataset(OpenFile(cache, f), d) /\ UNCHANGED <<shadow, request, expired>>
      /\ retcode' = {"FILE_OPENED", "DATASET_OPENED"} /\ reader' = "packing"
  BY DEF DatasetOpens
<1>3. Pending = shadow /\ Pending' = OpenDataset(OpenFile(shadow, f), d)
  BY <1>2 DEF Pending, DatasetOpens
<1> HIDE DEF f, d
<1>4. /\ WellFormed(OpenFile(cache, f)) /\ Len(OpenFile(cache, f)) >= 1 /\ Sorted(OpenFile(cache, f))
      /\ WellFormed(OpenFile(shadow, f)) /\ Len(OpenFile(shadow, f)) >= 1
  BY <1>1, OpenFileWellFormed, OpenFileSorted DEF CacheInv
<1>5. WellFormed(cache') /\ Sorted(cache')
  BY <1>1, <1>2, <1>4, OpenDatasetWellFormed, OpenDatasetSorted
<1>6. Knows(cache', Pending')
  <2>1. Knows(OpenFile(cache, f), OpenFile(shadow, f))
    BY <1>1, <1>3, OpenFileKnows DEF CacheInv
  <2>. QED
    BY <1>1, <1>2, <1>3, <1>4, <2>1, OpenDatasetKnows
<1>7. ASSUME ~expired PROVE Knows(Pending', cache')
  <2>1. Knows(OpenFile(shadow, f), OpenFile(cache, f))
    BY <1>1, <1>3, <1>7, OpenFileKnows DEF CacheInv
  <2>. QED
    BY <1>1, <1>2, <1>3, <1>4, <2>1, OpenDatasetKnows
<1>8. TypeOK' /\ Exchange'
  BY <1>1, <1>2, <1>5, CacheConstants DEF CacheInv, TypeOK, Exchange, WellFormed, d
<1>. QED
  BY <1>2, <1>5, <1>6, <1>7, <1>8 DEF CacheInv

LEMMA ShadowUpdated ==
  ASSUME CacheInv, UpdateShadow
  PROVE  CacheInv'
<1>1. shadow' = Pending /\ retcode' = {} /\ request' = NULL /\ UNCHANGED <<cache, reader, expired>>
  BY DEF UpdateShadow, Pending
<1>2. Pending' = Pending
  BY <1>1 DEF Pending
<1>3. WellFormed(shadow')
  BY <1>1, PendingWellFormed
<1>4. TypeOK' /\ Exchange'
  BY <1>1, <1>3 DEF CacheInv, TypeOK, Exchange, WellFormed
<1>. QED
  BY <1>1, <1>2, <1>3, <1>4 DEF CacheInv

LEMMA FilesExpire ==
  ASSUME CacheInv, Expire
  PROVE  CacheInv' /\ NrExpired \in 0 .. Len(cache)
<1> DEFINE n == Len(cache) - NrExpired
<1>1. Len(cache) \in Nat /\ cache \in Seq(Entries)
  BY DEF CacheInv, WellFormed
<1>2. NrExpired \in 0 .. Len(cache)
  <2>1. Expired \in SUBSET (1 .. Len(cache))
    BY DEF Expired
  <2>2. IsFiniteSet(1 .. Len(cache)) /\ Cardinality(1 .. Len(cache)) = Len(cache)
    BY <1>1, FS_Interval, SMTT(40)
  <2>3. IsFiniteSet(Expired) /\ Cardinality(Expired) <= Len(cache)
    BY <2>1, <2>2, FS_Subset
  <2>4. Cardinality(Expired) \in Nat
    BY <2>3, FS_CardinalityType
  <2>. QED
    BY <1>1, <2>3, <2>4 DEF NrExpired
<1>3. cache' = SubSeq(cache, 1, n) /\ expired' = TRUE /\ UNCHANGED <<shadow, reader, request, retcode>>
  BY DEF Expire
<1>4. n \in 0 .. Len(cache)
  BY <1>1, <1>2
<1> HIDE DEF n
<1>5. cache' \in Seq(Entries) /\ Len(cache') = n /\ \A i \in 1 .. n : cache'[i] = cache[i]
  BY <1>1, <1>3, <1>4
<1>6. WellFormed(cache') /\ Sorted(cache')
  <2>1. \A i \in 1 .. n : i \in 1 .. Len(cache)
    BY <1>1, <1>4
  <2>2. Len(cache') <= MaxOpenFiles
    BY <1>1, <1>4, <1>5, CacheConstants DEF CacheInv, WellFormed
  <2>3. WellFormed(cache')
    BY <1>5, <2>1, <2>2 DEF CacheInv, WellFormed
  <2>4. Sorted(cache')
    BY <1>5, <2>1 DEF CacheInv, Sorted
  <2>. QED
    BY <2>3, <2>4
<1>7. Pending' = Pending
  BY <1>3 DEF Pending
<1>8. Knows(cache', Pending)
  <2>1. \A i \in 1 .. n : i \in 1 .. Len(cache)
    BY <1>1, <1>4
  <2>2. Len(cache') <= Len(Pending)
    <3>1. Len(Pending) \in Nat
      BY PendingWellFormed DEF WellFormed
    <3>. QED
      BY <1>1, <1>4, <1>5, <3>1 DEF CacheInv, Knows
  <2>. QED
    BY <1>5, <2>1, <2>2 DEF CacheInv, Knows
<1>9. TypeOK' /\ Exchange'
  BY <1>3, <1>5 DEF CacheInv, TypeOK, Exchange, Expire
<1>. QED
  BY <1>2, <1>3, <1>6, <1>7, <1>8, <1>9 DEF CacheInv

LEMMA TimePasses ==
  ASSUME CacheInv, Tick
  PROVE  CacheInv'
<1>1. Len(cache) \in Nat /\ cache \in Seq(Entries)
  BY DEF CacheInv, WellFormed
<1> DEFINE older(e) == [e EXCEPT !.age = IF @ > MaxAge THEN @ ELSE @ + 1]
<1>2. cache' = [i \in 1 .. Len(cache) |-> older(cache[i])]
      /\ UNCHANGED <<shadow, reader, request, retcode, expired>>
  BY DEF Tick
<1>3. ASSUME NEW e \in Entries
      PROVE  /\ older(e) \in Entries /\ older(e).name = e.name /\ older(e).datasets = e.datasets
             /\ older(e).age = IF e.age > MaxAge THEN e.age ELSE e.age + 1
  BY CacheConstants DEF Entries, Ages
<1> HIDE DEF older
<1>4. cache' \in [1 .. Len(cache) -> Entries]
  BY <1>1, <1>2, <1>3
<1>5. cache' \in Seq(Entries) /\ Len(cache') = Len(cache)
  BY <1>1, <1>4
<1>6. ASSUME NEW i \in 1 .. Len(cache)
      PROVE  /\ cache'[i].name = cache[i].name /\ cache'[i].datasets = cache[i].datasets
             /\ cache'[i].age = IF cache[i].age > MaxAge THEN cache[i].age ELSE cache[i].age + 1
             /\ cache[i].age \in Nat
  <2>1. cache[i] \in Entries
    BY <1>1
  <2>2. cache'[i] = older(cache[i])
    BY <1>2
  <2>3. cache[i].age \in Nat
    BY <2>1, CacheConstants DEF Entries, Ages
  <2>. QED
    BY <1>3, <2>1, <2>2, <2>3
<1>7. WellFormed(cache')
  BY <1>5, <1>6 DEF CacheInv, WellFormed
<1>8. Sorted(cache')
  <2> SUFFICES ASSUME NEW i \in 1 .. Len(cache), NEW j \in 1 .. Len(cache), i <= j
               PROVE  cache'[i].age <= cache'[j].age
    BY <1>5 DEF Sorted
  <2>1. cache[i].age <= cache[j].age
    BY DEF CacheInv, Sorted
  <2>. QED
    BY <1>6, <2>1, CacheConstants
<1>9. Pending' = Pending
  BY <1>2 DEF Pending
<1>10. Knows(cache', Pending) /\ (Knows(Pending, cache) => Knows(Pending, cache'))
  BY <1>1, <1>5, <1>6, PendingWellFormed DEF CacheInv, Knows, WellFormed
<1>11. TypeOK' /\ Exchange'
  <2>1. cache = <<>> => cache' = <<>>
    BY <1>1, <1>5
  <2>. QED
    BY <1>2, <1>5, <2>1 DEF CacheInv, TypeOK, Exchange
<1>. QED
  BY <1>2, <1>7, <1>8, <1>9, <1>10, <1>11 DEF CacheInv

LEMMA ReaderDies ==
  ASSUME CacheInv, Die \/ Replace
  PROVE  CacheInv'
<1>1. cache' = <<>> /\ expired' = FALSE
  BY DEF CacheInv, Exchange, Die, Replace
<1>2. CASE Die
  <2>1. Pending' = Pending
    BY <1>2 DEF Pending, Die
  <2>2. TypeOK' /\ Exchange'
    <3>1. cache' \in Seq(Entries)
      BY <1>1
    <3>. QED
      BY <1>1, <1>2, <3>1 DEF CacheInv, TypeOK, Exchange, Die
  <2>3. WellFormed(shadow') /\ reader' = "dead"
    BY <1>2 DEF CacheInv, Die
  <2>. QED
    BY <1>1, <2>1, <2>2, <2>3, EmptyCache, PendingWellFormed DEF CacheInv
<1>3. CASE Replace
  <2>1. Pending' = <<>> /\ shadow' = <<>>
    BY <1>3 DEF CacheInv, Exchange, Pending, Replace
  <2>2. TypeOK' /\ Exchange'
    BY <1>1, <1>3 DEF CacheInv, TypeOK, Exchange, Replace
  <2>. QED
    BY <1>1, <2>1, <2>2, EmptyCache DEF CacheInv
<1>. QED
  BY <1>2, <1>3

LEMMA CacheStep == CacheInv /\ [Next]_vars => CacheInv'
<1> SUFFICES ASSUME CacheInv, [Next]_vars PROVE CacheInv'
  OBVIOUS
<1>1. CASE UNCHANGED vars
  <2>1. Pending' = Pending
    BY <1>1 DEF vars, Pending
  <2>. QED
    BY <1>1, <2>1 DEF vars, CacheInv, TypeOK, Exchange
<1>. QED
  BY <1>1, NothingOpened, FileOpened, DatasetOpened, ShadowUpdated, FilesExpire, TimePasses, ReaderDies
     DEF Next, Opens

(* The inductive invariant holds of the cache, the shadow and the command  *)
(* in flight in every state.                                               *)
THEOREM CacheInvariant == Spec => []CacheInv
BY CacheInit, CacheStep, PTL DEF Spec

-----------------------------------------------------------------------------
(* The properties *)

(* Every variable has its type: file_cache_open_file and                   *)
(* dataset_cache_open_dataset always leave lists of whole entries.         *)
THEOREM CacheTypeCorrect == Spec => []TypeOK
BY CacheInvariant, PTL DEF CacheInv

LEMMA WellFormedNames ==
  ASSUME NEW c, WellFormed(c)
  PROVE  Bounded(Names(c), MaxOpenFiles)
<1>1. c \in Seq(Entries) /\ Len(c) <= MaxOpenFiles
  BY DEF WellFormed
<1>2. Len(Names(c)) = Len(c) /\ \A i \in 1 .. Len(c) : Names(c)[i] = c[i].name
  BY <1>1, NamesList
<1>. QED
  BY <1>1, <1>2 DEF WellFormed, Bounded

(* max_open_files and max_open_datasets are respected by the reader's      *)
(* cache and by the shadow, and no name is entered twice, for any limits   *)
(* and any sequence of requests, failures, expiry and deaths.              *)
THEOREM LimitsRespected == Spec => []WithinLimits
<1>1. CacheInv => WithinLimits
  BY WellFormedNames DEF CacheInv, WithinLimits, WellFormed
<1>. QED
  BY <1>1, CacheInvariant, PTL

(* Between two requests the shadow has whatever the reader has open, in    *)
(* the same order, whenever and how often the reader closes old files.     *)
THEOREM ShadowComplete == Spec => []ShadowKnowsAll
<1>1. CacheInv => ShadowKnowsAll
  <2> SUFFICES ASSUME CacheInv, request = NULL
               PROVE  /\ Prefix(Names(cache), Names(shadow))
                      /\ \A i \in 1 .. Len(cache) : Prefix(cache[i].datasets, shadow[i].datasets)
    BY DEF ShadowKnowsAll
  <2>1. Pending = shadow
    BY DEF CacheInv, Exchange, Pending
  <2>2. Knows(cache, shadow) /\ cache \in Seq(Entries) /\ shadow \in Seq(Entries)
    BY <2>1 DEF CacheInv, TypeOK
  <2>. QED
    BY <2>2, NamesPrefix DEF Knows
<1>. QED
  BY <1>1, CacheInvariant, PTL

(* Two caches that know each other give the same score *)
LEMMA KnowsScore ==
  ASSUME NEW c, NEW s, Knows(c, s), WellFormed(c), WellFormed(s), NEW f, NEW d
  PROVE  /\ HasFile(c, f) => HasFile(s, f)
         /\ HasDataset(c, f, d) => HasDataset(s, f, d)
<1>1. /\ Len(c) \in Nat /\ Len(s) \in Nat /\ Len(c) <= Len(s)
      /\ \A i \in 1 .. Len(c) : c[i].name = s[i].name /\ Prefix(c[i].datasets, s[i].datasets)
  BY DEF Knows, WellFormed
<1>2. \A i \in 1 .. Len(c) : i \in 1 .. Len(s)
  BY <1>1
<1>3. HasFile(c, f) => HasFile(s, f)
  BY <1>1, <1>2 DEF HasFile
<1>4. ASSUME HasDataset(c, f, d) PROVE HasDataset(s, f, d)
  <2>1. PICK i \in 1 .. Len(c) : c[i].name = f /\ \E j \in 1 .. Len(c[i].datasets) : c[i].datasets[j] = d
    BY <1>4 DEF HasDataset
  <2>2. PICK j \in 1 .. Len(c[i].datasets) : c[i].datasets[j] = d
    BY <2>1
  <2>3. c[i] \in Entries /\ s[i] \in Entries
    BY <1>2 DEF WellFormed
  <2>4. Len(c[i].datasets) \in Nat /\ Len(s[i].datasets) \in Nat
    BY <2>3 DEF Entries
  <2>5. j \in 1 .. Len(s[i].datasets) /\ s[i].datasets[j] = d
    BY <1>1, <2>2, <2>4 DEF Prefix
  <2>. QED
    BY <1>1, <1>2, <2>1, <2>5 DEF HasDataset
<1>. QED
  BY <1>3, <1>4

(* Until a reader closes a file because of its age, cache_score computed   *)
(* by the manager from the shadow is what the reader itself would answer.  *)
THEOREM ScoresExact == Spec => []ScoreExact
<1>1. CacheInv => ScoreExact
  <2> SUFFICES ASSUME CacheInv, ~expired, request = NULL, reader # "dead", NEW r \in Requests
               PROVE  CacheScore(shadow, r) = CacheScore(cache, r)
    BY DEF ScoreExact
  <2>1. Pending = shadow
    BY DEF CacheInv, Exchange, Pending
  <2>2. Knows(cache, shadow) /\ Knows(shadow, cache) /\ WellFormed(cache) /\ WellFormed(shadow)
    BY <2>1 DEF CacheInv
  <2>3. HasFile(cache, r.file) <=> HasFile(shadow, r.file)
    BY <2>2, KnowsScore
  <2>4. HasDataset(cache, r.file, r.dataset) <=> HasDataset(shadow, r.file, r.dataset)
    BY <2>2, KnowsScore
  <2>. QED
    BY <2>3, <2>4 DEF CacheScore
<1>. QED
  BY <1>1, CacheInvariant, PTL

(* Because the list is in order of age, as many files from its tail as     *)
(* have expired are exactly the expired files.                             *)
LEMMA ExpiredSuffix ==
  ASSUME CacheInv
  PROVE  \A i \in 1 .. Len(cache) : i \in Expired <=> i > Len(cache) - NrExpired
<1> DEFINE L == Len(cache)
           young == (1 .. L) \ Expired
           n == L - NrExpired
<1>1. L \in Nat /\ cache \in Seq(Entries)
  BY DEF CacheInv, WellFormed
<1>2. IsFiniteSet(1 .. L) /\ Cardinality(1 .. L) = L
  BY <1>1, FS_Interval, SMTT(40)
<1>3. Expired \in SUBSET (1 .. L)
  BY DEF Expired
<1>4. IsFiniteSet(young) /\ Cardinality(young) = n
  <2>1. (1 .. L) \cap Expired = Expired
    BY <1>3
  <2>2. IsFiniteSet(young) /\ Cardinality(young) = Cardinality(1 .. L) - Cardinality((1 .. L) \cap Expired)
    BY <1>2, FS_Difference
  <2>. QED
    BY <1>2, <2>1, <2>2 DEF NrExpired
<1>5. n \in Nat
  BY <1>4, FS_CardinalityType
<1> HIDE DEF n, L
<1>6. ASSUME NEW i \in young PROVE 1 .. i \subseteq young
  <2>1. i \in 1 .. L /\ ~(cache[i].age > MaxAge)
    BY DEF Expired, L
  <2>2. ASSUME NEW j \in 1 .. i PROVE j \in young
    <3>1. j \in 1 .. L /\ j <= i
      BY <1>1, <2>1
    <3>2. cache[j].age <= cache[i].age
      BY <2>1, <3>1 DEF CacheInv, Sorted, L
    <3>3. cache[i] \in Entries /\ cache[j] \in Entries
      BY <1>1, <2>1, <3>1 DEF L
    <3>4. cache[i].age \in Nat /\ cache[j].age \in Nat
      BY <3>3, CacheConstants DEF Entries, Ages
    <3>5. ~(cache[j].age > MaxAge)
      BY <2>1, <3>2, <3>4, CacheConstants
    <3>. QED
      BY <3>1, <3>5 DEF Expired, L
  <2>. QED
    BY <2>2
<1>7. young \subseteq 1 .. n
  <2> SUFFICES ASSUME NEW i \in young PROVE i \in 1 .. n
    OBVIOUS
  <2>1. i \in Nat /\ i >= 1
    BY <1>1
  <2>2. Cardinality(1 .. i) = i
    BY <2>1, FS_Interval
  <2>3. Cardinality(1 .. i) <= Cardinality(young)
    BY <1>4, <1>6, FS_Subset
  <2>. QED
    BY <1>4, <1>5, <2>1, <2>2, <2>3
<1>8. IsFiniteSet(1 .. n) /\ Cardinality(1 .. n) = n
  BY <1>5, FS_Interval
<1>9. young = 1 .. n
  BY <1>4, <1>7, <1>8, FS_Subset
<1>. QED
  BY <1>1, <1>5, <1>9 DEF n, L

(* file_cache_expire_entries, which only counts the expired files and      *)
(* closes as many from the tail, closes every expired file and no other.   *)
THEOREM ExpiryExact == Spec => ExpiresTheExpired
<1>1. ASSUME CacheInv, Expire
      PROVE  /\ \A i \in 1 .. Len(cache') : i \notin Expired
             /\ \A i \in Len(cache') + 1 .. Len(cache) : i \in Expired
  <2>1. NrExpired \in 0 .. Len(cache) /\ Len(cache) \in Nat /\ cache \in Seq(Entries)
    BY <1>1, FilesExpire DEF CacheInv, WellFormed
  <2>2. Len(cache') = Len(cache) - NrExpired
    BY <1>1, <2>1 DEF Expire
  <2>. QED
    BY <1>1, <2>1, <2>2, ExpiredSuffix
<1>2. CacheInv => (Expire => /\ \A i \in 1 .. Len(cache') : i \notin Expired
                             /\ \A i \in Len(cache') + 1 .. Len(cache) : i \in Expired)
  BY <1>1
<1>. QED
  BY <1>2, CacheInvariant, PTL DEF ExpiresTheExpired

=============================================================================
