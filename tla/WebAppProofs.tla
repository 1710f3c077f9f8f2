---------------------------- MODULE WebAppProofs ----------------------------
(***************************************************************************)
(* Proofs about VirtualDirectory: adding the lines of a configuration one  *)
(* by one, in any order, keeps a tree in which a path can be resolved      *)
(* exactly by those who have the roles that the lines declare for it, and  *)
(* in which listings show exactly what can be resolved.                    *)
(*                                                                         *)
(* Then proofs about WebApp, for any number of request threads, users,     *)
(* files, configurations and sizes: the configuration under construction   *)
(* and the active one reflect the lines they were made of; permits and     *)
(* workers come back; what is sent and what is cached are whole answers.   *)
(***************************************************************************)
EXTENDS WebApp, FiniteSetTheorems, SequenceTheorems, TLAPS

Path == Seq(STRING)

Line == [path : Path, media_type : STRING, real_path : STRING, roles : SUBSET STRING]

RoleMaps == UNION { [D -> SUBSET STRING] : D \in SUBSET Path }
FileMaps == UNION { [D -> STRING] : D \in SUBSET Path }
Trees == [roles : RoleMaps, files : FileMaps, described : SUBSET Path]

(* The tree is closed: what it has, has the directories above it *)
Closed(tree) ==
  /\ tree \in Trees
  /\ <<>> \in Directories(tree)
  /\ Directories(tree) \cap Files(tree) = {}
  /\ \A p \in Directories(tree) \cup Files(tree) :
       \A n \in 0 .. Len(p) - 1 : SubSeq(p, 1, n) \in Directories(tree)

(* The tree has what the lines name, and nothing else; a directory has the   *)
(* roles of its own lines, and only roles that lines declare for it          *)
Reflects(tree, ls) ==
  /\ Closed(tree)
  /\ \A p \in Directories(tree) \cup Files(tree) : Exists(ls, p)
  /\ \A l \in ToSet(ls) :
       /\ l \in Line /\ l.path # <<>>
       /\ IsDirectory(l) => l.path \in Directories(tree) /\ l.roles \subseteq tree.roles[l.path]
       /\ ~IsDirectory(l) => l.path \in Files(tree)
  /\ \A d \in Directories(tree) : tree.roles[d] \subseteq DeclaredRoles(ls, d)

-----------------------------------------------------------------------------
(* Paths and prefixes *)

LEMMA SubPath ==
  ASSUME NEW t \in Path, NEW n \in 0 .. Len(t)
  PROVE  /\ SubSeq(t, 1, n) \in Path
         /\ Len(SubSeq(t, 1, n)) = n
         /\ \A i \in 1 .. n : SubSeq(t, 1, n)[i] = t[i]
         /\ IsPrefix(SubSeq(t, 1, n), t)
<1>1. /\ SubSeq(t, 1, n) \in Path
      /\ Len(SubSeq(t, 1, n)) = n
      /\ \A i \in 1 .. n : SubSeq(t, 1, n)[i] = t[i]
  BY DEF Path
<1>. QED
  BY <1>1 DEF IsPrefix, Path

LEMMA PrefixByNames ==
  ASSUME NEW s \in Path, NEW t \in Path
  PROVE  IsPrefix(s, t) <=> Len(s) <= Len(t) /\ \A i \in 1 .. Len(s) : s[i] = t[i]
BY DEF IsPrefix, Path

LEMMA PrefixIsSub ==
  ASSUME NEW s \in Path, NEW t \in Path, IsPrefix(s, t)
  PROVE  Len(s) \in 0 .. Len(t) /\ s = SubSeq(t, 1, Len(s))
BY DEF IsPrefix, Path

LEMMA PrefixSelf ==
  ASSUME NEW t \in Path
  PROVE  IsPrefix(t, t) /\ SubSeq(t, 1, Len(t)) = t /\ IsPrefix(<<>>, t) /\ <<>> \in Path
BY DEF IsPrefix, Path

LEMMA PrefixTrans ==
  ASSUME NEW s \in Path, NEW t \in Path, NEW u \in Path, IsPrefix(s, t), IsPrefix(t, u)
  PROVE  IsPrefix(s, u)
<1>1. Len(s) \in Nat /\ Len(t) \in Nat /\ Len(u) \in Nat
  BY DEF Path
<1>. QED
  BY <1>1, PrefixByNames

(* Of two prefixes of a path the shorter is a prefix of the longer *)
LEMMA PrefixesOfOne ==
  ASSUME NEW s \in Path, NEW t \in Path, NEW u \in Path,
         IsPrefix(s, u), IsPrefix(t, u), Len(s) <= Len(t)
  PROVE  IsPrefix(s, t)
<1>1. Len(s) \in Nat /\ Len(t) \in Nat /\ Len(u) \in Nat
  BY DEF Path
<1>. QED
  BY <1>1, PrefixByNames

LEMMA PrefixSameLength ==
  ASSUME NEW s \in Path, NEW t \in Path, IsPrefix(s, t), Len(t) <= Len(s)
  PROVE  s = t
<1>1. Len(s) \in Nat /\ Len(t) \in Nat
  BY DEF Path
<1>2. Len(s) = Len(t) /\ s = SubSeq(t, 1, Len(s))
  BY <1>1, PrefixIsSub
<1>. QED
  BY <1>2, PrefixSelf

LEMMA SubOfSub ==
  ASSUME NEW t \in Path, NEW n \in 0 .. Len(t), NEW m \in 0 .. n
  PROVE  SubSeq(SubSeq(t, 1, n), 1, m) = SubSeq(t, 1, m)
BY DEF Path

(* The paths above one: its proper prefixes but the root *)
LEMMA AbovePath ==
  ASSUME NEW t \in Path
  PROVE  \A p : p \in Above(t) <=> p \in Path /\ p # <<>> /\ p # t /\ IsPrefix(p, t)
<1>1. Len(t) \in Nat
  BY DEF Path
<1>2. ASSUME NEW p \in Above(t) PROVE p \in Path /\ p # <<>> /\ p # t /\ IsPrefix(p, t)
  <2>1. PICK n \in 1 .. Len(t) - 1 : p = SubSeq(t, 1, n)
    BY DEF Above
  <2>2. n \in 0 .. Len(t)
    BY <1>1
  <2>3. p \in Path /\ Len(p) = n /\ IsPrefix(p, t)
    BY <2>1, <2>2, SubPath
  <2>4. Len(<<>>) = 0
    OBVIOUS
  <2>. QED
    BY <1>1, <2>3, <2>4
<1>3. ASSUME NEW p \in Path, p # <<>>, p # t, IsPrefix(p, t) PROVE p \in Above(t)
  <2>1. Len(p) \in 0 .. Len(t) /\ p = SubSeq(t, 1, Len(p))
    BY <1>3, PrefixIsSub
  <2>2. Len(p) # 0
    BY <1>3 DEF Path
  <2>3. Len(p) # Len(t)
    BY <1>3, <2>1, PrefixSelf
  <2>4. Len(p) \in 1 .. Len(t) - 1
    BY <1>1, <2>1, <2>2, <2>3
  <2>. QED
    BY <2>1, <2>4 DEF Above
<1>. QED
  BY <1>2, <1>3

-----------------------------------------------------------------------------
(* Directories created on the way down *)

LEMMA InitialSegment ==
  ASSUME NEW L \in Nat, NEW N \in SUBSET (0 .. L), 0 \in N, \A n \in N : 0 .. n \subseteq N
  PROVE  \E m \in N : \A n \in N : n <= m
<1> DEFINE m == Cardinality(N) - 1
<1>1. IsFiniteSet(N)
  <2>1. IsFiniteSet(0 .. L)
    BY FS_Interval
  <2>. QED
    BY <2>1, FS_Subset
<1>2. Cardinality(N) \in Nat
  BY <1>1, FS_CardinalityType
<1>3. ASSUME NEW n \in N PROVE n <= m
  <2>1. n \in Nat
    OBVIOUS
  <2>2. Cardinality(0 .. n) = n + 1
    BY <2>1, FS_Interval
  <2>3. Cardinality(0 .. n) <= Cardinality(N)
    BY <1>1, FS_Subset
  <2>. QED
    BY <1>2, <2>1, <2>2, <2>3
<1>4. m \in Nat
  BY <1>2, <1>3
<1>5. N \in SUBSET (0 .. m)
  BY <1>3, <1>4
<1>6. IsFiniteSet(0 .. m) /\ Cardinality(0 .. m) = m + 1
  BY <1>4, FS_Interval
<1>7. N = 0 .. m
  <2>1. Cardinality(0 .. m) = Cardinality(N)
    BY <1>2, <1>6
  <2>. QED
    BY <1>5, <1>6, <2>1, FS_Subset
<1>8. m \in N
  BY <1>4, <1>7
<1>. QED
  BY <1>3, <1>8

Existing(tree, p) == { SubSeq(p, 1, n) : n \in 0 .. Len(p) } \cap Directories(tree)

(* The nearest directory above a path that exists already *)
LEMMA NearestDirectory ==
  ASSUME NEW tree, Closed(tree), NEW p \in Path
  PROVE  LET q == Longest(Existing(tree, p))
         IN  /\ q \in Directories(tree) /\ q \in Path /\ IsPrefix(q, p)
             /\ p \in Directories(tree) => q = p
<1> DEFINE N == { n \in 0 .. Len(p) : SubSeq(p, 1, n) \in Directories(tree) }
           S == Existing(tree, p)
           q == Longest(S)
<1>1. Len(p) \in Nat
  BY DEF Path
<1>2. 0 \in N
  <2>1. SubSeq(p, 1, 0) = <<>>
    BY DEF Path
  <2>2. SubSeq(p, 1, 0) \in Directories(tree)
    BY <2>1, Zenon DEF Closed
  <2>3. 0 \in 0 .. Len(p)
    BY <1>1
  <2>. QED
    BY <2>2, <2>3
<1>3. ASSUME NEW n \in N PROVE 0 .. n \subseteq N
  <2> SUFFICES ASSUME NEW k \in 0 .. n, k # n PROVE k \in N
    OBVIOUS
  <2>1. n \in 0 .. Len(p) /\ k \in 0 .. Len(p) /\ k \in 0 .. n - 1
    BY <1>1
  <2>2. Len(SubSeq(p, 1, n)) = n /\ SubSeq(SubSeq(p, 1, n), 1, k) = SubSeq(p, 1, k)
    <3>1. Len(SubSeq(p, 1, n)) = n
      BY <2>1, SubPath
    <3>2. SubSeq(SubSeq(p, 1, n), 1, k) = SubSeq(p, 1, k)
      BY <2>1, SubOfSub
    <3>. QED
      BY <3>1, <3>2
  <2>3. SubSeq(SubSeq(p, 1, n), 1, k) \in Directories(tree)
    BY <2>1, <2>2 DEF Closed
  <2>. QED
    BY <2>1, <2>2, <2>3
<1>4. PICK m \in N : \A n \in N : n <= m
  BY <1>1, <1>2, <1>3, InitialSegment
<1>5. /\ SubSeq(p, 1, m) \in S
      /\ \A r \in S : Len(r) <= Len(SubSeq(p, 1, m))
  BY <1>4, SubPath DEF Existing
<1>6. q \in S /\ \A r \in S : Len(r) <= Len(q)
  BY <1>5 DEF Longest
<1> HIDE DEF q
<1>7. q \in Directories(tree) /\ q \in Path /\ IsPrefix(q, p)
  BY <1>6, SubPath DEF Existing
<1>8. ASSUME p \in Directories(tree) PROVE q = p
  <2>1. Len(p) \in 0 .. Len(p) /\ SubSeq(p, 1, Len(p)) = p
    BY <1>1, PrefixSelf
  <2>2. p \in S
    BY <1>8, <2>1 DEF Existing
  <2>. QED
    BY <1>6, <1>7, <2>2, PrefixSameLength
<1>. QED
  BY <1>7, <1>8 DEF q

LEMMA TreeMaps ==
  ASSUME NEW tree \in Trees
  PROVE  /\ Directories(tree) \in SUBSET Path /\ tree.roles \in [Directories(tree) -> SUBSET STRING]
         /\ Files(tree) \in SUBSET Path /\ tree.files \in [Files(tree) -> STRING]
<1>1. tree.roles \in RoleMaps /\ tree.files \in FileMaps
  BY DEF Trees
<1>2. PICK D \in SUBSET Path : tree.roles \in [D -> SUBSET STRING]
  BY <1>1 DEF RoleMaps
<1>3. PICK F \in SUBSET Path : tree.files \in [F -> STRING]
  BY <1>1 DEF FileMaps
<1>. QED
  BY <1>2, <1>3 DEF Directories, Files

LEMMA WithRoles ==
  ASSUME NEW tree \in Trees, NEW D \in SUBSET Path, NEW r \in [D -> SUBSET STRING]
  PROVE  LET new == [tree EXCEPT !.roles = r]
         IN  /\ new \in Trees /\ new.roles = r /\ Directories(new) = D
             /\ new.files = tree.files /\ Files(new) = Files(tree)
             /\ new.described = tree.described
<1>1. r \in RoleMaps
  BY DEF RoleMaps
<1>. QED
  BY <1>1 DEF Trees, Directories, Files

(* The directories above a line's path are there, with roles of those above *)
LEMMA CreatesDirectories ==
  ASSUME NEW tree, Closed(tree), NEW t \in Path, Above(t) \cap Files(tree) = {}
  PROVE  LET new == WithDirectories(tree, Above(t))
         IN  /\ Closed(new)
             /\ Directories(new) = Directories(tree) \cup Above(t)
             /\ new.files = tree.files /\ new.described = tree.described
             /\ \A p \in Directories(tree) : new.roles[p] = tree.roles[p]
             /\ \A p \in Directories(new) :
                  \E q \in Directories(tree) : IsPrefix(q, p) /\ new.roles[p] = tree.roles[q]
<1> DEFINE D == Directories(tree) \cup Above(t)
           r == [p \in D |-> tree.roles[Longest(Existing(tree, p))]]
           new == WithDirectories(tree, Above(t))
<1>1. /\ tree \in Trees
      /\ Directories(tree) \in SUBSET Path /\ tree.roles \in [Directories(tree) -> SUBSET STRING]
      /\ Files(tree) \in SUBSET Path
  BY TreeMaps DEF Closed
<1>2. D \in SUBSET Path
  BY <1>1, AbovePath
<1>3. ASSUME NEW p \in D
      PROVE  LET q == Longest(Existing(tree, p))
             IN  /\ q \in Directories(tree) /\ IsPrefix(q, p) /\ tree.roles[q] \in SUBSET STRING
                 /\ p \in Directories(tree) => q = p
  BY <1>1, <1>2, NearestDirectory
<1>4. r \in [D -> SUBSET STRING]
  BY <1>3
<1>5. new = [tree EXCEPT !.roles = r]
  BY DEF WithDirectories, Existing
<1>6. /\ new \in Trees /\ new.roles = r /\ Directories(new) = D
      /\ new.files = tree.files /\ Files(new) = Files(tree) /\ new.described = tree.described
  <2> HIDE DEF r
  <2>. QED
    BY <1>1, <1>2, <1>4, <1>5, WithRoles
<1> HIDE DEF new
<1>7. \A p \in Directories(tree) : new.roles[p] = tree.roles[p]
  BY <1>3, <1>6
<1>8. \A p \in Directories(new) : \E q \in Directories(tree) : IsPrefix(q, p) /\ new.roles[p] = tree.roles[q]
  BY <1>3, <1>6
<1>9. ASSUME NEW p \in Directories(new) \cup Files(new), NEW n \in 0 .. Len(p) - 1
      PROVE  SubSeq(p, 1, n) \in Directories(new)
  <2>1. CASE p \in Directories(tree) \cup Files(tree)
    BY <1>6, <2>1 DEF Closed
  <2>2. CASE p \in Above(t)
    <3>1. p \in Path /\ IsPrefix(p, t) /\ p # t /\ Len(p) \in Nat
      BY <2>2, AbovePath DEF Path
    <3>2. n \in 0 .. Len(p)
      BY <3>1
    <3> DEFINE u == SubSeq(p, 1, n)
    <3>3. u \in Path /\ Len(u) = n /\ IsPrefix(u, p)
      BY <3>1, <3>2, SubPath
    <3>4. IsPrefix(u, t)
      BY <3>1, <3>3, PrefixTrans
    <3>5. u # t
      <4>1. Len(p) <= Len(t)
        BY <3>1, PrefixByNames
      <4>2. Len(t) \in Nat
        BY DEF Path
      <4>. QED
        BY <3>1, <3>3, <4>1, <4>2
    <3>6. u = <<>> \/ u \in Above(t)
      BY <3>3, <3>4, <3>5, AbovePath
    <3>. QED
      BY <1>6, <3>6 DEF Closed
  <2>. QED
    BY <1>6, <2>1, <2>2
<1>10. Closed(new)
  BY <1>6, <1>9 DEF Closed
<1>. QED
  BY <1>6, <1>7, <1>8, <1>10 DEF new

-----------------------------------------------------------------------------
(* One line *)

(* The tree has grown by the line and the directories above it *)
GrownBy(tree, new, l) ==
  /\ Closed(new)
  /\ Directories(tree) \subseteq Directories(new) /\ Files(tree) \subseteq Files(new)
  /\ \A p \in Directories(new) \cup Files(new) :
       p \in Directories(tree) \cup Files(tree) \/ IsPrefix(p, l.path)
  /\ \A p \in Directories(tree) : tree.roles[p] \subseteq new.roles[p]
  /\ IsDirectory(l) => l.path \in Directories(new) /\ l.roles \subseteq new.roles[l.path]
  /\ ~IsDirectory(l) => l.path \in Files(new)
  /\ \A p \in Directories(new) :
       \E q \in Directories(tree) :
         /\ IsPrefix(q, p)
         /\ new.roles[p] \subseteq tree.roles[q] \cup {r \in l.roles : p = l.path /\ IsDirectory(l)}

LEMMA ParentPath ==
  ASSUME NEW t \in Path, t # <<>>
  PROVE  /\ Parent(t) \in Path /\ IsPrefix(Parent(t), t) /\ Len(Parent(t)) = Len(t) - 1 /\ Len(t) >= 1
         /\ Parent(t) = <<>> \/ Parent(t) \in Above(t)
<1>1. Len(t) \in Nat /\ Len(t) # 0
  BY DEF Path
<1>2. Len(t) - 1 \in 0 .. Len(t) /\ Parent(t) = SubSeq(t, 1, Len(t) - 1)
  BY <1>1 DEF Parent, Front
<1>3. Parent(t) \in Path /\ IsPrefix(Parent(t), t) /\ Len(Parent(t)) = Len(t) - 1
  BY <1>2, SubPath
<1>4. Parent(t) # t
  BY <1>1, <1>3
<1>. QED
  BY <1>1, <1>3, <1>4, AbovePath

(* A path all of whose proper prefixes are directories can be added *)
LEMMA PrefixesOfLine ==
  ASSUME NEW D \in SUBSET Path, <<>> \in D, NEW t \in Path, Above(t) \subseteq D,
         NEW n \in 0 .. Len(t) - 1
  PROVE  SubSeq(t, 1, n) \in D
<1>1. Len(t) \in Nat /\ n \in 0 .. Len(t)
  BY DEF Path
<1>2. SubSeq(t, 1, n) \in Path /\ IsPrefix(SubSeq(t, 1, n), t) /\ Len(SubSeq(t, 1, n)) = n
  BY <1>1, SubPath
<1>3. SubSeq(t, 1, n) # t
  BY <1>1, <1>2
<1>. QED
  BY <1>2, <1>3, AbovePath

(* The roles are those below with some more for one directory *)
LEMMA DirectoryAdded ==
  ASSUME NEW b, Closed(b), NEW l \in Line, IsDirectory(l), l.path # <<>>,
         l.path \notin Files(b), Above(l.path) \subseteq Directories(b),
         NEW q \in Directories(b), IsPrefix(q, l.path),
         l.path \in Directories(b) => q = l.path,
         NEW new \in Trees, Files(new) = Files(b),
         new.roles = Put(b.roles, l.path, b.roles[q] \cup l.roles)
  PROVE  GrownBy(b, new, l)
<1> DEFINE t == l.path
           D == Directories(b)
<1>1. t \in Path /\ l.roles \in SUBSET STRING
  BY DEF Line
<1>2. b \in Trees /\ D \in SUBSET Path /\ b.roles \in [D -> SUBSET STRING] /\ Files(b) \in SUBSET Path
  BY TreeMaps DEF Closed
<1>3. b.roles[q] \cup l.roles \in SUBSET STRING
  BY <1>1, <1>2
<1>4. /\ new.roles \in [D \cup {t} -> SUBSET STRING]
      /\ new.roles[t] = b.roles[q] \cup l.roles
      /\ \A p \in D : p # t => new.roles[p] = b.roles[p]
  <2> DEFINE v == b.roles[q] \cup l.roles
             m == Put(b.roles, t, v)
  <2>1. new.roles = m
    OBVIOUS
  <2>2. b.roles \in [D -> SUBSET STRING] /\ v \in SUBSET STRING
    BY <1>2, <1>3
  <2> HIDE DEF D, t, v
  <2>3. m \in [D \cup {t} -> SUBSET STRING] /\ m[t] = v /\ \A p \in D : p # t => m[p] = b.roles[p]
    BY <2>2 DEF Put
  <2> HIDE DEF m
  <2>. QED
    BY <2>1, <2>3 DEF v
<1>5. Directories(new) = D \cup {t}
  BY <1>4 DEF Directories
<1>6. ASSUME NEW p \in Directories(new) \cup Files(new), NEW n \in 0 .. Len(p) - 1
      PROVE  SubSeq(p, 1, n) \in Directories(new)
  <2>1. CASE p \in D \cup Files(b)
    BY <1>5, <2>1 DEF Closed
  <2>2. CASE p = t
    <3>1. <<>> \in D /\ n \in 0 .. Len(t) - 1
      BY <2>2 DEF Closed
    <3>2. SubSeq(t, 1, n) \in D
      BY <1>1, <1>2, <3>1, PrefixesOfLine
    <3>. QED
      BY <1>5, <2>2, <3>2
  <2>. QED
    BY <1>5, <2>1, <2>2
<1>7. Closed(new)
  BY <1>5, <1>6 DEF Closed
<1>8. \A p \in Directories(new) \cup Files(new) : p \in D \cup Files(b) \/ IsPrefix(p, t)
  BY <1>1, <1>5, PrefixSelf
<1>9. \A p \in D : b.roles[p] \subseteq new.roles[p]
  BY <1>4
<1>10. ASSUME NEW p \in Directories(new)
       PROVE  \E r \in D : /\ IsPrefix(r, p)
                           /\ new.roles[p] \subseteq b.roles[r] \cup {x \in l.roles : p = l.path /\ IsDirectory(l)}
  <2>1. CASE p = t
    <3>1. {x \in l.roles : p = l.path /\ IsDirectory(l)} = l.roles
      BY <2>1
    <3>2. IsPrefix(q, p) /\ new.roles[p] = b.roles[q] \cup l.roles
      BY <1>4, <2>1
    <3>. QED
      BY <3>1, <3>2
  <2>2. CASE p # t
    <3>1. p \in D /\ p \in Path
      BY <1>2, <1>5, <2>2
    <3>2. IsPrefix(p, p) /\ new.roles[p] = b.roles[p]
      BY <1>4, <2>2, <3>1, PrefixSelf
    <3>. QED
      BY <3>1, <3>2
  <2>. QED
    BY <2>1, <2>2
<1>. QED
  BY <1>4, <1>5, <1>7, <1>8, <1>9, <1>10 DEF GrownBy

LEMMA FileAdded ==
  ASSUME NEW b, Closed(b), NEW l \in Line, ~IsDirectory(l), l.path # <<>>,
         l.path \notin Directories(b), Above(l.path) \subseteq Directories(b),
         NEW new \in Trees, new.roles = b.roles, Files(new) = Files(b) \cup {l.path}
  PROVE  GrownBy(b, new, l)
<1> DEFINE t == l.path
           D == Directories(b)
<1>1. t \in Path
  BY DEF Line
<1>2. D \in SUBSET Path /\ Files(b) \in SUBSET Path /\ Directories(new) = D
  BY TreeMaps DEF Closed, Directories
<1>3. ASSUME NEW p \in Directories(new) \cup Files(new), NEW n \in 0 .. Len(p) - 1
      PROVE  SubSeq(p, 1, n) \in Directories(new)
  <2>1. CASE p \in D \cup Files(b)
    BY <1>2, <2>1 DEF Closed
  <2>2. CASE p = t
    <3>1. <<>> \in D /\ n \in 0 .. Len(t) - 1
      BY <2>2 DEF Closed
    <3>2. SubSeq(t, 1, n) \in D
      BY <1>1, <1>2, <3>1, PrefixesOfLine
    <3>. QED
      BY <1>2, <2>2, <3>2
  <2>. QED
    BY <1>2, <2>1, <2>2
<1>4. Closed(new)
  BY <1>2, <1>3 DEF Closed
<1>5. \A p \in Directories(new) \cup Files(new) : p \in D \cup Files(b) \/ IsPrefix(p, t)
  BY <1>1, <1>2, PrefixSelf
<1>6. \A p \in D : IsPrefix(p, p)
  BY <1>2, PrefixSelf
<1>. QED
  BY <1>2, <1>4, <1>5, <1>6 DEF GrownBy

LEMMA ErrorFails == Failed(Error)
BY DEF Failed, Error

(* The directories on the way and the line together *)
LEMMA GrownThrough ==
  ASSUME NEW tree, Closed(tree), NEW l \in Line, Above(l.path) \cap Files(tree) = {},
         NEW new, GrownBy(WithDirectories(tree, Above(l.path)), new, l)
  PROVE  GrownBy(tree, new, l)
<1> DEFINE t == l.path
           b == WithDirectories(tree, Above(t))
<1>1. t \in Path
  BY DEF Line
<1>2. /\ Closed(b)
      /\ Directories(b) = Directories(tree) \cup Above(t)
      /\ b.files = tree.files
      /\ \A p \in Directories(tree) : b.roles[p] = tree.roles[p]
      /\ \A p \in Directories(b) :
           \E q \in Directories(tree) : IsPrefix(q, p) /\ b.roles[p] = tree.roles[q]
  BY <1>1, CreatesDirectories
<1>3. GrownBy(b, new, l)
  OBVIOUS
<1> HIDE DEF b
<1>4. Files(b) = Files(tree)
  BY <1>2 DEF Files
<1>5. \A p \in Above(t) : IsPrefix(p, t)
  BY <1>1, AbovePath
<1>6. \A p \in Directories(new) \cup Files(new) :
        p \in Directories(tree) \cup Files(tree) \/ IsPrefix(p, t)
  BY <1>2, <1>3, <1>4, <1>5 DEF GrownBy
<1>7. /\ Directories(tree) \subseteq Directories(new) /\ Files(tree) \subseteq Files(new)
      /\ \A p \in Directories(tree) : tree.roles[p] \subseteq new.roles[p]
  BY <1>2, <1>3, <1>4 DEF GrownBy
<1>8. ASSUME NEW p \in Directories(new)
      PROVE  \E q \in Directories(tree) :
               /\ IsPrefix(q, p)
               /\ new.roles[p] \subseteq tree.roles[q] \cup {r \in l.roles : p = l.path /\ IsDirectory(l)}
  <2>1. PICK r \in Directories(b) :
          /\ IsPrefix(r, p)
          /\ new.roles[p] \subseteq b.roles[r] \cup {x \in l.roles : p = l.path /\ IsDirectory(l)}
    BY <1>3 DEF GrownBy
  <2>2. PICK q \in Directories(tree) : IsPrefix(q, r) /\ b.roles[r] = tree.roles[q]
    BY <1>2
  <2>3. q \in Path /\ r \in Path /\ p \in Path
    BY <1>2, <1>3, TreeMaps DEF Closed, GrownBy
  <2>4. IsPrefix(q, p)
    BY <2>1, <2>2, <2>3, PrefixTrans
  <2>. QED
    BY <2>1, <2>2, <2>4
<1>. QED
  BY <1>3, <1>6, <1>7, <1>8 DEF GrownBy

(* addFile, if it throws no exception *)
LEMMA AddFileGrows ==
  ASSUME NEW tree, Closed(tree), NEW l \in Line, ~Failed(AddFile(tree, l))
  PROVE  l.path # <<>> /\ GrownBy(tree, AddFile(tree, l), l)
<1> DEFINE t == l.path
           b == WithDirectories(tree, Above(t))
           new == AddFile(tree, l)
<1>1. /\ t # <<>> /\ Above(t) \cap Files(tree) = {}
      /\ new = IF IsDirectory(l) THEN AddDirectory(b, l) ELSE AddNewFile(b, l)
  BY ErrorFails DEF AddFile
<1>2. t \in Path /\ l.roles \in SUBSET STRING /\ l.real_path \in STRING
  BY DEF Line
<1>3. Closed(b) /\ Directories(b) = Directories(tree) \cup Above(t) /\ b.files = tree.files
  BY <1>1, <1>2, CreatesDirectories
<1> HIDE DEF b
<1>4. /\ b \in Trees /\ Directories(b) \in SUBSET Path /\ b.roles \in [Directories(b) -> SUBSET STRING]
      /\ Files(b) \in SUBSET Path /\ b.files \in [Files(b) -> STRING]
  BY <1>3, TreeMaps DEF Closed
<1>5. ASSUME NEW a \in Trees, SetRealPath(a, l) = new
      PROVE  new \in Trees /\ new.roles = a.roles /\ new.files = a.files
  BY <1>2, <1>5 DEF SetRealPath, Trees
<1>6. CASE IsDirectory(l)
  <2>1. new = AddDirectory(b, l)
    BY <1>1, <1>6
  <2>2. t \notin Files(b)
    BY <2>1, ErrorFails DEF AddDirectory
  <2>3. CASE t \in Directories(b)
    <3> DEFINE r == [b.roles EXCEPT ![t] = @ \cup l.roles]
               a == [b EXCEPT !.roles = r]
    <3>1. new = SetRealPath(a, l)
      BY <2>1, <2>2, <2>3, ErrorFails DEF AddDirectory
    <3>2. r = Put(b.roles, t, b.roles[t] \cup l.roles)
      BY <1>2, <1>4, <2>3 DEF Put
    <3>2a. r \in [Directories(b) -> SUBSET STRING]
      BY <1>2, <1>4, <2>3
    <3>3. a \in Trees /\ a.roles = r /\ a.files = b.files
      <4> HIDE DEF r
      <4>. QED
        BY <1>4, <3>2a, WithRoles
    <3> HIDE DEF a
    <3>4. new \in Trees /\ new.roles = r /\ Files(new) = Files(b)
      BY <1>5, <3>1, <3>3 DEF Files
    <3>5. IsPrefix(t, t)
      BY <1>2, PrefixSelf
    <3>6. GrownBy(b, new, l)
      BY <1>1, <1>3, <1>6, <2>2, <2>3, <3>2, <3>4, <3>5, DirectoryAdded
    <3>. QED
      BY <1>1, <3>6, GrownThrough DEF b
  <2>4. CASE t \notin Directories(b)
    <3> DEFINE q == Parent(t)
               r == Put(b.roles, t, b.roles[q] \cup l.roles)
               a == [b EXCEPT !.roles = r]
    <3>1. new = SetRealPath(a, l)
      BY <2>1, <2>2, <2>4, ErrorFails DEF AddDirectory, NewDirectory
    <3>2. q \in Directories(b) /\ IsPrefix(q, t)
      BY <1>1, <1>2, <1>3, ParentPath DEF Closed
    <3> HIDE DEF q
    <3>3. r \in [Directories(b) \cup {t} -> SUBSET STRING] /\ Directories(b) \cup {t} \in SUBSET Path
      BY <1>2, <1>4, <3>2 DEF Put
    <3>4. a \in Trees /\ a.roles = r /\ a.files = b.files
      <4> HIDE DEF r
      <4>. QED
        BY <1>4, <3>3, WithRoles
    <3> HIDE DEF a
    <3>5. new \in Trees /\ new.roles = r /\ Files(new) = Files(b)
      BY <1>5, <3>1, <3>4 DEF Files
    <3>6. GrownBy(b, new, l)
      BY <1>1, <1>3, <1>6, <2>2, <2>4, <3>2, <3>5, DirectoryAdded
    <3>. QED
      BY <1>1, <3>6, GrownThrough DEF b
  <2>. QED
    BY <2>3, <2>4
<1>7. CASE ~IsDirectory(l)
  <2> DEFINE m == Put(b.files, t, l.real_path)
  <2>1. t \notin Files(b) \cup Directories(b) /\ new = [b EXCEPT !.files = m]
    BY <1>1, <1>7, ErrorFails DEF AddNewFile
  <2>2. m \in [Files(b) \cup {t} -> STRING] /\ Files(b) \cup {t} \in SUBSET Path
    BY <1>2, <1>4 DEF Put
  <2> HIDE DEF m
  <2>3. m \in FileMaps
    BY <2>2 DEF FileMaps
  <2>4. new \in Trees /\ new.files = m /\ new.roles = b.roles
    BY <1>4, <2>1, <2>3 DEF Trees
  <2>5. Files(new) = Files(b) \cup {t}
    BY <2>2, <2>4 DEF Files
  <2>6. GrownBy(b, new, l)
    BY <1>1, <1>3, <1>7, <2>1, <2>4, <2>5, FileAdded
  <2>. QED
    BY <1>1, <2>6, GrownThrough DEF b
<1>. QED
  BY <1>6, <1>7

-----------------------------------------------------------------------------
(* The tree reflects its lines *)

LEMMA OneMoreLine ==
  ASSUME NEW ls \in Seq(Line), NEW l \in Line
  PROVE  ToSet(Append(ls, l)) = ToSet(ls) \cup {l}
<1>1. /\ DOMAIN Append(ls, l) = 1 .. Len(ls) + 1 /\ DOMAIN ls = 1 .. Len(ls) /\ Len(ls) \in Nat
      /\ Append(ls, l)[Len(ls) + 1] = l
      /\ \A i \in 1 .. Len(ls) : Append(ls, l)[i] = ls[i]
  OBVIOUS
<1>. QED
  BY <1>1 DEF ToSet

LEMMA LinesAreLines ==
  ASSUME NEW ls \in Seq(Line)
  PROVE  ToSet(ls) \in SUBSET Line
BY DEF ToSet

(* Roles declared for a directory are declared for what is below it *)
LEMMA RolesBelow ==
  ASSUME NEW ls \in Seq(Line), NEW d \in Path, NEW p \in Path, IsPrefix(d, p)
  PROVE  DeclaredRoles(ls, d) \subseteq DeclaredRoles(ls, p)
<1> SUFFICES ASSUME NEW l \in ToSet(ls), IsDirectory(l), IsPrefix(l.path, d)
             PROVE  IsPrefix(l.path, p)
  BY DEF DeclaredRoles
<1>1. l.path \in Path
  BY LinesAreLines DEF Line
<1>. QED
  BY <1>1, PrefixTrans

LEMMA ReflectsNothing == Reflects(EmptyRoot, <<>>)
<1>1. /\ Directories(EmptyRoot) = {<<>>} /\ Files(EmptyRoot) = {}
      /\ EmptyRoot.roles[<<>>] = {} /\ <<>> \in Path
  BY DEF EmptyRoot, Directories, Files, Path
<1>2. EmptyRoot \in Trees
  <2>1. EmptyRoot.roles \in [{<<>>} -> SUBSET STRING] /\ {<<>>} \in SUBSET Path
    BY <1>1 DEF EmptyRoot
  <2>2. EmptyRoot.files \in [{} -> STRING] /\ {} \in SUBSET Path
    BY DEF EmptyRoot
  <2>3. EmptyRoot.roles \in RoleMaps /\ EmptyRoot.files \in FileMaps
    BY <2>1, <2>2 DEF RoleMaps, FileMaps
  <2>. QED
    BY <2>3 DEF Trees, EmptyRoot
<1>3. Closed(EmptyRoot)
  <2>1. Len(<<>>) = 0
    OBVIOUS
  <2>. QED
    BY <1>1, <1>2, <2>1 DEF Closed
<1>4. ToSet(<<>>) = {}
  BY DEF ToSet
<1>. QED
  BY <1>1, <1>3, <1>4 DEF Reflects, Exists

(* One more line, of any kind and in any place *)
LEMMA ReflectsOneMore ==
  ASSUME NEW ls \in Seq(Line), NEW tree, Reflects(tree, ls), NEW l \in Line,
         ~Failed(AddFile(tree, l))
  PROVE  Reflects(AddFile(tree, l), Append(ls, l))
<1> DEFINE new == AddFile(tree, l)
           more == Append(ls, l)
<1>1. l.path # <<>> /\ GrownBy(tree, new, l)
  BY AddFileGrows DEF Reflects
<1>2. ToSet(more) = ToSet(ls) \cup {l} /\ l.path \in Path /\ more \in Seq(Line)
  <2>1. l.path \in Path
    BY DEF Line
  <2>. QED
    BY <2>1, OneMoreLine
<1> HIDE DEF new, more
<1>3. Closed(new)
  BY <1>1 DEF GrownBy
<1>4. ASSUME NEW p \in Directories(new) \cup Files(new) PROVE Exists(more, p)
  <2>1. CASE p \in Directories(tree) \cup Files(tree)
    BY <1>2, <2>1 DEF Reflects, Exists
  <2>2. CASE IsPrefix(p, l.path)
    BY <1>2, <2>2 DEF Exists
  <2>. QED
    BY <1>1, <2>1, <2>2 DEF GrownBy
<1>5. ASSUME NEW k \in ToSet(more)
      PROVE  /\ k \in Line /\ k.path # <<>>
             /\ IsDirectory(k) => k.path \in Directories(new) /\ k.roles \subseteq new.roles[k.path]
             /\ ~IsDirectory(k) => k.path \in Files(new)
  <2>1. CASE k = l
    BY <1>1, <2>1 DEF GrownBy
  <2>2. CASE k \in ToSet(ls)
    <3>1. /\ k \in Line /\ k.path # <<>>
          /\ IsDirectory(k) => k.path \in Directories(tree) /\ k.roles \subseteq tree.roles[k.path]
          /\ ~IsDirectory(k) => k.path \in Files(tree)
      BY <2>2 DEF Reflects
    <3>2. /\ Directories(tree) \subseteq Directories(new) /\ Files(tree) \subseteq Files(new)
          /\ \A p \in Directories(tree) : tree.roles[p] \subseteq new.roles[p]
      BY <1>1 DEF GrownBy
    <3>. QED
      BY <3>1, <3>2
  <2>. QED
    BY <1>2, <2>1, <2>2
<1>6. ASSUME NEW d \in Directories(new) PROVE new.roles[d] \subseteq DeclaredRoles(more, d)
  <2>1. PICK q \in Directories(tree) :
          /\ IsPrefix(q, d)
          /\ new.roles[d] \subseteq tree.roles[q] \cup {r \in l.roles : d = l.path /\ IsDirectory(l)}
    BY <1>1 DEF GrownBy
  <2>2. q \in Path /\ d \in Path
    BY <1>3, TreeMaps DEF Closed, Reflects
  <2>3. tree.roles[q] \subseteq DeclaredRoles(more, d)
    <3>1. tree.roles[q] \subseteq DeclaredRoles(ls, q)
      BY DEF Reflects
    <3>2. DeclaredRoles(ls, q) \subseteq DeclaredRoles(ls, d)
      BY <2>1, <2>2, RolesBelow
    <3>3. DeclaredRoles(ls, d) \subseteq DeclaredRoles(more, d)
      BY <1>2 DEF DeclaredRoles
    <3>. QED
      BY <3>1, <3>2, <3>3
  <2>4. {r \in l.roles : d = l.path /\ IsDirectory(l)} \subseteq DeclaredRoles(more, d)
    <3> SUFFICES ASSUME NEW r \in l.roles, d = l.path, IsDirectory(l) PROVE r \in DeclaredRoles(more, d)
      OBVIOUS
    <3>1. l \in ToSet(more) /\ IsPrefix(l.path, d)
      BY <1>2, PrefixSelf
    <3>. QED
      BY <3>1 DEF DeclaredRoles
  <2>. QED
    BY <2>1, <2>3, <2>4
<1>. QED
  BY <1>3, <1>4, <1>5, <1>6 DEF Reflects, new, more

-----------------------------------------------------------------------------
(* Who sees what *)

(* A user has the roles of every directory on the way to a path *)
Passes(tree, p, has) ==
  \A d \in Directories(tree) : IsPrefix(d, p) => CanAccess(tree, d, has)

LEMMA TreePaths ==
  ASSUME NEW tree, Closed(tree)
  PROVE  /\ Directories(tree) \in SUBSET Path /\ Files(tree) \in SUBSET Path
         /\ \A p \in Directories(tree) \cup Files(tree), q \in Path :
              IsPrefix(q, p) => q = p \/ q \in Directories(tree)
         /\ \A p \in Directories(tree) \cup Files(tree) :
              p # <<>> => Parent(p) \in Directories(tree)
<1>1. Directories(tree) \in SUBSET Path /\ Files(tree) \in SUBSET Path
  BY TreeMaps DEF Closed
<1>2. ASSUME NEW p \in Directories(tree) \cup Files(tree), NEW q \in Path, IsPrefix(q, p), q # p
      PROVE  q \in Directories(tree)
  <2>1. p \in Path /\ Len(p) \in Nat
    BY <1>1 DEF Path
  <2>2. Len(q) \in 0 .. Len(p) /\ q = SubSeq(p, 1, Len(q))
    BY <1>2, <2>1, PrefixIsSub
  <2>3. Len(q) # Len(p)
    BY <1>2, <2>1, <2>2, PrefixSelf
  <2>4. Len(q) \in 0 .. Len(p) - 1
    BY <2>1, <2>2, <2>3
  <2>. QED
    BY <2>2, <2>4 DEF Closed
<1>3. ASSUME NEW p \in Directories(tree) \cup Files(tree), p # <<>> PROVE Parent(p) \in Directories(tree)
  <2>1. p \in Path
    BY <1>1
  <2>2. Len(p) \in Nat /\ Len(Parent(p)) = Len(p) - 1 /\ Parent(p) \in Path /\ IsPrefix(Parent(p), p)
    BY <1>3, <2>1, ParentPath DEF Path
  <2>3. Parent(p) # p
    BY <2>2
  <2>. QED
    BY <1>2, <2>2, <2>3
<1>. QED
  BY <1>1, <1>2, <1>3

LEMMA ExistsExactly ==
  ASSUME NEW ls \in Seq(Line), NEW tree, Reflects(tree, ls), NEW p \in Path
  PROVE  Exists(ls, p) <=> p \in Directories(tree) \cup Files(tree)
<1>1. Closed(tree)
  BY DEF Reflects
<1>2. ASSUME NEW l \in ToSet(ls), IsPrefix(p, l.path) PROVE p \in Directories(tree) \cup Files(tree)
  <2>1. l.path \in Directories(tree) \cup Files(tree)
    BY DEF Reflects
  <2>. QED
    BY <1>1, <1>2, <2>1, TreePaths
<1>3. <<>> \in Directories(tree)
  BY <1>1 DEF Closed
<1>. QED
  BY <1>2, <1>3 DEF Reflects, Exists

LEMMA DeclaredExactly ==
  ASSUME NEW ls \in Seq(Line), NEW tree, Reflects(tree, ls), NEW has,
         NEW p \in Directories(tree) \cup Files(tree)
  PROVE  DeclaredRoles(ls, p) \subseteq has <=> Passes(tree, p, has)
<1>1. Closed(tree) /\ p \in Path
  BY TreePaths DEF Reflects
<1>2. ASSUME DeclaredRoles(ls, p) \subseteq has, NEW d \in Directories(tree), IsPrefix(d, p)
      PROVE  CanAccess(tree, d, has)
  <2>1. d \in Path
    BY <1>1, TreePaths
  <2>2. tree.roles[d] \subseteq DeclaredRoles(ls, d)
    BY DEF Reflects
  <2>3. DeclaredRoles(ls, d) \subseteq DeclaredRoles(ls, p)
    BY <1>1, <1>2, <2>1, RolesBelow
  <2>. QED
    BY <1>2, <2>2, <2>3 DEF CanAccess
<1>3. ASSUME Passes(tree, p, has), NEW l \in ToSet(ls), IsDirectory(l), IsPrefix(l.path, p)
      PROVE  l.roles \subseteq has
  <2>1. l.path \in Directories(tree) /\ l.roles \subseteq tree.roles[l.path]
    BY <1>3 DEF Reflects
  <2>2. CanAccess(tree, l.path, has)
    BY <1>3, <2>1 DEF Passes
  <2>. QED
    BY <2>1, <2>2 DEF CanAccess
<1>4. ASSUME Passes(tree, p, has) PROVE DeclaredRoles(ls, p) \subseteq has
  BY <1>3, <1>4 DEF DeclaredRoles
<1>. QED
  BY <1>2, <1>4 DEF Passes

LEMMA MayAccessExactly ==
  ASSUME NEW ls \in Seq(Line), NEW tree, Reflects(tree, ls), NEW has, NEW p \in Path
  PROVE  MayAccess(ls, p, has) <=> p \in Directories(tree) \cup Files(tree) /\ Passes(tree, p, has)
BY ExistsExactly, DeclaredExactly DEF MayAccess

(* Nobody needs a role for the root directory *)
LEMMA RootOpen ==
  ASSUME NEW ls \in Seq(Line), NEW tree, Reflects(tree, ls), NEW has
  PROVE  CanAccess(tree, <<>>, has)
<1>1. ASSUME NEW l \in ToSet(ls) PROVE ~IsPrefix(l.path, <<>>)
  <2>1. l.path \in Path /\ l.path # <<>>
    BY DEF Reflects, Line
  <2>2. Len(l.path) \in Nat /\ Len(l.path) # 0 /\ Len(<<>>) = 0
    BY <2>1 DEF Path
  <2>. QED
    BY <2>2 DEF IsPrefix
<1>2. DeclaredRoles(ls, <<>>) = {}
  BY <1>1 DEF DeclaredRoles
<1>3. tree.roles[<<>>] \subseteq DeclaredRoles(ls, <<>>)
  BY DEF Reflects, Closed
<1>. QED
  BY <1>2, <1>3 DEF CanAccess

(* resolvePath opens a path for exactly the users who have every role that   *)
(* the configuration declares on the way to it, in whatever order its lines  *)
(* stand ("A user can only access a directory and any files and              *)
(* subdirectories in it if they belong to all roles associated with the      *)
(* directory.", README.md).                                                  *)
THEOREM ResolvesAsDeclared ==
  ASSUME NEW ls \in Seq(Line), NEW tree, Reflects(tree, ls), NEW has, NEW p \in Path, p # <<>>
  PROVE  ResolvePath(tree, p, has) <=> MayAccess(ls, p, has)
<1>1. /\ Closed(tree) /\ Directories(tree) \cap Files(tree) = {} /\ <<>> \in Directories(tree)
      /\ Directories(tree) \in SUBSET Path
  BY TreePaths DEF Reflects, Closed
<1>2. ASSUME ResolvePath(tree, p, has), NEW d \in Directories(tree), IsPrefix(d, p)
      PROVE  CanAccess(tree, d, has)
  <2>1. CASE d = <<>>
    BY <2>1, RootOpen
  <2>2. CASE d = p
    BY <1>1, <1>2, <2>2 DEF ResolvePath
  <2>3. CASE d # <<>> /\ d # p
    <3>1. d \in Above(p)
      BY <1>1, <1>2, <2>3, AbovePath
    <3>. QED
      BY <1>2, <3>1 DEF ResolvePath
  <2>. QED
    BY <2>1, <2>2, <2>3
<1>3. ASSUME p \in Directories(tree) \cup Files(tree), Passes(tree, p, has)
      PROVE  ResolvePath(tree, p, has)
  <2>1. ASSUME NEW q \in Above(p) PROVE q \in Directories(tree) /\ CanAccess(tree, q, has)
    <3>1. q \in Path /\ q # p /\ IsPrefix(q, p)
      BY AbovePath
    <3>2. q \in Directories(tree)
      BY <1>1, <1>3, <3>1, TreePaths
    <3>. QED
      BY <1>3, <3>1, <3>2 DEF Passes
  <2>2. p \in Directories(tree) => CanAccess(tree, p, has)
    BY <1>3, PrefixSelf DEF Passes
  <2>. QED
    BY <1>3, <2>1, <2>2 DEF ResolvePath
<1>4. ASSUME ResolvePath(tree, p, has) PROVE p \in Directories(tree) \cup Files(tree)
  BY <1>4 DEF ResolvePath
<1>. QED
  BY <1>2, <1>3, <1>4, MayAccessExactly DEF Passes

(* Nothing is strictly between a path and its parent *)
LEMMA PrefixOfParent ==
  ASSUME NEW t \in Path, t # <<>>, NEW s \in Path
  PROVE  IsPrefix(s, Parent(t)) <=> IsPrefix(s, t) /\ s # t
<1>1. /\ Parent(t) \in Path /\ IsPrefix(Parent(t), t) /\ Len(Parent(t)) = Len(t) - 1
      /\ Len(s) \in Nat /\ Len(t) \in Nat
  BY ParentPath DEF Path
<1>2. ASSUME IsPrefix(s, Parent(t)) PROVE IsPrefix(s, t) /\ s # t
  <2>1. Len(s) <= Len(Parent(t))
    BY <1>2 DEF IsPrefix
  <2>2. s # t
    BY <1>1, <2>1
  <2>. QED
    BY <1>1, <1>2, <2>2, PrefixTrans
<1>3. ASSUME IsPrefix(s, t), s # t PROVE IsPrefix(s, Parent(t))
  <2>1. Len(s) <= Len(t)
    BY <1>3 DEF IsPrefix
  <2>2. ~(Len(t) <= Len(s))
    BY <1>3, PrefixSameLength
  <2>3. Len(s) <= Len(Parent(t))
    BY <1>1, <2>1, <2>2
  <2>. QED
    BY <1>1, <1>3, <2>3, PrefixesOfOne
<1>. QED
  BY <1>2, <1>3

(* A recursive listing enters what its user may open *)
LEMMA EnteredExactly ==
  ASSUME NEW tree, Closed(tree), NEW has, NEW dir \in Directories(tree), Passes(tree, dir, has),
         NEW d \in Directories(tree)
  PROVE  d \in Entered(tree, dir, has) <=> IsPrefix(dir, d) /\ Passes(tree, d, has)
<1>1. /\ Directories(tree) \in SUBSET Path /\ dir \in Path /\ d \in Path
      /\ Len(dir) \in Nat /\ Len(d) \in Nat
  BY TreePaths DEF Path
<1>2. ASSUME d \in Entered(tree, dir, has), NEW q \in Directories(tree), IsPrefix(q, d)
      PROVE  CanAccess(tree, q, has)
  <2>1. IsPrefix(dir, d) /\ \A n \in Len(dir) .. Len(d) : CanAccess(tree, SubSeq(d, 1, n), has)
    BY <1>2 DEF Entered
  <2>2. q \in Path /\ Len(q) \in 0 .. Len(d) /\ q = SubSeq(d, 1, Len(q))
    BY <1>1, <1>2, PrefixIsSub
  <2>3. CASE Len(q) < Len(dir)
    <3>1. IsPrefix(q, dir)
      BY <1>1, <1>2, <2>1, <2>2, <2>3, PrefixesOfOne
    <3>. QED
      BY <3>1 DEF Passes
  <2>4. CASE Len(q) >= Len(dir)
    <3>1. Len(q) \in Len(dir) .. Len(d)
      BY <1>1, <2>2, <2>4
    <3>2. CanAccess(tree, SubSeq(d, 1, Len(q)), has)
      BY <2>1, <3>1
    <3>. QED
      BY <2>2, <3>2
  <2>. QED
    BY <1>1, <2>2, <2>3, <2>4
<1>3. ASSUME IsPrefix(dir, d), Passes(tree, d, has), NEW n \in Len(dir) .. Len(d)
      PROVE  CanAccess(tree, SubSeq(d, 1, n), has)
  <2>1. n \in 0 .. Len(d)
    BY <1>1
  <2>2. SubSeq(d, 1, n) \in Path /\ IsPrefix(SubSeq(d, 1, n), d)
    BY <1>1, <2>1, SubPath
  <2>3. SubSeq(d, 1, n) \in Directories(tree)
    BY <2>2, TreePaths
  <2>. QED
    BY <1>3, <2>2, <2>3 DEF Passes
<1>4. d \in Entered(tree, dir, has) => IsPrefix(dir, d)
  BY DEF Entered
<1>5. ASSUME IsPrefix(dir, d), Passes(tree, d, has) PROVE d \in Entered(tree, dir, has)
  BY <1>3, <1>5 DEF Entered
<1>. QED
  BY <1>2, <1>4, <1>5 DEF Passes

(* Below a directory that a user may list: what a listing of it can show *)
LEMMA SeenBelow ==
  ASSUME NEW tree, Closed(tree), NEW has, NEW dir \in Directories(tree), Passes(tree, dir, has),
         NEW p \in Directories(tree) \cup Files(tree), p # <<>>
  PROVE  Parent(p) \in Entered(tree, dir, has) /\ (p \in Directories(tree) => CanAccess(tree, p, has))
           <=> IsStrictPrefix(dir, p) /\ Passes(tree, p, has)
<1>1. /\ Parent(p) \in Directories(tree) /\ p \in Path /\ dir \in Path
      /\ Directories(tree) \in SUBSET Path
  BY TreePaths
<1>2. Parent(p) \in Entered(tree, dir, has) <=> IsPrefix(dir, Parent(p)) /\ Passes(tree, Parent(p), has)
  BY <1>1, EnteredExactly
<1>3. IsPrefix(dir, Parent(p)) <=> IsStrictPrefix(dir, p)
  BY <1>1, PrefixOfParent DEF IsStrictPrefix
<1>4. ASSUME NEW d \in Directories(tree)
      PROVE  IsPrefix(d, p) <=> IsPrefix(d, Parent(p)) \/ d = p
  BY <1>1, PrefixOfParent, PrefixSelf
<1>5. Passes(tree, Parent(p), has) /\ (p \in Directories(tree) => CanAccess(tree, p, has))
        <=> Passes(tree, p, has)
  BY <1>4 DEF Passes
<1>. QED
  BY <1>2, <1>3, <1>5

(* getAllFiles gives a user exactly the files below a directory that the     *)
(* user may open: a recursive download leaves out every directory whose      *)
(* roles the user lacks, and no other.                                       *)
THEOREM ListsAllFiles ==
  ASSUME NEW ls \in Seq(Line), NEW tree, Reflects(tree, ls), NEW has,
         NEW dir \in Directories(tree), MayAccess(ls, dir, has)
  PROVE  GetAllFiles(tree, dir, has) = { f \in Files(tree) : IsStrictPrefix(dir, f) /\ MayAccess(ls, f, has) }
<1>1. Closed(tree) /\ Files(tree) \in SUBSET Path /\ dir \in Path
  BY TreePaths DEF Reflects
<1>2. Passes(tree, dir, has)
  BY <1>1, MayAccessExactly
<1>3. ASSUME NEW f \in Files(tree)
      PROVE  Parent(f) \in Entered(tree, dir, has) <=> IsStrictPrefix(dir, f) /\ MayAccess(ls, f, has)
  <2>1. f \notin Directories(tree) /\ f # <<>> /\ f \in Path
    BY <1>1 DEF Closed
  <2>2. MayAccess(ls, f, has) <=> Passes(tree, f, has)
    BY <2>1, MayAccessExactly
  <2>. QED
    BY <1>1, <1>2, <2>1, <2>2, SeenBelow
<1>. QED
  BY <1>3 DEF GetAllFiles

(* packDirectory lists, to any depth, exactly the files and directories that *)
(* its user may open, down to that depth: a listing names nothing that is    *)
(* hidden by a role, and hides nothing that can be opened.                   *)
THEOREM ListsToDepth ==
  ASSUME NEW ls \in Seq(Line), NEW tree, Reflects(tree, ls), NEW has,
         NEW dir \in Directories(tree), MayAccess(ls, dir, has), NEW depth \in Nat
  PROVE  PackDirectory(tree, dir, has, depth) =
           { p \in Directories(tree) \cup Files(tree) :
               /\ IsStrictPrefix(dir, p) /\ MayAccess(ls, p, has)
               /\ Len(p) - Len(dir) <= depth + 1 }
<1> DEFINE entered == { d \in Entered(tree, dir, has) : Len(d) - Len(dir) <= depth }
           shown == { p \in Directories(tree) \cup Files(tree) :
                        /\ IsStrictPrefix(dir, p) /\ MayAccess(ls, p, has)
                        /\ Len(p) - Len(dir) <= depth + 1 }
<1>1. /\ Closed(tree) /\ Files(tree) \in SUBSET Path /\ Directories(tree) \in SUBSET Path
      /\ dir \in Path /\ Len(dir) \in Nat
      /\ Directories(tree) \cap Files(tree) = {} /\ <<>> \in Directories(tree)
  BY TreePaths DEF Reflects, Path, Closed
<1>2. Passes(tree, dir, has)
  BY <1>1, MayAccessExactly
<1>3. ASSUME NEW p \in Directories(tree) \cup Files(tree), p # <<>>
      PROVE  p \in shown <=> Parent(p) \in entered /\ (p \in Directories(tree) => CanAccess(tree, p, has))
  <2>1. p \in Path /\ Len(p) \in Nat
    BY <1>1 DEF Path
  <2>2. Len(Parent(p)) = Len(p) - 1
    BY <1>3, <2>1, ParentPath
  <2>3. MayAccess(ls, p, has) <=> Passes(tree, p, has)
    BY <2>1, MayAccessExactly
  <2>4. Parent(p) \in Entered(tree, dir, has) /\ (p \in Directories(tree) => CanAccess(tree, p, has))
          <=> IsStrictPrefix(dir, p) /\ MayAccess(ls, p, has)
    BY <1>1, <1>2, <1>3, <2>3, SeenBelow
  <2>5. Len(Parent(p)) - Len(dir) <= depth <=> Len(p) - Len(dir) <= depth + 1
    BY <1>1, <2>1, <2>2
  <2>. QED
    BY <2>4, <2>5
<1>4. <<>> \notin shown
  <2>1. ~IsStrictPrefix(dir, <<>>)
    BY <1>1 DEF IsStrictPrefix, IsPrefix, Path
  <2>. QED
    BY <2>1
<1>5. PackDirectory(tree, dir, has, depth) =
        { f \in Files(tree) : Parent(f) \in entered }
        \cup { d \in Directories(tree) \ {<<>>} : Parent(d) \in entered /\ CanAccess(tree, d, has) }
  BY DEF PackDirectory
<1>6. shown \subseteq Directories(tree) \cup Files(tree)
  OBVIOUS
<1>7. PackDirectory(tree, dir, has, depth) = shown
  <2> HIDE DEF entered, shown
  <2>. QED
    BY <1>1, <1>3, <1>4, <1>5, <1>6
<1>. QED
  BY <1>7

-----------------------------------------------------------------------------
(* The web application *)

Roots    == [of : Configs, lines : Nat, tree : Trees]
Answers  == Objects \cup {Slices}
Requests == [user : Users \cup {None}, path : Path, object : Answers \cup {None}, get : BOOLEAN,
             root : Roots \cup {None}, file : STRING \cup {None}]
Bodies   == [file : STRING \cup {None}, object : Answers \cup {None}, bytes : Seq(Nat)]
Places   == {"idle", "acquire", "respond", "open", "copy", "close", "put", "release"}
Keys     == (STRING \cup {None}) \X (Answers \cup {None})
Caches   == UNION { [K -> Bodies] : K \in SUBSET Keys }

TypeConfig ==
  root \in Roots \cup {None} /\ loading \in Roots \cup {None} /\ reloads \in Nat

TypeShared ==
  /\ permits \in [Users -> Nat] /\ PoolTypeOK /\ deaths \in Nat
  /\ cache \in Caches /\ arrivals \in Nat

TypeLocal ==
  /\ pc \in [Threads -> Places] /\ req \in [Threads -> Requests]
  /\ body \in [Threads -> Bodies] /\ kept \in [Threads -> Seq(Nat)]
  /\ left \in [Threads -> Int] /\ status \in [Threads -> {"none", "ok", "error"}]
  /\ \A t \in Threads : pc[t] # "idle" => req[t].user \in Users

TypeOK == TypeConfig /\ TypeShared /\ TypeLocal

(* A directory under construction reflects the lines added so far *)
Made(r) == r \in Roots /\ r.lines <= NrLines(r.of) /\ Reflects(r.tree, Lines(r))
Finished(r) == Made(r) /\ r.lines = NrLines(r.of)

(* A request works with one finished directory, and the file its path names *)
Served(t) ==
  LET r == req[t] IN
    /\ Finished(r.root)
    /\ r.path = <<>> \/ ResolvePath(r.root.tree, r.path, HasRoles[r.user])
    /\ r.file = IF r.path \in Files(r.root.tree) THEN r.root.tree.files[r.path] ELSE None

ConfigInv ==
  /\ loading # None => Made(loading)
  /\ root # None => Finished(root)
  /\ \A t \in Threads : pc[t] # "idle" => Served(t)

WorkersOut == { t \in Threads : HoldsWorker(t) }
PermitsOut(u) == { t \in Threads : User(t) = u /\ HoldsPermit(t) }

(* A thread has to do with the pool from the moment it opens the object      *)
PoolInv ==
  /\ sem + Cardinality(WorkersOut) = running
  /\ \A t \in Threads : place[t] # "outside" => pc[t] \in {"open", "copy", "close"}
  /\ Limited => \A u \in Users : permits[u] + Cardinality(PermitsOut(u)) = MaxRequests

(* The first n bytes of an answer *)
Bytes(n) == [i \in 1 .. n |-> i]

(* What a thread has sent and kept, where it is in its request *)
Sending(t) ==
  LET r == req[t]  n == Sent(t) IN
    /\ pc[t] \in {"open", "copy", "close", "put"} => ForObject(t)
    /\ pc[t] \in {"copy", "put"} =>
         /\ r.get /\ body[t].file = r.file /\ body[t].object = r.object
         /\ body[t].bytes = Bytes(n) /\ n <= Size[r.object]
    /\ pc[t] = "copy" /\ Cacheable(t) => left[t] = MaxCached - n /\ kept[t] = Bytes(Min({n, MaxCached}))
    /\ pc[t] = "put" => Cacheable(t) /\ n <= MaxCached /\ n = Size[r.object] /\ kept[t] = Bytes(n)
    /\ pc[t] = "close" => ~r.get
    /\ pc[t] \in {"idle", "acquire", "respond", "open"} => kept[t] = <<>>
    /\ pc[t] # "release" => status[t] = "none"
    /\ status[t] = "ok" /\ r.get /\ ForObject(t) =>
         Whole(body[t]) /\ body[t].file = r.file /\ body[t].object = r.object

(* What the cache has, it has under the name of what was read *)
CacheSound ==
  \A k \in DOMAIN cache :
    /\ k = <<cache[k].file, cache[k].object>> /\ cache[k].object \in Objects
    /\ Whole(cache[k]) /\ Len(cache[k].bytes) <= MaxCached

DataInv == CacheSound /\ \A t \in Threads : Sending(t)

-----------------------------------------------------------------------------
(* The constants and the helpers *)

LEMMA LinesType ==
  ASSUME NEW c \in Configs
  PROVE  LinesOf[c] \in Seq(Line) /\ NrLines(c) \in Nat
BY WebConstants DEF Line, Path, NrLines

LEMMA PathsType == Paths \in SUBSET Path
<1> SUFFICES ASSUME NEW p \in Paths PROVE p \in Path
  OBVIOUS
<1>0. PICK l \in AllLines : \E n \in 0 .. Len(l.path) : p = SubSeq(l.path, 1, n)
  BY DEF Paths
<1>1. PICK c \in Configs : l \in ToSet(LinesOf[c])
  BY DEF AllLines
<1>2. l \in Line
  BY <1>1, LinesType, LinesAreLines
<1>3. l.path \in Path
  BY <1>2 DEF Line
<1>. QED
  BY <1>0, <1>3, SubPath

LEMMA CacheMaps ==
  ASSUME cache \in Caches
  PROVE  DOMAIN cache \in SUBSET Keys /\ cache \in [DOMAIN cache -> Bodies]
<1>1. PICK K \in SUBSET Keys : cache \in [K -> Bodies]
  BY DEF Caches
<1>. QED
  BY <1>1

LEMMA OneLonger ==
  ASSUME NEW S, NEW s \in Seq(S), NEW n \in Nat, n < Len(s)
  PROVE  SubSeq(s, 1, n + 1) = Append(SubSeq(s, 1, n), s[n + 1])
<1> DEFINE a == SubSeq(s, 1, n + 1)
           b == SubSeq(s, 1, n)
<1>1. a \in Seq(S) /\ Len(a) = n + 1 /\ \A i \in 1 .. n + 1 : a[i] = s[i]
  OBVIOUS
<1>2. b \in Seq(S) /\ Len(b) = n /\ \A i \in 1 .. n : b[i] = s[i]
  OBVIOUS
<1>3. s[n + 1] \in S
  OBVIOUS
<1> HIDE DEF a, b
<1>4. /\ Append(b, s[n + 1]) \in Seq(S) /\ Len(Append(b, s[n + 1])) = n + 1
      /\ \A i \in 1 .. n + 1 : Append(b, s[n + 1])[i] = s[i]
  BY <1>2, <1>3
<1>5. a = Append(b, s[n + 1])
  BY <1>1, <1>4
<1>. QED
  BY <1>5 DEF a, b

(* As long as there is room, what a pass keeps is what the limit leaves      *)
LEMMA RoomLeft ==
  ASSUME NEW n \in Nat, NEW m \in Nat, NEW limit \in Nat,
         NEW nr, nr = IF limit - n <= m THEN limit - n ELSE m, nr > 0
  PROVE  /\ nr \in Nat /\ nr <= m
         /\ (IF n <= limit THEN n ELSE limit) = n
         /\ (IF n + m <= limit THEN n + m ELSE limit) = n + nr
OBVIOUS

LEMMA SmallerOfTwo ==
  ASSUME NEW a \in Int, NEW b \in Int
  PROVE  Min({a, b}) = IF a <= b THEN a ELSE b
<1>1. ASSUME NEW x \in {a, b}, \A y \in {a, b} : x <= y PROVE x = IF a <= b THEN a ELSE b
  BY <1>1
<1>2. \E x \in {a, b} : \A y \in {a, b} : x <= y
  OBVIOUS
<1>. QED
  BY <1>1, <1>2 DEF Min

LEMMA JavaIntType ==
  ASSUME NEW n \in Int
  PROVE  JavaInt(n) \in Int
BY WebConstants DEF JavaInt

(* An int that does not overflow *)
LEMMA JavaIntExact ==
  ASSUME NEW n \in Int, - IntMax - 1 <= n, n <= IntMax
  PROVE  JavaInt(n) = n
<1> DEFINE M == IntMax + 1
<1>1. IntMax \in Nat /\ M \in Nat /\ M > 0 /\ 2 * M \in Nat /\ 2 * M > 0
  BY WebConstants
<1>2. n + M \in Nat /\ n + M < 2 * M
  BY <1>1
<1>3. ASSUME NEW a \in Nat, NEW b \in Nat, a < b PROVE a % b = a
  BY <1>3
<1>4. (n + M) % (2 * M) = n + M
  <2> HIDE DEF M
  <2>. QED
    BY <1>1, <1>2, <1>3
<1>5. JavaInt(n) = ((n + M) % (2 * M)) - M
  BY <1>1 DEF JavaInt
<1>. QED
  BY <1>1, <1>4, <1>5

-----------------------------------------------------------------------------
(* Types *)

LEMMA InitTypes == Init => TypeOK
<1> SUFFICES ASSUME Init PROVE TypeOK
  OBVIOUS
<1>1. PICK c \in Configs : loading = Begun(c)
  BY DEF Init
<1>2. EmptyRoot \in Trees
  BY ReflectsNothing DEF Reflects, Closed
<1>3. Begun(c) \in Roots
  BY <1>2 DEF Begun, Roots
<1>4. TypeConfig
  BY <1>1, <1>3 DEF Init, TypeConfig
<1>5. cache \in Caches
  <2>1. cache \in [{} -> Bodies] /\ {} \in SUBSET Keys
    BY DEF Init
  <2>. QED
    BY <2>1 DEF Caches
<1>6. TypeShared
  <2>1. PoolTypeOK
    <3>1. PoolInit
      BY DEF Init
    <3>2. sem \in Nat /\ running \in Int /\ tries \in [Threads -> Nat]
      BY <3>1 DEF PoolInit
    <3>3. stopped \in BOOLEAN /\ place \in [Threads -> PoolPlace]
      BY <3>1 DEF PoolInit, PoolPlace
    <3>. QED
      BY <3>2, <3>3 DEF PoolTypeOK
  <2>. QED
    BY <1>5, <2>1, WebConstants DEF Init, TypeShared
<1>7. NoRequest \in Requests /\ Nothing \in Bodies
  <2>1. <<>> \in Path /\ <<>> \in Seq(Nat)
    BY DEF Path
  <2>. QED
    BY <2>1 DEF NoRequest, Requests, Nothing, Answer, Bodies
<1>8. TypeLocal
  BY <1>7 DEF Init, TypeLocal, Places
<1>. QED
  BY <1>4, <1>6, <1>8 DEF TypeOK

(* A line added to a directory under construction *)
LEMMA AddsLine ==
  ASSUME TypeConfig, loading # None, Made(loading), loading.lines < NrLines(loading.of),
         ~Failed(NextTree)
  PROVE  Made(NextLine)
<1> DEFINE c == loading.of
           n == loading.lines
           l == LinesOf[c][n + 1]
           ls == Lines(loading)
<1>1. c \in Configs /\ n \in Nat
  BY DEF Made, Roots
<1>2. LinesOf[c] \in Seq(Line) /\ NrLines(c) \in Nat /\ n < NrLines(c) /\ NrLines(c) = Len(LinesOf[c])
  BY <1>1, LinesType DEF NrLines
<1>3. n + 1 \in 1 .. Len(LinesOf[c])
  BY <1>1, <1>2
<1>4. l \in Line
  BY <1>2, <1>3
<1>5. ls = SubSeq(LinesOf[c], 1, n) /\ ls \in Seq(Line)
  BY <1>1, <1>2 DEF Lines
<1>6. SubSeq(LinesOf[c], 1, n + 1) = Append(ls, l)
  <2> HIDE DEF c, n
  <2>. QED
    BY <1>1, <1>2, <1>3, <1>5, OneLonger
<1>7. NextTree = AddFile(loading.tree, l)
  BY DEF NextTree
<1>8. Reflects(NextTree, Append(ls, l))
  <2> HIDE DEF l, ls
  <2>1. Reflects(loading.tree, ls)
    BY DEF Made, ls
  <2>. QED
    BY <1>4, <1>5, <1>7, <2>1, ReflectsOneMore
<1>9. NextTree \in Trees
  BY <1>8 DEF Reflects, Closed
<1>10. NextLine \in Roots /\ NextLine.of = c /\ NextLine.lines = n + 1 /\ NextLine.tree = NextTree
  <2> DEFINE tree == NextTree
  <2>1. NextLine = [loading EXCEPT !.lines = n + 1, !.tree = tree]
    BY DEF NextLine
  <2>2. tree \in Trees
    BY <1>9
  <2> HIDE DEF tree
  <2>3. loading \in [of : Configs, lines : Nat, tree : Trees]
    BY DEF Made, Roots
  <2>4. NextLine = [of |-> c, lines |-> n + 1, tree |-> tree]
    BY <2>1, <2>3
  <2>. QED
    BY <1>1, <2>2, <2>4 DEF Roots, tree
<1>11. Lines(NextLine) = Append(ls, l)
  BY <1>6, <1>10 DEF Lines
<1>. QED
  BY <1>2, <1>8, <1>10, <1>11, <1>1 DEF Made

(* What is put in the cache has its type *)
LEMMA CacheTypes ==
  ASSUME cache \in Caches
  PROVE  /\ \A k : [x \in DOMAIN cache \ {k} |-> cache[x]] \in Caches
         /\ \A k \in Keys, b \in Bodies : Put(cache, k, b) \in Caches
<1>1. DOMAIN cache \in SUBSET Keys /\ \A x \in DOMAIN cache : cache[x] \in Bodies
  BY CacheMaps
<1>2. ASSUME NEW k PROVE [x \in DOMAIN cache \ {k} |-> cache[x]] \in Caches
  <2>1. [x \in DOMAIN cache \ {k} |-> cache[x]] \in [DOMAIN cache \ {k} -> Bodies]
    BY <1>1
  <2>. QED
    BY <1>1, <2>1 DEF Caches
<1>3. ASSUME NEW k \in Keys, NEW b \in Bodies PROVE Put(cache, k, b) \in Caches
  <2>1. Put(cache, k, b) \in [DOMAIN cache \cup {k} -> Bodies]
    BY <1>1 DEF Put
  <2>. QED
    BY <1>1, <2>1 DEF Caches
<1>. QED
  BY <1>2, <1>3

(* What a thread can do to the pool *)
PoolMove(t) ==
  \/ Ask(t) \/ Waits(t) \/ StartFails(t) \/ GivesBack(t) \/ Discards(t) \/ Loses(t)
  \/ UNCHANGED pool

LEMMA PoolMoveTypes ==
  ASSUME PoolTypeOK, NEW t \in Threads, PoolMove(t)
  PROVE  PoolTypeOK'
<1>1. place' \in [Threads -> PoolPlace]
  BY DEF PoolTypeOK, PoolMove, Ask, Waits, SeesPermits, SeesNone, StartsWorker, CannotStart, StartFails,
         StartsNone, TakesPermit, GivesBack, Discards, Loses, Moves, PoolPlace, pool
<1>2. sem' \in Nat /\ running' \in Int /\ stopped' \in BOOLEAN /\ tries' \in [Threads -> Nat]
  BY DEF PoolTypeOK, PoolMove, Ask, Waits, SeesPermits, SeesNone, StartsWorker, CannotStart, StartFails,
         StartsNone, TakesPermit, GivesBack, Discards, Loses, pool
<1>. QED
  BY <1>1, <1>2 DEF PoolTypeOK

(* A step of a request, whether something goes wrong or not *)
Acts(t) == Step(t) \/ Fail(t)

LEMMA ActsOnPool ==
  ASSUME deaths \in Nat, NEW t \in Threads, Acts(t)
  PROVE  PoolMove(t) /\ deaths' \in Nat
<1>1. CASE CacheMiss(t) \/ PoolWaits(t) \/ PoolStartFails(t) \/ FindsDead(t)
  BY <1>1 DEF CacheMiss, PoolWaits, PoolStartFails, FindsDead, Death, PoolMove
<1>2. CASE OpenFails(t) \/ CopyEnds(t) \/ CloseUnread(t) \/ CopyFails(t)
  BY <1>2 DEF OpenFails, CopyEnds, CloseUnread, CopyFails, ReleaseWorker, Death, PoolMove
<1>3. CASE UNCHANGED library
  BY <1>3 DEF library, PoolMove
<1>4. CASE \/ Acquire(t) \/ Describe(t) \/ FromCache(t) \/ GetFails(t) \/ Open(t) \/ Copy(t)
          \/ Keep(t) \/ Release(t) \/ RespondFails(t)
  <2>1. UNCHANGED library
    BY <1>4 DEF Acquire, Describe, FromCache, GetFails, Open, Copy, Keep, Release, RespondFails, shared
  <2>. QED
    BY <1>3, <2>1
<1>. QED
  BY <1>1, <1>2, <1>4 DEF Acts, Step, Fail

(* A request that begins *)
LEMMA BeginTypes ==
  ASSUME TypeOK, NEW t \in Threads, Begin(t)
  PROVE  TypeOK'
<1>1. PICK user \in Users, path \in Paths, ask \in Asks :
        /\ Finds(user, path)
        /\ LET isfile == path \in Files(root.tree)
           IN req' = [req EXCEPT ![t] = [user |-> user, path |-> path, root |-> root,
                                         file |-> IF isfile THEN root.tree.files[path] ELSE None,
                                         object |-> IF isfile THEN ask.object ELSE None,
                                         get |-> isfile /\ ask.get]]
  BY DEF Begin
<1> DEFINE isfile == path \in Files(root.tree)
           file == IF isfile THEN root.tree.files[path] ELSE None
           object == IF isfile THEN ask.object ELSE None
           get == isfile /\ ask.get
           r == [user |-> user, path |-> path, root |-> root, file |-> file, object |-> object, get |-> get]
<1>2. root \in Roots /\ root.tree \in Trees
  BY <1>1 DEF TypeOK, TypeConfig, Finds, Roots
<1>3. file \in STRING \cup {None}
  BY <1>2, TreeMaps
<1>4. object \in Answers \cup {None} /\ get \in BOOLEAN
  BY WebConstants DEF Answers
<1>5. path \in Path
  BY PathsType
<1>6. req' = [req EXCEPT ![t] = r]
  BY <1>1
<1>7. r \in Requests /\ r.user = user
  <2> HIDE DEF file, object, get
  <2>. QED
    BY <1>2, <1>3, <1>4, <1>5 DEF Requests
<1> HIDE DEF r
<1>8. TypeLocal'
  BY <1>6, <1>7 DEF TypeOK, TypeLocal, Begin, Goto, Places
<1>9. TypeConfig' /\ TypeShared'
  <2>1. UNCHANGED library /\ PoolTypeOK /\ deaths \in Nat
    BY DEF Begin, TypeOK, TypeShared
  <2>2. PoolTypeOK' /\ deaths' \in Nat
    BY <2>1, PoolMoveTypes DEF library, PoolMove
  <2>. QED
    BY <2>2 DEF TypeOK, TypeConfig, TypeShared, Begin, config
<1>. QED
  BY <1>8, <1>9 DEF TypeOK

LEMMA StepTypes ==
  ASSUME TypeOK, NEW t \in Threads, Acts(t)
  PROVE  TypeOK'
<1>1. TypeConfig /\ TypeShared /\ TypeLocal
  BY DEF TypeOK
<1>2. /\ pc[t] \in Places /\ req[t] \in Requests /\ body[t] \in Bodies /\ left[t] \in Int
      /\ kept[t] \in Seq(Nat)
      /\ pc[t] # "idle" => User(t) \in Users /\ permits[User(t)] \in Nat
  BY <1>1 DEF TypeLocal, TypeShared, User
<1>3. /\ req[t].file \in STRING \cup {None} /\ req[t].object \in Answers \cup {None}
      /\ body[t].file \in STRING \cup {None} /\ body[t].object \in Answers \cup {None}
      /\ body[t].bytes \in Seq(Nat)
  BY <1>2 DEF Requests, Bodies
<1>4. PoolTypeOK' /\ deaths' \in Nat
  BY <1>1, ActsOnPool, PoolMoveTypes DEF TypeShared
<1>5. /\ UNCHANGED config => TypeConfig'
      /\ UNCHANGED <<permits, cache, arrivals>> => TypeShared'
  BY <1>1, <1>4 DEF config, TypeConfig, TypeShared
<1>6. <<>> \in Seq(Nat) /\ Nothing \in Bodies /\ NoRequest \in Requests
  <2>1. <<>> \in Path /\ <<>> \in Seq(Nat)
    BY DEF Path
  <2>. QED
    BY <2>1 DEF NoRequest, Requests, Nothing, Answer, Bodies
<1>7. ASSUME NEW b \in Seq(Nat) PROVE Answer(req[t].file, req[t].object, b) \in Bodies
  BY <1>3 DEF Answer, Bodies
<1>8. CASE Acquire(t)
  <2>1. TypeShared'
    BY <1>1, <1>2, <1>8, <1>4 DEF Acquire, TypeShared
  <2>2. TypeLocal'
    BY <1>1, <1>8 DEF Acquire, TypeLocal, Goto, Places
  <2>. QED
    BY <1>5, <1>8, <2>1, <2>2 DEF Acquire, TypeOK
<1>9. CASE Describe(t)
  <2>1. TypeLocal'
    BY <1>1, <1>9 DEF Describe, TypeLocal, Ends, Goto, Places
  <2>. QED
    BY <1>5, <1>9, <2>1 DEF Describe, shared, TypeOK
<1>10. CASE RespondFails(t)
  <2>1. TypeLocal'
    BY <1>1, <1>10 DEF RespondFails, TypeLocal, Ends, Goto, Places
  <2>. QED
    BY <1>5, <1>10, <2>1 DEF RespondFails, shared, TypeOK
<1>11. CASE FromCache(t)
  <2> DEFINE b == IF req[t].get THEN cache[CacheKey(req[t])] ELSE Nothing
  <2>1. b \in Bodies
    BY <1>1, <1>6, <1>11, CacheMaps DEF FromCache, Hit, TypeShared
  <2>2. body' = [body EXCEPT ![t] = b]
    BY <1>11 DEF FromCache
  <2> HIDE DEF b
  <2>3. TypeLocal'
    BY <1>1, <1>11, <2>1, <2>2 DEF FromCache, TypeLocal, Ends, Goto, Places
  <2>. QED
    BY <1>5, <1>11, <2>3 DEF FromCache, shared, TypeOK
<1>12. CASE CacheMiss(t)
  <2>1. TypeLocal'
    BY <1>1, <1>12 DEF CacheMiss, TypeLocal, Goto, Places
  <2>. QED
    BY <1>5, <1>12, <2>1 DEF CacheMiss, TypeOK
<1>13. CASE Open(t)
  <2> DEFINE b == IF req[t].get THEN Answer(req[t].file, req[t].object, <<>>) ELSE Nothing
  <2>1. b \in Bodies
    BY <1>6, <1>7
  <2>2. body' = [body EXCEPT ![t] = b]
    BY <1>13 DEF Open
  <2> HIDE DEF b
  <2>3. MaxCached \in Int
    BY WebConstants
  <2>4. TypeLocal'
    BY <1>1, <1>13, <2>1, <2>2, <2>3 DEF Open, TypeLocal, Goto, Places
  <2>. QED
    BY <1>5, <1>13, <2>4 DEF Open, shared, TypeOK
<1>14. CASE OpenFails(t)
  <2>1. TypeLocal'
    BY <1>1, <1>14 DEF OpenFails, TypeLocal, Ends, Goto, Places
  <2>. QED
    BY <1>5, <1>14, <2>1 DEF OpenFails, TypeOK
<1>15. CASE Copy(t)
  <2>1. PICK m \in 1 .. BufferSize :
          LET buf == [i \in 1 .. m |-> Sent(t) + i]
              nr == Min({left[t], m})
          IN  /\ body' = [body EXCEPT ![t].bytes = @ \o buf]
              /\ kept' = IF nr > 0 THEN [kept EXCEPT ![t] = @ \o SubSeq(buf, 1, nr)] ELSE kept
              /\ left' = [left EXCEPT ![t] = JavaInt(@ - m)]
    BY <1>15 DEF Copy
  <2> DEFINE buf == [i \in 1 .. m |-> Sent(t) + i]
             nr == Min({left[t], m})
  <2>2. m \in Nat /\ Sent(t) \in Nat
    BY <1>3, WebConstants DEF Sent
  <2>3. buf \in Seq(Nat) /\ Len(buf) = m
    BY <2>2
  <2>4. nr \in Int /\ nr <= m
    BY <1>2, <2>2, SmallerOfTwo
  <2>5. nr > 0 => SubSeq(buf, 1, nr) \in Seq(Nat)
    <3> HIDE DEF buf, nr
    <3>. QED
      BY <2>3, <2>4
  <2>6. body[t].bytes \o buf \in Seq(Nat) /\ (nr > 0 => kept[t] \o SubSeq(buf, 1, nr) \in Seq(Nat))
    <3> HIDE DEF buf, nr
    <3>. QED
      BY <1>2, <1>3, <2>3, <2>5
  <2>7. body' \in [Threads -> Bodies]
    <3> DEFINE b == body[t].bytes \o buf
    <3>1. body' = [body EXCEPT ![t] = [body[t] EXCEPT !.bytes = b]]
      BY <2>1
    <3>2. b \in Seq(Nat)
      BY <2>6
    <3> HIDE DEF b
    <3>3. [body[t] EXCEPT !.bytes = b] \in Bodies
      BY <1>2, <3>2 DEF Bodies
    <3>. QED
      BY <1>1, <3>1, <3>3 DEF TypeLocal
  <2>8. kept' \in [Threads -> Seq(Nat)]
    <3> DEFINE k == kept[t] \o SubSeq(buf, 1, nr)
    <3>1. kept' = IF nr > 0 THEN [kept EXCEPT ![t] = k] ELSE kept
      BY <2>1
    <3>2. nr > 0 => k \in Seq(Nat)
      BY <2>6
    <3> HIDE DEF k, nr
    <3>. QED
      BY <1>1, <3>1, <3>2 DEF TypeLocal
  <2>9. left' \in [Threads -> Int]
    <3> DEFINE n == JavaInt(left[t] - m)
    <3>1. left' = [left EXCEPT ![t] = n]
      BY <2>1
    <3>2. n \in Int
      <4>1. left[t] - m \in Int
        BY <1>2, <2>2
      <4>. QED
        BY <4>1, JavaIntType
    <3> HIDE DEF n
    <3>. QED
      BY <1>1, <3>1, <3>2 DEF TypeLocal
  <2>10. TypeLocal'
    BY <1>1, <1>15, <2>7, <2>8, <2>9 DEF Copy, TypeLocal
  <2>. QED
    BY <1>5, <1>15, <2>10 DEF Copy, shared, TypeOK
<1>16. CASE CopyEnds(t)
  <2>1. TypeLocal'
    BY <1>1, <1>16 DEF CopyEnds, TypeLocal, Ends, Goto, Places
  <2>. QED
    BY <1>5, <1>16, <2>1 DEF CopyEnds, TypeOK
<1>17. CASE CloseUnread(t)
  <2>1. TypeLocal'
    BY <1>1, <1>17 DEF CloseUnread, TypeLocal, Ends, Goto, Places
  <2>. QED
    BY <1>5, <1>17, <2>1 DEF CloseUnread, TypeOK
<1>18. CASE CopyFails(t)
  <2>1. TypeLocal'
    BY <1>1, <1>18 DEF CopyFails, TypeLocal, Ends, Goto, Places
  <2>. QED
    BY <1>5, <1>18, <2>1 DEF CopyFails, TypeOK
<1>19. CASE Keep(t)
  <2>1. TypeLocal'
    BY <1>1, <1>19 DEF Keep, TypeLocal, Ends, Goto, Places
  <2>2. CacheKey(req[t]) \in Keys /\ Answer(req[t].file, req[t].object, kept[t]) \in Bodies
    BY <1>2, <1>3, <1>7 DEF CacheKey, Keys
  <2>3. cache' \in Caches
    BY <1>1, <1>19, <2>2, CacheTypes DEF Keep, TypeShared
  <2>4. TypeShared'
    BY <1>1, <1>19, <1>4, <2>3 DEF Keep, TypeShared
  <2>. QED
    BY <1>5, <1>19, <2>1, <2>4 DEF Keep, TypeOK
<1>20. CASE Release(t)
  <2>1. TypeLocal'
    BY <1>1, <1>6, <1>20 DEF Release, Returns, TypeLocal, Goto, Places
  <2>2. TypeShared'
    BY <1>1, <1>2, <1>20, <1>4 DEF Release, TypeShared
  <2>. QED
    BY <1>5, <1>20, <2>1, <2>2 DEF Release, TypeOK
<1>21. CASE PoolWaits(t) \/ PoolStartFails(t) \/ FindsDead(t)
  <2>1. TypeLocal'
    BY <1>1, <1>21 DEF PoolWaits, PoolStartFails, FindsDead, TypeLocal, local
  <2>. QED
    BY <1>5, <1>21, <2>1 DEF PoolWaits, PoolStartFails, FindsDead, TypeOK
<1>22. CASE GetFails(t)
  <2>1. TypeLocal'
    BY <1>1, <1>22 DEF GetFails, TypeLocal, Ends, Goto, Places
  <2>. QED
    BY <1>5, <1>22, <2>1 DEF GetFails, shared, TypeOK
<1>. QED
  BY <1>8, <1>9, <1>10, <1>11, <1>12, <1>13, <1>14, <1>15, <1>16, <1>17, <1>18, <1>19, <1>20, <1>21, <1>22
     DEF Acts, Step, Fail

-----------------------------------------------------------------------------
(* Configurations *)

LEMMA BegunMade ==
  ASSUME NEW c \in Configs
  PROVE  Made(Begun(c))
<1>1. /\ Begun(c).of = c /\ Begun(c).lines = 0 /\ Begun(c).tree = EmptyRoot
      /\ LinesOf[c] \in Seq(Line) /\ NrLines(c) \in Nat
  BY LinesType DEF Begun
<1>2. Lines(Begun(c)) = <<>>
  BY <1>1 DEF Lines
<1>3. EmptyRoot \in Trees
  BY ReflectsNothing DEF Reflects, Closed
<1>4. Begun(c) \in Roots
  BY <1>3 DEF Begun, Roots
<1>. QED
  BY <1>1, <1>2, <1>4, ReflectsNothing DEF Made

LEMMA InitConfig == Init => ConfigInv
BY BegunMade DEF Init, ConfigInv

(* A request goes on with the directory, the user and the path it has *)
LEMMA StepKeepsRequest ==
  ASSUME TypeOK, NEW t \in Threads, Acts(t)
  PROVE  /\ UNCHANGED config
         /\ \A s \in Threads : pc'[s] # "idle" => pc[s] # "idle" /\ req'[s] = req[s]
<1>1. pc \in [Threads -> Places] /\ req \in [Threads -> Requests]
  BY DEF TypeOK, TypeLocal
<1>2. CASE Release(t)
  BY <1>1, <1>2 DEF Release, Returns, Goto
<1>3. CASE UNCHANGED <<config, req>> /\ pc[t] # "idle" /\ \E p : pc' = [pc EXCEPT ![t] = p]
  BY <1>1, <1>3
<1>4. CASE UNCHANGED <<config, req, pc>>
  BY <1>1, <1>4
<1>5. CASE Copy(t) \/ PoolWaits(t) \/ PoolStartFails(t) \/ FindsDead(t)
  BY <1>4, <1>5 DEF Copy, PoolWaits, PoolStartFails, FindsDead, local
<1>6. CASE \/ Acquire(t) \/ Describe(t) \/ RespondFails(t) \/ FromCache(t) \/ CacheMiss(t) \/ GetFails(t)
          \/ Open(t) \/ OpenFails(t) \/ CopyEnds(t) \/ CloseUnread(t) \/ CopyFails(t) \/ Keep(t)
  BY <1>3, <1>6 DEF Acquire, Describe, RespondFails, FromCache, CacheMiss, GetFails, Open, OpenFails,
     CopyEnds, CloseUnread, CopyFails, Keep, Ends, Goto
<1>. QED
  BY <1>2, <1>5, <1>6 DEF Acts, Step, Fail

LEMMA NextConfig ==
  ASSUME TypeOK, ConfigInv, [Next]_vars
  PROVE  TypeOK' /\ ConfigInv'
<1>1. TypeConfig /\ TypeShared /\ TypeLocal
  BY DEF TypeOK
<1>2. /\ UNCHANGED config => TypeConfig'
      /\ UNCHANGED library => PoolTypeOK' /\ deaths' \in Nat
      /\ UNCHANGED shared => TypeShared'
      /\ UNCHANGED local => TypeLocal'
  <2>1. UNCHANGED library => PoolTypeOK' /\ deaths' \in Nat
    BY <1>1 DEF library, pool, TypeShared, PoolTypeOK
  <2>2. UNCHANGED shared => TypeShared'
    BY <1>1, <2>1 DEF shared, TypeShared
  <2>. QED
    BY <1>1, <2>1, <2>2 DEF config, local, TypeConfig, TypeLocal
<1>3. ASSUME UNCHANGED local PROVE \A t \in Threads : pc'[t] # "idle" => Served(t)'
  BY <1>3 DEF local, Served, ConfigInv
<1>4. CASE Reload
  <2>1. PICK c \in Configs : loading' = Begun(c)
    BY <1>4 DEF Reload
  <2>2. Made(Begun(c))
    BY BegunMade
  <2>3. TypeConfig'
    BY <1>1, <1>4, <2>1, <2>2 DEF Reload, TypeConfig, Made
  <2>4. Made(loading')
    BY <2>1, <2>2
  <2>. QED
    BY <1>2, <1>3, <1>4, <2>3, <2>4 DEF Reload, TypeOK, ConfigInv, Finished, Made, Lines
<1>5. CASE LoadLine
  <2>1. loading' = None \/ Made(loading')
    <3>1. CASE Failed(NextTree)
      BY <1>5, <3>1 DEF LoadLine
    <3>2. CASE ~Failed(NextTree)
      <4>1. Made(NextLine)
        BY <1>1, <1>5, <3>2, AddsLine DEF LoadLine, ConfigInv
      <4>2. loading' = NextLine
        BY <1>5, <3>2 DEF LoadLine
      <4>. QED
        BY <4>1, <4>2
    <3>. QED
      BY <3>1, <3>2
  <2>2. TypeConfig'
    BY <1>1, <1>5, <2>1 DEF LoadLine, TypeConfig, Made
  <2>. QED
    BY <1>2, <1>3, <1>5, <2>1, <2>2 DEF LoadLine, TypeOK, ConfigInv
<1>6. CASE LoadFails
  <2>1. TypeConfig'
    BY <1>1, <1>6 DEF LoadFails, TypeConfig
  <2>. QED
    BY <1>2, <1>3, <1>6, <2>1 DEF LoadFails, TypeOK, ConfigInv
<1>7. CASE Publish
  <2>1. TypeConfig' /\ Finished(root')
    BY <1>1, <1>7 DEF Publish, TypeConfig, ConfigInv, Finished
  <2>. QED
    BY <1>2, <1>3, <1>7, <2>1 DEF Publish, TypeOK, ConfigInv
<1>8. ASSUME NEW k \in DOMAIN cache, Evict(k) PROVE TypeOK' /\ ConfigInv'
  <2>1. cache' \in Caches
    BY <1>1, <1>8, CacheTypes DEF Evict, TypeShared
  <2>2. TypeShared'
    BY <1>1, <1>2, <1>8, <2>1 DEF Evict, TypeShared
  <2>. QED
    BY <1>2, <1>3, <1>8, <2>2 DEF Evict, TypeOK, ConfigInv, config
<1>9. ASSUME NEW t \in Threads, Begin(t) PROVE TypeOK' /\ ConfigInv'
  <2>1. TypeOK'
    BY <1>9, BeginTypes
  <2>2. PICK user \in Users, path \in Paths, ask \in Asks :
          /\ Finds(user, path)
          /\ LET isfile == path \in Files(root.tree)
             IN req' = [req EXCEPT ![t] = [user |-> user, path |-> path, root |-> root,
                                           file |-> IF isfile THEN root.tree.files[path] ELSE None,
                                           object |-> IF isfile THEN ask.object ELSE None,
                                           get |-> isfile /\ ask.get]]
    BY <1>9 DEF Begin
  <2>3. /\ req'[t].root = root /\ req'[t].path = path /\ req'[t].user = user
        /\ req'[t].file = IF path \in Files(root.tree) THEN root.tree.files[path] ELSE None
    BY <1>1, <2>2 DEF TypeLocal
  <2>4. Finished(root) /\ (path = <<>> \/ ResolvePath(root.tree, path, HasRoles[user]))
    BY <2>2 DEF Finds, ConfigInv
  <2>5. Served(t)'
    BY <2>3, <2>4 DEF Served
  <2>6. ASSUME NEW s \in Threads, s # t, pc'[s] # "idle" PROVE Served(s)'
    <3>1. pc'[s] = pc[s] /\ req'[s] = req[s]
      BY <1>1, <1>9, <2>2, <2>6 DEF Begin, Goto, TypeLocal
    <3>. QED
      BY <2>6, <3>1 DEF ConfigInv, Served
  <2>. QED
    BY <1>9, <2>1, <2>5, <2>6 DEF Begin, ConfigInv, config
<1>10. ASSUME NEW t \in Threads, Reject(t) PROVE TypeOK' /\ ConfigInv'
  <2>1. TypeShared'
    BY <1>1, <1>2, <1>10 DEF Reject, TypeShared
  <2>. QED
    BY <1>2, <1>3, <1>10, <2>1 DEF Reject, TypeOK, ConfigInv, config
<1>11. ASSUME NEW t \in Threads, Acts(t) PROVE TypeOK' /\ ConfigInv'
  <2>1. TypeOK'
    BY <1>11, StepTypes
  <2>2. /\ UNCHANGED config
        /\ \A s \in Threads : pc'[s] # "idle" => pc[s] # "idle" /\ req'[s] = req[s]
    BY <1>11, StepKeepsRequest
  <2>3. ASSUME NEW s \in Threads, pc'[s] # "idle" PROVE Served(s)'
    BY <2>2, <2>3 DEF ConfigInv, Served
  <2>. QED
    BY <2>1, <2>2, <2>3 DEF ConfigInv, config
<1>12. CASE UNCHANGED vars
  BY <1>2, <1>3, <1>12 DEF vars, TypeOK, ConfigInv, config
<1>. QED
  BY <1>4, <1>5, <1>6, <1>7, <1>8, <1>9, <1>10, <1>11, <1>12 DEF Next, Load, Acts

LEMMA ConfigInvariant == Spec => [](TypeOK /\ ConfigInv)
<1>1. Init => TypeOK /\ ConfigInv
  BY InitTypes, InitConfig
<1>2. TypeOK /\ ConfigInv /\ [Next]_vars => (TypeOK /\ ConfigInv)'
  BY NextConfig
<1>. QED
  BY <1>1, <1>2, PTL DEF Spec

(* Every variable of the web application keeps its type: semaphores never    *)
(* have less than no permits, and a thread in a request has a user.          *)
THEOREM WebTypeCorrect == Spec => []TypeOK
BY ConfigInvariant, PTL

LEMMA FinishedLines ==
  ASSUME NEW r, Made(r)
  PROVE  /\ Lines(r) \in Seq(Line) /\ ToSet(Lines(r)) \subseteq AllLines
         /\ r.lines = NrLines(r.of) => Lines(r) = LinesOf[r.of]
<1>1. /\ r.of \in Configs /\ r.lines \in Nat /\ r.lines <= Len(LinesOf[r.of])
      /\ LinesOf[r.of] \in Seq(Line)
  BY LinesType DEF Made, Roots, NrLines
<1> DEFINE ls == LinesOf[r.of]
           n == r.lines
<1>2. Lines(r) = SubSeq(ls, 1, n)
  BY DEF Lines
<1> HIDE DEF ls, n
<1>3. ls \in Seq(Line) /\ n \in Nat /\ n <= Len(ls)
  BY <1>1 DEF ls, n
<1>4. /\ Lines(r) \in Seq(Line) /\ DOMAIN Lines(r) = 1 .. n /\ DOMAIN ls = 1 .. Len(ls)
      /\ \A i \in 1 .. n : Lines(r)[i] = ls[i]
  BY <1>2, <1>3
<1>5. ToSet(Lines(r)) \subseteq ToSet(ls)
  BY <1>3, <1>4 DEF ToSet
<1>6. ToSet(ls) \subseteq AllLines
  BY <1>1 DEF AllLines, ls
<1>7. n = Len(ls) => Lines(r) = ls
  BY <1>2, <1>3
<1>. QED
  BY <1>4, <1>5, <1>6, <1>7 DEF ls, n, NrLines

LEMMA RootDeclared ==
  ASSUME NEW ls \in Seq(Line), NEW tree, Reflects(tree, ls), NEW has
  PROVE  MayAccess(ls, <<>>, has)
<1>1. <<>> \in Path /\ <<>> \in Directories(tree) /\ Directories(tree) \in SUBSET Path
  BY TreePaths, PrefixSelf DEF Reflects, Closed, Path
<1>2. ASSUME NEW d \in Directories(tree), IsPrefix(d, <<>>) PROVE CanAccess(tree, d, has)
  <2>1. d = <<>>
    BY <1>1, <1>2 DEF IsPrefix, Path
  <2>. QED
    BY <2>1, RootOpen
<1>3. Passes(tree, <<>>, has)
  BY <1>2 DEF Passes
<1>. QED
  BY <1>1, <1>3, MayAccessExactly

(* A request works from first to last with one completely loaded             *)
(* configuration in which its user has every role declared for the path, for *)
(* any number of threads and reloads: getRoot is read once and root is set   *)
(* last, so a reload under way or one that failed is never seen.             *)
THEOREM AlwaysServedAsConfigured == Spec => []ServedAsConfigured
<1>1. TypeOK /\ ConfigInv => ServedAsConfigured
  <2> SUFFICES ASSUME TypeOK, ConfigInv, NEW t \in Threads, pc[t] # "idle"
               PROVE  /\ req[t].root.lines = NrLines(req[t].root.of)
                      /\ MayAccess(LinesOf[req[t].root.of], req[t].path, HasRoles[User(t)])
    BY DEF ServedAsConfigured
  <2> DEFINE r == req[t].root
             ls == Lines(r)
             has == HasRoles[User(t)]
             path == req[t].path
  <2>1. Finished(r) /\ (path = <<>> \/ ResolvePath(r.tree, path, has))
    BY DEF ConfigInv, Served, User
  <2>2. path \in Path
    BY DEF TypeOK, TypeLocal, Requests
  <2>3. Made(r) /\ Reflects(r.tree, ls) /\ r.lines = NrLines(r.of)
    BY <2>1 DEF Finished, Made
  <2> HIDE DEF r, has, path, ls
  <2>4. ls \in Seq(Line) /\ ls = LinesOf[r.of]
    BY <2>3, FinishedLines DEF ls
  <2>5. MayAccess(ls, path, has)
    <3>1. CASE path = <<>>
      BY <2>3, <2>4, <3>1, RootDeclared
    <3>2. CASE path # <<>>
      BY <2>1, <2>2, <2>3, <2>4, <3>2, ResolvesAsDeclared
    <3>. QED
      BY <3>1, <3>2
  <2>. QED
    BY <2>3, <2>4, <2>5 DEF r, has, path
<1>. QED
  BY <1>1, ConfigInvariant, PTL

(* A directory that reflects its lines honours their roles *)
LEMMA MadeHonours ==
  ASSUME NEW r, Made(r)
  PROVE  HonoursRoles(r)
<1> DEFINE tree == r.tree
           ls == Lines(r)
<1>1. ls \in Seq(Line) /\ ToSet(ls) \subseteq AllLines /\ Reflects(tree, ls) /\ Closed(tree)
  BY FinishedLines DEF Made, Reflects
<1>2. Directories(tree) \in SUBSET Path /\ Files(tree) \in SUBSET Path /\ Paths \in SUBSET Path
  BY <1>1, TreePaths, PathsType
<1> HIDE DEF tree, ls
<1>3. ASSUME NEW p \in Directories(tree) \cup Files(tree), p # <<>> PROVE p \in Paths
  <2>1. PICK l \in ToSet(ls) : IsPrefix(p, l.path)
    BY <1>1, <1>3 DEF Reflects, Exists
  <2>2. l.path \in Path /\ l \in AllLines
    BY <1>1, LinesAreLines DEF Line
  <2>3. Len(p) \in 0 .. Len(l.path) /\ p = SubSeq(l.path, 1, Len(p))
    BY <1>2, <2>1, <2>2, PrefixIsSub
  <2>4. p \in { SubSeq(l.path, 1, n) : n \in 0 .. Len(l.path) }
    BY <2>3
  <2>. QED
    BY <2>2, <2>4, Zenon DEF Paths
<1>4. ASSUME NEW dir \in Path, NEW p \in Path, IsStrictPrefix(dir, p) PROVE p # <<>>
  BY <1>4 DEF IsStrictPrefix, IsPrefix, Path
<1> SUFFICES ASSUME NEW has \in SUBSET Roles
             PROVE  LET may == { p \in Paths : MayAccess(ls, p, has) }
                        below(dir) == { p \in may : IsStrictPrefix(dir, p) }
                    IN /\ { p \in Paths : ResolvePath(tree, p, has) } = may \ {<<>>}
                       /\ \A dir \in Directories(tree) \cap may :
                            /\ GetAllFiles(tree, dir, has) = below(dir) \cap Files(tree)
                            /\ \A depth \in 0 .. 2 :
                                 PackDirectory(tree, dir, has, depth)
                                   = { p \in below(dir) : Len(p) - Len(dir) <= depth + 1 }
  BY DEF HonoursRoles, tree, ls
<1> DEFINE may == { p \in Paths : MayAccess(ls, p, has) }
           below(dir) == { p \in may : IsStrictPrefix(dir, p) }
<1>5. { p \in Paths : ResolvePath(tree, p, has) } = may \ {<<>>}
  <2>1. ASSUME NEW p \in Paths PROVE ResolvePath(tree, p, has) <=> MayAccess(ls, p, has) /\ p # <<>>
    <3>1. CASE p = <<>>
      BY <3>1 DEF ResolvePath
    <3>2. CASE p # <<>>
      BY <1>1, <1>2, <3>2, ResolvesAsDeclared
    <3>. QED
      BY <3>1, <3>2
  <2>. QED
    BY <2>1
<1>6. ASSUME NEW dir \in Directories(tree) \cap may
      PROVE  /\ GetAllFiles(tree, dir, has) = below(dir) \cap Files(tree)
             /\ \A depth \in 0 .. 2 :
                  PackDirectory(tree, dir, has, depth) = { p \in below(dir) : Len(p) - Len(dir) <= depth + 1 }
  <2>1. dir \in Directories(tree) /\ dir \in Path /\ MayAccess(ls, dir, has)
    BY <1>2
  <2>2. ASSUME NEW p, IsStrictPrefix(dir, p), MayAccess(ls, p, has)
        PROVE  /\ p \in Paths => p \in Directories(tree) \cup Files(tree)
               /\ p \in Directories(tree) \cup Files(tree) => p \in Paths
    <3>1. p \in Paths => p \in Directories(tree) \cup Files(tree)
      BY <1>1, <1>2, <2>2, MayAccessExactly
    <3>2. p \in Directories(tree) \cup Files(tree) => p \in Paths
      BY <1>2, <1>3, <1>4, <2>1, <2>2
    <3>. QED
      BY <3>1, <3>2
  <2>3. GetAllFiles(tree, dir, has) = { f \in Files(tree) : IsStrictPrefix(dir, f) /\ MayAccess(ls, f, has) }
    BY <1>1, <2>1, ListsAllFiles
  <2>4. GetAllFiles(tree, dir, has) = below(dir) \cap Files(tree)
    BY <2>2, <2>3
  <2>5. ASSUME NEW depth \in 0 .. 2
        PROVE  PackDirectory(tree, dir, has, depth) = { p \in below(dir) : Len(p) - Len(dir) <= depth + 1 }
    <3>1. depth \in Nat
      OBVIOUS
    <3>2. PackDirectory(tree, dir, has, depth) =
            { p \in Directories(tree) \cup Files(tree) :
                /\ IsStrictPrefix(dir, p) /\ MayAccess(ls, p, has)
                /\ Len(p) - Len(dir) <= depth + 1 }
      BY <1>1, <2>1, <3>1, ListsToDepth
    <3>. QED
      BY <2>2, <3>2, Zenon
  <2>. QED
    BY <2>4, <2>5
<1>. QED
  BY <1>5, <1>6

(* Every tree that a reload makes active opens each path to exactly those    *)
(* who have all the roles declared on the way, and lists exactly what can be *)
(* opened, whatever the configurations and the order of their lines          *)
(* (README.md on roles; VirtualDirectory.addFile and ExternalConfigManager). *)
THEOREM RolesAlwaysAsDeclared == Spec => RolesAsDeclared
<1>1. TypeOK /\ ConfigInv /\ [Next]_vars => [root' # root => HonoursRoles(root')]_root
  <2> SUFFICES ASSUME TypeOK, ConfigInv, Next, root' # root PROVE HonoursRoles(root')
    BY DEF vars, config
  <2>1. CASE Publish
    <3>1. root' = loading /\ Made(loading)
      BY <2>1 DEF Publish, ConfigInv
    <3>2. HonoursRoles(loading)
      BY <3>1, MadeHonours
    <3>. QED
      BY <3>1, <3>2
  <2>2. CASE ~Publish
    <3>1. ASSUME NEW t \in Threads, Begin(t) \/ Reject(t) PROVE FALSE
      BY <3>1 DEF Begin, Reject, config
    <3>2. ASSUME NEW t \in Threads, Acts(t) PROVE FALSE
      BY <3>2, StepKeepsRequest DEF config
    <3>3. ~Reload /\ ~LoadLine /\ ~LoadFails /\ ~(\E k \in DOMAIN cache : Evict(k))
      BY DEF Reload, LoadLine, LoadFails, Evict, config
    <3>. QED
      BY <2>2, <3>1, <3>2, <3>3 DEF Next, Load, Acts
  <2>. QED
    BY <2>1, <2>2
<1>. QED
  BY <1>1, ConfigInvariant, PTL DEF Spec, RolesAsDeclared

-----------------------------------------------------------------------------
(* Permits and workers *)

LEMMA CountOneMore ==
  ASSUME NEW S \in SUBSET Threads, NEW t \in Threads
  PROVE  /\ IsFiniteSet(S) /\ Cardinality(S) \in Nat
         /\ t \notin S => Cardinality(S \cup {t}) = Cardinality(S) + 1
         /\ t \in S => Cardinality(S \ {t}) = Cardinality(S) - 1
<1>1. IsFiniteSet(S)
  BY WebConstants, FS_Subset
<1>. QED
  BY <1>1, FS_CardinalityType, FS_AddElement, FS_RemoveElement

(* The three things a step can do to the permits *)
PermitsStay == permits' = permits /\ \A u \in Users : PermitsOut(u)' = PermitsOut(u)

PermitTaken(t) ==
  \E v \in Users :
    /\ v = User(t)
    /\ t \notin PermitsOut(v) /\ PermitsOut(v)' = PermitsOut(v) \cup {t}
    /\ \A u \in Users : u # v => PermitsOut(u)' = PermitsOut(u)
    /\ Limited => permits[v] > 0 /\ permits' = [permits EXCEPT ![v] = @ - 1]

PermitBack(t) ==
  \E v \in Users :
    /\ v = User(t)
    /\ t \in PermitsOut(v) /\ PermitsOut(v)' = PermitsOut(v) \ {t}
    /\ \A u \in Users : u # v => PermitsOut(u)' = PermitsOut(u)
    /\ Limited => permits' = [permits EXCEPT ![v] = @ + 1]

(* A worker that runs is idle in the pool, or out *)
LEMMA WorkersCounted ==
  ASSUME PoolTypeOK, NEW t \in Threads, PoolMove(t),
         sem + Cardinality(WorkersOut) = running
  PROVE  (sem + Cardinality(WorkersOut) = running)'
<1> DEFINE n == Cardinality(WorkersOut)
<1>1. place \in [Threads -> PoolPlace] /\ sem \in Nat /\ running \in Int
  BY DEF PoolTypeOK
<1>2. WorkersOut \in SUBSET Threads
  BY DEF WorkersOut
<1>3. /\ WorkersOut = { s \in Threads : place[s] = "has" }
      /\ WorkersOut' = { s \in Threads : place'[s] = "has" }
  BY DEF WorkersOut, HoldsWorker
<1>4. ASSUME NEW from, NEW to, Moves(t, from, to)
      PROVE  /\ from # "has" /\ to # "has" => WorkersOut' = WorkersOut
             /\ from # "has" /\ to = "has" => t \notin WorkersOut /\ WorkersOut' = WorkersOut \cup {t}
             /\ from = "has" /\ to # "has" => t \in WorkersOut /\ WorkersOut' = WorkersOut \ {t}
  <2>1. place[t] = from /\ place'[t] = to /\ \A s \in Threads : s # t => place'[s] = place[s]
    BY <1>1, <1>4 DEF Moves
  <2>. QED
    BY <1>3, <2>1
<1>5. /\ n \in Nat /\ sem + n = running
      /\ t \notin WorkersOut => Cardinality(WorkersOut \cup {t}) = n + 1
      /\ t \in WorkersOut => Cardinality(WorkersOut \ {t}) = n - 1
  BY <1>2, CountOneMore
<1>6. CASE Ask(t) \/ SeesPermits(t) \/ SeesNone(t) \/ StartsNone(t)
  <2>1. /\ UNCHANGED <<sem, running>>
        /\ \E from, to : Moves(t, from, to) /\ from # "has" /\ to # "has"
    BY <1>6 DEF Ask, SeesPermits, SeesNone, StartsNone
  <2>2. WorkersOut' = WorkersOut
    BY <1>4, <2>1
  <2>. QED
    BY <1>5, <2>1, <2>2
<1>7. CASE StartsWorker(t)
  <2>1. sem' = sem + 1 /\ running' = running + 1 /\ WorkersOut' = WorkersOut
    BY <1>4, <1>7 DEF StartsWorker
  <2>. QED
    BY <1>1, <1>5, <2>1
<1>8. CASE TakesPermit(t)
  <2>1. /\ sem' = sem - 1 /\ running' = running
        /\ t \notin WorkersOut /\ WorkersOut' = WorkersOut \cup {t}
    BY <1>4, <1>8 DEF TakesPermit
  <2>. QED
    BY <1>1, <1>5, <2>1
<1>9. CASE GivesBack(t)
  <2>1. /\ sem' = sem + 1 /\ running' = running
        /\ t \in WorkersOut /\ WorkersOut' = WorkersOut \ {t}
    BY <1>4, <1>9 DEF GivesBack
  <2>. QED
    BY <1>1, <1>5, <2>1
<1>10. CASE Discards(t) \/ Loses(t)
  <2>1. sem' = sem /\ running' = running - 1 /\ \E to : Moves(t, "has", to) /\ to # "has"
    BY <1>10 DEF Discards, Loses
  <2>2. t \in WorkersOut /\ WorkersOut' = WorkersOut \ {t}
    BY <1>4, <2>1
  <2>. QED
    BY <1>1, <1>5, <2>1, <2>2
<1>11. CASE UNCHANGED pool
  BY <1>5, <1>11 DEF pool, WorkersOut, HoldsWorker
<1>. QED
  BY <1>6, <1>7, <1>8, <1>9, <1>10, <1>11 DEF PoolMove, Waits, CannotStart, StartFails

LEMMA PoolKept ==
  ASSUME TypeOK, PoolInv, NEW t \in Threads, PoolMove(t),
         \A s \in Threads : s # t => pc'[s] = pc[s],
         place'[t] # "outside" => pc'[t] \in {"open", "copy", "close"},
         PermitsStay \/ PermitTaken(t) \/ PermitBack(t)
  PROVE  PoolInv'
<1>1. permits \in [Users -> Nat] /\ MaxRequests \in Nat /\ PoolTypeOK
  BY WebConstants DEF TypeOK, TypeShared
<1>2. \A u : PermitsOut(u) \in SUBSET Threads
  BY DEF PermitsOut
<1>3. (sem + Cardinality(WorkersOut) = running)'
  BY <1>1, WorkersCounted DEF PoolInv
<1>4. ASSUME Limited, NEW u \in Users PROVE (permits[u] + Cardinality(PermitsOut(u)) = MaxRequests)'
  <2> DEFINE n == Cardinality(PermitsOut(u))
  <2>1. n \in Nat /\ permits[u] + n = MaxRequests /\ permits[u] \in Nat
    BY <1>1, <1>2, <1>4, CountOneMore DEF PoolInv
  <2>2. CASE PermitsStay
    BY <2>1, <2>2 DEF PermitsStay
  <2>3. CASE PermitTaken(t)
    <3>1. PICK v \in Users :
            /\ t \notin PermitsOut(v) /\ PermitsOut(v)' = PermitsOut(v) \cup {t}
            /\ u # v => PermitsOut(u)' = PermitsOut(u)
            /\ permits' = [permits EXCEPT ![v] = @ - 1]
      BY <1>4, <2>3 DEF PermitTaken
    <3>2. CASE u # v
      BY <1>1, <2>1, <3>1, <3>2
    <3>3. CASE u = v
      <4>1. Cardinality(PermitsOut(u))' = n + 1
        BY <1>2, <3>1, <3>3, CountOneMore
      <4>2. permits'[u] = permits[u] - 1
        BY <1>1, <3>1, <3>3
      <4>. QED
        BY <1>1, <2>1, <4>1, <4>2
    <3>. QED
      BY <3>2, <3>3
  <2>4. CASE PermitBack(t)
    <3>1. PICK v \in Users :
            /\ t \in PermitsOut(v) /\ PermitsOut(v)' = PermitsOut(v) \ {t}
            /\ u # v => PermitsOut(u)' = PermitsOut(u)
            /\ permits' = [permits EXCEPT ![v] = @ + 1]
      BY <1>4, <2>4 DEF PermitBack
    <3>2. CASE u # v
      BY <1>1, <2>1, <3>1, <3>2
    <3>3. CASE u = v
      <4>1. Cardinality(PermitsOut(u))' = n - 1
        BY <1>2, <3>1, <3>3, CountOneMore
      <4>2. permits'[u] = permits[u] + 1
        BY <1>1, <3>1, <3>3
      <4>. QED
        BY <1>1, <2>1, <4>1, <4>2
    <3>. QED
      BY <3>2, <3>3
  <2>. QED
    BY <2>2, <2>3, <2>4
<1>5. ASSUME NEW s \in Threads, s # t PROVE place'[s] = place[s]
  BY <1>1, <1>5 DEF PoolMove, PoolTypeOK, Ask, Waits, SeesPermits, SeesNone, StartsWorker, CannotStart,
     StartFails, StartsNone, TakesPermit, GivesBack, Discards, Loses, Moves, pool
<1>6. \A s \in Threads : place'[s] # "outside" => pc'[s] \in {"open", "copy", "close"}
  BY <1>5 DEF PoolInv
<1>. QED
  BY <1>3, <1>4, <1>6 DEF PoolInv, Limited

(* A thread goes from one place to another, without or with a permit *)
LEMMA MovesPermit ==
  ASSUME TypeOK, NEW t \in Threads, NEW p \in Places, pc' = [pc EXCEPT ![t] = p],
         \A s \in Threads : s # t => req'[s] = req[s]
  PROVE  LET before == pc[t] \notin {"idle", "acquire"}
             after == p \notin {"idle", "acquire"}
         IN  /\ (~before /\ ~after) \/ (before /\ after /\ req'[t] = req[t]) =>
                  \A u : PermitsOut(u)' = PermitsOut(u)
             /\ ~before /\ after /\ req'[t] = req[t] =>
                  \A v : v = req[t].user =>
                    /\ t \notin PermitsOut(v) /\ PermitsOut(v)' = PermitsOut(v) \cup {t}
                    /\ \A u : u # v => PermitsOut(u)' = PermitsOut(u)
             /\ before /\ ~after =>
                  \A v : v = req[t].user =>
                    /\ t \in PermitsOut(v) /\ PermitsOut(v)' = PermitsOut(v) \ {t}
                    /\ \A u : u # v => PermitsOut(u)' = PermitsOut(u)
<1>1. pc \in [Threads -> Places]
  BY DEF TypeOK, TypeLocal
<1>2. pc'[t] = p /\ \A s \in Threads : s # t => pc'[s] = pc[s]
  BY <1>1
<1> DEFINE before == pc[t] \notin {"idle", "acquire"}
           after == p \notin {"idle", "acquire"}
<1>4. ASSUME (~before /\ ~after) \/ (before /\ after /\ req'[t] = req[t]), NEW u
      PROVE  PermitsOut(u)' = PermitsOut(u)
  BY <1>2, <1>4 DEF PermitsOut, HoldsPermit, User
<1>5. ASSUME ~before, after, req'[t] = req[t], NEW v, v = req[t].user
      PROVE  /\ t \notin PermitsOut(v) /\ PermitsOut(v)' = PermitsOut(v) \cup {t}
             /\ \A u : u # v => PermitsOut(u)' = PermitsOut(u)
  BY <1>2, <1>5 DEF PermitsOut, HoldsPermit, User
<1>6. ASSUME before, ~after, NEW v, v = req[t].user
      PROVE  /\ t \in PermitsOut(v) /\ PermitsOut(v)' = PermitsOut(v) \ {t}
             /\ \A u : u # v => PermitsOut(u)' = PermitsOut(u)
  BY <1>2, <1>6 DEF PermitsOut, HoldsPermit, User
<1>. QED
  BY <1>4, <1>5, <1>6

(* No permit is taken or given back *)
LEMMA MovesWithout ==
  ASSUME TypeOK, NEW t \in Threads, NEW p \in {"release", "open", "copy", "close", "put"},
         pc' = [pc EXCEPT ![t] = p], pc[t] \in {"respond", "open", "copy", "close", "put"},
         UNCHANGED <<permits, req>>
  PROVE  PermitsStay
<1>1. p \in Places
  BY DEF Places
<1>2. \A u : PermitsOut(u)' = PermitsOut(u)
  BY <1>1, MovesPermit
<1>. QED
  BY <1>2 DEF PermitsStay

LEMMA ActsOnPermits ==
  ASSUME TypeOK, NEW t \in Threads, Acts(t)
  PROVE  /\ \A s \in Threads : s # t => pc'[s] = pc[s]
         /\ PermitsStay \/ PermitTaken(t) \/ PermitBack(t)
<1>1. /\ pc \in [Threads -> Places] /\ req \in [Threads -> Requests]
      /\ pc[t] # "idle" => req[t].user \in Users
  BY DEF TypeOK, TypeLocal
<1>2. CASE Acquire(t)
  <2>1. "respond" \in Places /\ pc[t] = "acquire" /\ pc' = [pc EXCEPT ![t] = "respond"] /\ UNCHANGED req
    BY <1>2 DEF Acquire, Goto, Places
  <2>3. PICK v \in Users : v = req[t].user
    BY <1>1, <2>1
  <2>4. /\ t \notin PermitsOut(v) /\ PermitsOut(v)' = PermitsOut(v) \cup {t}
        /\ \A u : u # v => PermitsOut(u)' = PermitsOut(u)
    BY <2>1, <2>3, MovesPermit
  <2>5. v = User(t) /\ (Limited => permits[v] > 0 /\ permits' = [permits EXCEPT ![v] = @ - 1])
    BY <1>2, <2>3 DEF Acquire, User
  <2>6. PermitTaken(t)
    BY <2>4, <2>5 DEF PermitTaken
  <2>. QED
    BY <1>1, <2>1, <2>6
<1>3. CASE \/ Describe(t) \/ RespondFails(t) \/ FromCache(t) \/ CacheMiss(t) \/ Open(t) \/ OpenFails(t)
          \/ GetFails(t) \/ CopyEnds(t) \/ CloseUnread(t) \/ CopyFails(t) \/ Keep(t)
  <2>1. /\ pc[t] \in {"respond", "open", "copy", "close", "put"} /\ UNCHANGED <<permits, req>>
        /\ \E p \in {"release", "open", "copy", "close", "put"} : pc' = [pc EXCEPT ![t] = p]
    BY <1>3 DEF Describe, RespondFails, FromCache, CacheMiss, Open, OpenFails, GetFails, CopyEnds,
       CloseUnread, CopyFails, Keep, Ends, Goto, shared
  <2>. QED
    BY <1>1, <2>1, MovesWithout
<1>5. CASE Copy(t) \/ PoolWaits(t) \/ PoolStartFails(t) \/ FindsDead(t)
  <2>1. UNCHANGED <<pc, req, permits>>
    BY <1>5 DEF Copy, PoolWaits, PoolStartFails, FindsDead, shared, local
  <2>. QED
    BY <2>1 DEF PermitsStay, PermitsOut, HoldsPermit, User
<1>7. CASE Release(t)
  <2>1. /\ "idle" \in Places /\ pc[t] = "release" /\ pc' = [pc EXCEPT ![t] = "idle"]
        /\ \A s \in Threads : s # t => req'[s] = req[s]
    BY <1>1, <1>7 DEF Release, Returns, Goto, Places
  <2>3. PICK v \in Users : v = req[t].user
    BY <1>1, <2>1
  <2>4. /\ t \in PermitsOut(v) /\ PermitsOut(v)' = PermitsOut(v) \ {t}
        /\ \A u : u # v => PermitsOut(u)' = PermitsOut(u)
    BY <2>1, <2>3, MovesPermit
  <2>5. v = User(t) /\ (Limited => permits' = [permits EXCEPT ![v] = @ + 1])
    BY <1>7, <2>3 DEF Release, User
  <2>6. PermitBack(t)
    BY <2>4, <2>5 DEF PermitBack
  <2>. QED
    BY <1>1, <2>1, <2>6
<1>. QED
  BY <1>2, <1>3, <1>5, <1>7 DEF Acts, Step, Fail

(* A thread that leaves the places where it has to do with the pool has      *)
(* given back its worker, or has none                                        *)
LEMMA ActsOnWorker ==
  ASSUME TypeOK, PoolInv, NEW t \in Threads, Acts(t)
  PROVE  place'[t] # "outside" => pc'[t] \in {"open", "copy", "close"}
<1>1. pc \in [Threads -> Places] /\ place \in [Threads -> PoolPlace]
  BY DEF TypeOK, TypeLocal, TypeShared, PoolTypeOK
<1>2. place[t] # "outside" => pc[t] \in {"open", "copy", "close"}
  BY DEF PoolInv
<1>3. CASE CacheMiss(t) \/ Open(t)
  BY <1>1, <1>3 DEF CacheMiss, Open, Goto
<1>4. CASE PoolWaits(t) \/ PoolStartFails(t) \/ FindsDead(t)
  BY <1>4 DEF PoolWaits, PoolStartFails, FindsDead, local
<1>5. CASE Copy(t)
  BY <1>5 DEF Copy
<1>6. CASE OpenFails(t) \/ CopyEnds(t) \/ CloseUnread(t) \/ CopyFails(t)
  <2>1. ReleaseWorker(t)
    BY <1>6 DEF OpenFails, CopyEnds, CloseUnread, CopyFails
  <2>2. place'[t] = "outside"
    BY <1>1, <2>1 DEF ReleaseWorker, GivesBack, Loses, Moves
  <2>. QED
    BY <2>2
<1>7. CASE \/ Acquire(t) \/ Describe(t) \/ RespondFails(t) \/ FromCache(t) \/ GetFails(t) \/ Keep(t) \/ Release(t)
  <2>1. UNCHANGED place /\ (pc[t] \notin {"open", "copy", "close"} \/ place[t] = "outside")
    BY <1>7 DEF Acquire, Describe, RespondFails, FromCache, GetFails, Keep, Release, shared, library, pool
  <2>. QED
    BY <1>2, <2>1
<1>. QED
  BY <1>3, <1>4, <1>5, <1>6, <1>7 DEF Acts, Step, Fail

LEMMA NextPool ==
  ASSUME TypeOK, PoolInv, [Next]_vars
  PROVE  PoolInv'
<1>1. ASSUME UNCHANGED <<permits, library, pc, req>> PROVE PoolInv'
  BY <1>1 DEF PoolInv, WorkersOut, PermitsOut, HoldsWorker, HoldsPermit, User, library, pool
<1>2. CASE Reload \/ Load \/ (\E k \in DOMAIN cache : Evict(k)) \/ (\E t \in Threads : Reject(t)) \/ UNCHANGED vars
  <2>1. UNCHANGED <<permits, library, pc, req>>
    BY <1>2 DEF Reload, Load, LoadLine, LoadFails, Publish, Evict, Reject, vars, shared, local
  <2>. QED
    BY <1>1, <2>1
<1>3. ASSUME NEW t \in Threads, Begin(t) PROVE PoolInv'
  <2>1. /\ pc[t] = "idle" /\ pc' = [pc EXCEPT ![t] = "acquire"] /\ UNCHANGED <<permits, library>>
        /\ "acquire" \in Places
    BY <1>3 DEF Begin, Goto, Places
  <2>2. \A s \in Threads : s # t => req'[s] = req[s] /\ pc'[s] = pc[s]
    BY <1>3, <2>1 DEF Begin, TypeOK, TypeLocal
  <2>3. PoolMove(t) /\ place' = place
    BY <2>1 DEF PoolMove, library, pool
  <2>4. \A u : PermitsOut(u)' = PermitsOut(u)
    BY <2>1, <2>2, MovesPermit
  <2>5. PermitsStay
    BY <2>1, <2>4 DEF PermitsStay
  <2>6. place[t] = "outside"
    BY <2>1 DEF PoolInv
  <2>. QED
    BY <2>2, <2>3, <2>5, <2>6, PoolKept
<1>4. ASSUME NEW t \in Threads, Acts(t) PROVE PoolInv'
  <2>1. PoolMove(t)
    BY <1>4, ActsOnPool DEF TypeOK, TypeShared
  <2>. QED
    BY <1>4, <2>1, ActsOnPermits, ActsOnWorker, PoolKept
<1>. QED
  BY <1>2, <1>3, <1>4 DEF Next, Acts

(* ConcurrentRequestCount: permits and workers come back on every path, even *)
(* if readers die, and with fewer permits than workers no user ever has all  *)
(* workers ("This is to prevent one user from tying up all of the processes  *)
(* in the pool"), for any number of threads, users and workers.              *)
THEOREM PoolNeverTiedUp == Spec => []NeverTiesUpPool
<1>1. Init => PoolInv
  <2> SUFFICES ASSUME Init PROVE PoolInv
    OBVIOUS
  <2>1. WorkersOut = {} /\ \A u : PermitsOut(u) = {}
    BY DEF Init, PoolInit, WorkersOut, PermitsOut, HoldsWorker, HoldsPermit
  <2>2. Cardinality({}) = 0
    BY FS_EmptySet
  <2>3. MaxRequests \in Nat
    BY WebConstants
  <2>4. /\ sem = 0 /\ running = 0 /\ \A u \in Users : permits[u] = MaxRequests
        /\ \A t \in Threads : place[t] = "outside"
    BY DEF Init, PoolInit
  <2>5. \A u \in Users : permits[u] + Cardinality(PermitsOut(u)) = MaxRequests
    BY <2>1, <2>2, <2>3, <2>4
  <2>. QED
    BY <2>1, <2>2, <2>3, <2>4, <2>5 DEF PoolInv
<1>2. TypeOK /\ PoolInv /\ [Next]_vars => PoolInv'
  BY NextPool
<1>3. TypeOK /\ PoolInv => NeverTiesUpPool
  <2> SUFFICES ASSUME TypeOK, PoolInv PROVE NeverTiesUpPool
    OBVIOUS
  <2>1. /\ sem + Cardinality({ t \in Threads : HoldsWorker(t) }) = running
        /\ \A t \in Threads : HoldsWorker(t) => pc[t] \in {"open", "copy", "close"}
    BY DEF PoolInv, WorkersOut, HoldsWorker
  <2>2. ASSUME NEW u \in Users
        PROVE  LET mine == { t \in Threads : User(t) = u }
               IN /\ Limited => permits[u] + Cardinality({ t \in mine : HoldsPermit(t) }) = MaxRequests
                  /\ MaxRequests \in 1 .. NrProcesses - 1 => Cardinality({ t \in mine : HoldsWorker(t) }) < NrProcesses
    <3> DEFINE mine == { t \in Threads : User(t) = u }
               busy == { t \in mine : HoldsWorker(t) }
    <3>1. { t \in mine : HoldsPermit(t) } = PermitsOut(u)
      BY DEF PermitsOut
    <3>2. busy \in SUBSET PermitsOut(u) /\ PermitsOut(u) \in SUBSET Threads
      BY <2>1 DEF PermitsOut, HoldsPermit
    <3>3. Limited => permits[u] + Cardinality(PermitsOut(u)) = MaxRequests
      BY DEF PoolInv
    <3>4. IsFiniteSet(Threads)
      BY WebConstants
    <3> HIDE DEF busy
    <3>5. IsFiniteSet(PermitsOut(u))
      BY <3>2, <3>4, FS_Subset
    <3>6. /\ Cardinality(PermitsOut(u)) \in Nat /\ Cardinality(busy) \in Nat
          /\ Cardinality(busy) <= Cardinality(PermitsOut(u))
      BY <3>2, <3>5, FS_Subset, FS_CardinalityType
    <3>7. ASSUME MaxRequests \in 1 .. NrProcesses - 1 PROVE Cardinality(busy) < NrProcesses
      <4>1. permits[u] \in Nat /\ MaxRequests \in Nat /\ NrProcesses \in Nat
        BY WebConstants, PoolSize DEF TypeOK, TypeShared
      <4>2. Limited
        BY <3>7, <4>1 DEF Limited
      <4>3. permits[u] + Cardinality(PermitsOut(u)) = MaxRequests
        BY <3>3, <4>2
      <4>. QED
        BY <3>6, <3>7, <4>1, <4>3
    <3>. QED
      BY <3>1, <3>3, <3>7 DEF busy
  <2>. QED
    BY <2>1, <2>2 DEF NeverTiesUpPool
<1>. QED
  BY <1>1, <1>2, <1>3, ConfigInvariant, PTL DEF Spec

-----------------------------------------------------------------------------
(* What is sent and what is cached *)

LEMMA BytesType ==
  ASSUME NEW n \in Nat
  PROVE  Bytes(n) \in Seq(Nat) /\ Len(Bytes(n)) = n /\ \A i \in 1 .. n : Bytes(n)[i] = i
BY DEF Bytes

LEMMA ConcatBytes ==
  ASSUME NEW a \in Seq(Nat), NEW b \in Seq(Nat), NEW c \in Seq(Nat), Len(c) = Len(a) + Len(b),
         \A i \in 1 .. Len(a) : c[i] = a[i],
         \A i \in 1 .. Len(b) : c[Len(a) + i] = b[i]
  PROVE  a \o b = c
<1>1. /\ a \o b \in Seq(Nat) /\ Len(a \o b) = Len(a) + Len(b)
      /\ \A i \in 1 .. Len(a) + Len(b) : (a \o b)[i] = IF i <= Len(a) THEN a[i] ELSE b[i - Len(a)]
  BY ConcatProperties
<1>2. Len(a) \in Nat /\ Len(b) \in Nat
  OBVIOUS
<1>3. ASSUME NEW i \in 1 .. Len(c) PROVE (a \o b)[i] = c[i]
  <2>1. CASE i <= Len(a)
    BY <1>1, <1>2, <2>1
  <2>2. CASE i > Len(a)
    <3>1. i - Len(a) \in 1 .. Len(b) /\ Len(a) + (i - Len(a)) = i
      BY <1>2, <2>2
    <3>2. (a \o b)[i] = b[i - Len(a)]
      BY <1>1, <1>2, <2>2
    <3>3. c[Len(a) + (i - Len(a))] = b[i - Len(a)]
      BY <3>1
    <3>. QED
      BY <3>1, <3>2, <3>3
  <2>. QED
    BY <1>2, <2>1, <2>2
<1>. QED
  BY <1>1, <1>3, SeqEqual

LEMMA BytesAppended ==
  ASSUME NEW n \in Nat, NEW m \in Nat
  PROVE  Bytes(n) \o [i \in 1 .. m |-> n + i] = Bytes(n + m)
<1> DEFINE a == Bytes(n)
           b == [i \in 1 .. m |-> n + i]
           c == Bytes(n + m)
<1>1. a \in Seq(Nat) /\ Len(a) = n /\ \A i \in 1 .. n : a[i] = i
  BY BytesType
<1>2. c \in Seq(Nat) /\ Len(c) = n + m /\ \A i \in 1 .. n + m : c[i] = i
  BY BytesType
<1>3. b \in Seq(Nat) /\ Len(b) = m /\ \A i \in 1 .. m : b[i] = n + i
  OBVIOUS
<1> HIDE DEF a, b, c
<1>4. /\ \A i \in 1 .. n : c[i] = a[i]
      /\ \A i \in 1 .. m : c[n + i] = b[i]
  BY <1>1, <1>2, <1>3
<1>5. a \in Seq(Nat) /\ b \in Seq(Nat) /\ c \in Seq(Nat)
  BY <1>1, <1>2, <1>3
<1>6. /\ Len(c) = Len(a) + Len(b)
      /\ \A i \in 1 .. Len(a) : c[i] = a[i]
      /\ \A i \in 1 .. Len(b) : c[Len(a) + i] = b[i]
  BY <1>1, <1>2, <1>3, <1>4
<1>7. a \o b = c
  BY <1>5, <1>6, ConcatBytes, Zenon
<1>. QED
  BY <1>7 DEF a, b, c

LEMMA BytesCut ==
  ASSUME NEW n \in Nat, NEW m \in Nat, NEW k \in Nat, k <= m
  PROVE  SubSeq([i \in 1 .. m |-> n + i], 1, k) = [i \in 1 .. k |-> n + i]
<1> DEFINE buf == [i \in 1 .. m |-> n + i]
           cut == [i \in 1 .. k |-> n + i]
<1>1. buf \in Seq(Nat) /\ Len(buf) = m /\ \A i \in 1 .. m : buf[i] = n + i
  OBVIOUS
<1>2. cut \in Seq(Nat) /\ Len(cut) = k /\ \A i \in 1 .. k : cut[i] = n + i
  OBVIOUS
<1> HIDE DEF buf, cut
<1>3. SubSeq(buf, 1, k) \in Seq(Nat) /\ Len(SubSeq(buf, 1, k)) = k /\ \A i \in 1 .. k : SubSeq(buf, 1, k)[i] = buf[i]
  BY <1>1
<1>4. SubSeq(buf, 1, k) = cut
  BY <1>1, <1>2, <1>3
<1>. QED
  BY <1>4 DEF buf, cut

(* Another thread's step *)
SameThread(s) ==
  /\ pc'[s] = pc[s] /\ req'[s] = req[s] /\ body'[s] = body[s]
  /\ kept'[s] = kept[s] /\ left'[s] = left[s] /\ status'[s] = status[s]

LEMMA SendingKept ==
  ASSUME NEW s \in Threads, Sending(s), SameThread(s)
  PROVE  Sending(s)'
BY DEF Sending, SameThread, Sent, ForObject, Cacheable, Whole

LEMMA StepOthers ==
  ASSUME TypeOK, NEW t \in Threads, Acts(t) \/ Begin(t), NEW s \in Threads, s # t
  PROVE  SameThread(s)
<1>1. /\ pc \in [Threads -> Places] /\ req \in [Threads -> Requests] /\ body \in [Threads -> Bodies]
      /\ kept \in [Threads -> Seq(Nat)] /\ left \in [Threads -> Int]
      /\ status \in [Threads -> {"none", "ok", "error"}]
  BY DEF TypeOK, TypeLocal
<1>2. CASE Begin(t)
  BY <1>1, <1>2 DEF Begin, Goto, SameThread
<1>3. CASE Acquire(t) \/ Describe(t) \/ RespondFails(t) \/ CacheMiss(t) \/ GetFails(t) \/ OpenFails(t)
  BY <1>1, <1>3 DEF Acquire, Describe, RespondFails, CacheMiss, GetFails, OpenFails, Ends, Goto, SameThread
<1>4. CASE FromCache(t)
  BY <1>1, <1>4 DEF FromCache, Ends, Goto, SameThread
<1>5. CASE Open(t)
  BY <1>1, <1>5 DEF Open, Goto, SameThread
<1>6. CASE Copy(t)
  BY <1>1, <1>6 DEF Copy, SameThread
<1>7. CASE CopyEnds(t) \/ CloseUnread(t) \/ CopyFails(t) \/ Keep(t)
  BY <1>1, <1>7 DEF CopyEnds, CloseUnread, CopyFails, Keep, Ends, Goto, SameThread
<1>8. CASE Release(t)
  BY <1>1, <1>8 DEF Release, Returns, Goto, SameThread
<1>9. CASE PoolWaits(t) \/ PoolStartFails(t) \/ FindsDead(t)
  BY <1>9 DEF PoolWaits, PoolStartFails, FindsDead, local, SameThread
<1>. QED
  BY <1>2, <1>3, <1>4, <1>5, <1>6, <1>7, <1>8, <1>9 DEF Acts, Step, Fail

(* No answer is so long that the count of what may still be kept overflows *)
NoOverflow == \A o \in Objects : Size[o] <= MaxCached + IntMax + 1

(* One pass of the loop of StreamCopier *)
LEMMA CopySends ==
  ASSUME NoOverflow, TypeOK, NEW t \in Threads, Sending(t), Copy(t)
  PROVE  Sending(t)'
<1> DEFINE r == req[t]
           n == Sent(t)
<1>1. /\ pc[t] = "copy" /\ pc' = pc /\ req' = req /\ status' = status
      /\ pc \in [Threads -> Places] /\ req \in [Threads -> Requests] /\ body \in [Threads -> Bodies]
      /\ kept \in [Threads -> Seq(Nat)] /\ left \in [Threads -> Int]
  BY DEF Copy, TypeOK, TypeLocal
<1>2. /\ ForObject(t) /\ r.get /\ body[t].file = r.file /\ body[t].object = r.object
      /\ body[t].bytes = Bytes(n) /\ n <= Size[r.object] /\ status[t] = "none"
      /\ Cacheable(t) => left[t] = MaxCached - n /\ kept[t] = Bytes(Min({n, MaxCached}))
  BY <1>1 DEF Sending
<1>3. body[t] \in Bodies /\ body[t].bytes \in Seq(Nat) /\ n \in Nat
  BY <1>1 DEF Bodies, Sent
<1>4. PICK m \in 1 .. BufferSize :
        LET buf == [i \in 1 .. m |-> n + i]
            nr == Min({left[t], m})
        IN  /\ n + m <= Size[r.object]
            /\ body' = [body EXCEPT ![t].bytes = @ \o buf]
            /\ kept' = IF nr > 0 THEN [kept EXCEPT ![t] = @ \o SubSeq(buf, 1, nr)] ELSE kept
            /\ left' = [left EXCEPT ![t] = JavaInt(@ - m)]
  BY DEF Copy
<1>5. m \in Nat /\ m > 0 /\ MaxCached \in Nat /\ IntMax \in Nat /\ MaxCached <= IntMax
  BY WebConstants
<1> DEFINE buf == [i \in 1 .. m |-> n + i]
           nr == Min({left[t], m})
<1>6. /\ body'[t].bytes = Bytes(n + m) /\ body'[t].file = body[t].file /\ body'[t].object = body[t].object
  <2>1. body[t].bytes \o buf = Bytes(n + m)
    BY <1>2, <1>3, <1>5, BytesAppended
  <2>2. body'[t] = [body[t] EXCEPT !.bytes = body[t].bytes \o buf]
    BY <1>1, <1>4
  <2>3. body'[t] = [body[t] EXCEPT !.bytes = Bytes(n + m)]
    BY <2>1, <2>2
  <2>. QED
    BY <1>3, <2>3 DEF Bodies
<1>7. Sent(t)' = n + m
  <2>1. n + m \in Nat
    BY <1>3, <1>5
  <2>2. Len(Bytes(n + m)) = n + m
    BY <2>1, BytesType
  <2>3. Sent(t)' = Len(body'[t].bytes)
    BY DEF Sent
  <2>. QED
    BY <1>6, <2>2, <2>3
<1>8. ASSUME Cacheable(t) PROVE left'[t] = MaxCached - (n + m) /\ kept'[t] = Bytes(Min({n + m, MaxCached}))
  <2>1. r.object \in Objects /\ Size[r.object] \in Nat /\ Size[r.object] <= MaxCached + IntMax + 1
    BY <1>8, WebConstants DEF Cacheable, NoOverflow
  <2>2. left[t] = MaxCached - n /\ kept[t] = Bytes(Min({n, MaxCached})) /\ n + m <= Size[r.object]
    BY <1>2, <1>4, <1>8
  <2> DEFINE x == left[t] - m
  <2>3. x = MaxCached - (n + m) /\ x \in Int /\ - IntMax - 1 <= x /\ x <= IntMax
    BY <1>3, <1>5, <2>1, <2>2
  <2>4. left'[t] = JavaInt(x)
    BY <1>1, <1>4
  <2> HIDE DEF x
  <2>5. left'[t] = MaxCached - (n + m)
    BY <2>3, <2>4, JavaIntExact
  <2>6. /\ Min({n, MaxCached}) = (IF n <= MaxCached THEN n ELSE MaxCached)
        /\ Min({n + m, MaxCached}) = (IF n + m <= MaxCached THEN n + m ELSE MaxCached)
        /\ nr = IF MaxCached - n <= m THEN MaxCached - n ELSE m
    <3>1. n \in Int /\ m \in Int /\ MaxCached \in Int /\ n + m \in Int /\ MaxCached - n \in Int
      BY <1>3, <1>5
    <3>. QED
      BY <2>2, <3>1, SmallerOfTwo
  <2>7. CASE nr > 0
    <3>1. nr \in Nat /\ nr <= m /\ Min({n, MaxCached}) = n /\ Min({n + m, MaxCached}) = n + nr
      <4>1. n \in Nat /\ m \in Nat /\ MaxCached \in Nat
        BY <1>3, <1>5
      <4> HIDE DEF nr, n
      <4>. QED
        BY <2>6, <2>7, <4>1, RoomLeft
    <3>2. kept'[t] = kept[t] \o SubSeq(buf, 1, nr)
      BY <1>1, <1>4, <2>7
    <3>3. kept[t] = Bytes(n)
      BY <2>2, <3>1
    <3> HIDE DEF nr, n
    <3>4. SubSeq(buf, 1, nr) = [i \in 1 .. nr |-> n + i]
      BY <1>3, <1>5, <3>1, BytesCut
    <3>5. Bytes(n) \o [i \in 1 .. nr |-> n + i] = Bytes(n + nr)
      BY <1>3, <3>1, BytesAppended
    <3>6. kept'[t] = Bytes(n + nr)
      BY <3>2, <3>3, <3>4, <3>5
    <3>. QED
      BY <2>5, <3>1, <3>6
  <2>8. CASE ~(nr > 0)
    <3>1. Min({n, MaxCached}) = MaxCached /\ Min({n + m, MaxCached}) = MaxCached
      BY <1>3, <1>5, <2>6, <2>8
    <3>2. kept' = kept
      BY <1>4, <2>8
    <3>. QED
      BY <2>2, <2>5, <3>1, <3>2
  <2>. QED
    BY <2>7, <2>8
<1>9. n + m <= Size[r.object]
  BY <1>4
<1> HIDE DEF n
<1>. QED
  BY <1>1, <1>2, <1>6, <1>7, <1>8, <1>9 DEF Sending, ForObject, Cacheable

LEMMA StepSends ==
  ASSUME NoOverflow, TypeOK, CacheSound, NEW t \in Threads, Sending(t), Acts(t)
  PROVE  Sending(t)'
<1>1. /\ pc \in [Threads -> Places] /\ req \in [Threads -> Requests] /\ body \in [Threads -> Bodies]
      /\ kept \in [Threads -> Seq(Nat)] /\ left \in [Threads -> Int]
      /\ status \in [Threads -> {"none", "ok", "error"}]
      /\ MaxCached \in Nat
  BY WebConstants DEF TypeOK, TypeLocal
<1>2. Sent(t) \in Nat
  <2>1. body[t] \in Bodies
    BY <1>1
  <2>. QED
    BY <2>1 DEF Sent, Bodies
<1>3. CASE Acquire(t)
  <2>1. /\ pc[t] = "acquire" /\ pc'[t] = "respond" /\ kept' = kept /\ status' = status
    BY <1>1, <1>3 DEF Acquire, Goto
  <2>. QED
    BY <2>1 DEF Sending
<1>4. CASE Describe(t)
  <2>1. pc'[t] = "release" /\ req' = req /\ ~ForObject(t)
    BY <1>1, <1>4 DEF Describe, Ends, Goto
  <2>. QED
    BY <2>1 DEF Sending, ForObject
<1>5. CASE RespondFails(t) \/ GetFails(t) \/ OpenFails(t) \/ CopyFails(t)
  <2>1. pc'[t] = "release" /\ status'[t] = "error"
    BY <1>1, <1>5 DEF RespondFails, GetFails, OpenFails, CopyFails, Ends, Goto
  <2>. QED
    BY <2>1 DEF Sending
<1>6. CASE FromCache(t)
  <2>1. /\ pc'[t] = "release" /\ req' = req
        /\ CacheKey(req[t]) \in DOMAIN cache
        /\ req[t].get => body'[t] = cache[CacheKey(req[t])]
    BY <1>1, <1>6 DEF FromCache, Ends, Goto, Hit
  <2>2. /\ Whole(cache[CacheKey(req[t])])
        /\ CacheKey(req[t]) = <<cache[CacheKey(req[t])].file, cache[CacheKey(req[t])].object>>
    BY <2>1 DEF CacheSound
  <2>3. /\ cache[CacheKey(req[t])].file = req[t].file
        /\ cache[CacheKey(req[t])].object = req[t].object
    BY <2>2 DEF CacheKey
  <2>4. req[t].get => Whole(body'[t]) /\ body'[t].file = req[t].file /\ body'[t].object = req[t].object
    BY <2>1, <2>2, <2>3
  <2>. QED
    BY <2>1, <2>4 DEF Sending, Whole
<1>7. CASE CacheMiss(t)
  <2>1. /\ pc[t] = "respond" /\ pc'[t] = "open" /\ req' = req /\ kept' = kept /\ status' = status /\ ForObject(t)
    BY <1>1, <1>7 DEF CacheMiss, Goto
  <2>. QED
    BY <2>1 DEF Sending, ForObject
<1>8. CASE Open(t)
  <2>1. /\ pc[t] = "open" /\ req' = req /\ kept' = kept /\ status' = status
        /\ pc'[t] = IF req[t].get THEN "copy" ELSE "close"
        /\ left'[t] = MaxCached
        /\ req[t].get => body'[t] = Answer(req[t].file, req[t].object, <<>>)
    BY <1>1, <1>8 DEF Open, Goto
  <2>2. ForObject(t) /\ kept[t] = <<>> /\ status[t] = "none"
    BY <2>1 DEF Sending
  <2>3. CASE ~req[t].get
    BY <2>1, <2>2, <2>3 DEF Sending, ForObject
  <2>4. CASE req[t].get
    <3>1. /\ body'[t].bytes = <<>> /\ body'[t].file = req[t].file /\ body'[t].object = req[t].object
      BY <2>1, <2>4 DEF Answer
    <3>2. Sent(t)' = 0
      BY <3>1 DEF Sent
    <3>3. Bytes(0) = <<>> /\ Min({0, MaxCached}) = 0
      BY <1>1, SmallerOfTwo DEF Bytes
    <3>4. req[t] \in Requests
      BY <1>1
    <3>5. req[t].object \in Answers
      BY <2>2, <3>4 DEF ForObject, Requests
    <3>6. 0 <= Size[req[t].object]
      BY <3>5, WebConstants DEF Answers
    <3>7. left'[t] = MaxCached - 0
      BY <1>1, <2>1
    <3>. QED
      BY <2>1, <2>2, <2>4, <3>1, <3>2, <3>3, <3>6, <3>7 DEF Sending, ForObject
  <2>. QED
    BY <2>3, <2>4
<1>9. CASE Copy(t)
  BY <1>9, CopySends
<1>10. CASE CopyEnds(t)
  <2>1. /\ pc[t] = "copy" /\ Sent(t) = Size[req[t].object]
        /\ req' = req /\ body' = body /\ kept' = kept
        /\ \/ Cacheable(t) /\ left[t] >= 0 /\ pc'[t] = "put" /\ status' = status
           \/ pc'[t] = "release" /\ status'[t] = "ok"
    BY <1>1, <1>10 DEF CopyEnds, Ends, Goto
  <2>2. /\ ForObject(t) /\ req[t].get /\ body[t].file = req[t].file /\ body[t].object = req[t].object
        /\ body[t].bytes = Bytes(Sent(t)) /\ status[t] = "none"
        /\ Cacheable(t) => left[t] = MaxCached - Sent(t) /\ kept[t] = Bytes(Min({Sent(t), MaxCached}))
    BY <2>1 DEF Sending
  <2>3. Sent(t)' = Sent(t)
    BY <2>1 DEF Sent
  <2>4. Whole(body[t])
    BY <2>1, <2>2 DEF Whole, Bytes
  <2>5. CASE pc'[t] = "release" /\ status'[t] = "ok"
    BY <2>1, <2>2, <2>4, <2>5 DEF Sending, Whole, ForObject
  <2>6. CASE Cacheable(t) /\ left[t] >= 0 /\ pc'[t] = "put" /\ status' = status
    <3>1. Sent(t) <= MaxCached
      BY <1>1, <1>2, <2>2, <2>6
    <3>2. Min({Sent(t), MaxCached}) = Sent(t)
      <4>1. Sent(t) \in Int /\ MaxCached \in Int
        BY <1>1, <1>2
      <4>2. Min({Sent(t), MaxCached}) = IF Sent(t) <= MaxCached THEN Sent(t) ELSE MaxCached
        BY <4>1, SmallerOfTwo, Zenon
      <4>. QED
        BY <3>1, <4>2
    <3>3. kept'[t] = Bytes(Sent(t))
      BY <2>1, <2>2, <2>6, <3>2
    <3>4. Sent(t) <= Size[req[t].object]
      BY <1>2, <2>1
    <3>. QED
      BY <2>1, <2>2, <2>3, <2>6, <3>1, <3>3, <3>4 DEF Sending, ForObject, Cacheable
  <2>. QED
    BY <2>1, <2>5, <2>6
<1>11. CASE CloseUnread(t)
  <2>1. pc[t] = "close" /\ pc'[t] = "release" /\ req' = req
    BY <1>1, <1>11 DEF CloseUnread, Ends, Goto
  <2>2. ~req[t].get
    BY <2>1 DEF Sending
  <2>. QED
    BY <2>1, <2>2 DEF Sending
<1>12. CASE Keep(t)
  <2>1. pc[t] = "put" /\ pc'[t] = "release" /\ req' = req /\ body' = body
    BY <1>1, <1>12 DEF Keep, Ends, Goto
  <2>2. /\ body[t].file = req[t].file /\ body[t].object = req[t].object
        /\ body[t].bytes = Bytes(Sent(t)) /\ Sent(t) = Size[req[t].object]
    BY <2>1 DEF Sending
  <2>3. Whole(body[t])
    BY <2>2 DEF Whole, Bytes
  <2>. QED
    BY <2>1, <2>2, <2>3 DEF Sending, Whole
<1>13. CASE Release(t)
  <2>1. pc'[t] = "idle" /\ kept'[t] = <<>> /\ status'[t] = "none"
    BY <1>1, <1>13 DEF Release, Returns, Goto
  <2>. QED
    BY <2>1 DEF Sending
<1>14. CASE PoolWaits(t) \/ PoolStartFails(t) \/ FindsDead(t)
  <2>1. SameThread(t)
    BY <1>14 DEF PoolWaits, PoolStartFails, FindsDead, local, SameThread
  <2>. QED
    BY <2>1, SendingKept
<1>. QED
  BY <1>3, <1>4, <1>5, <1>6, <1>7, <1>8, <1>9, <1>10, <1>11, <1>12, <1>13, <1>14 DEF Acts, Step, Fail

(* What is put in the cache is whole *)
LEMMA KeepSound ==
  ASSUME TypeOK, CacheSound, NEW t \in Threads, Sending(t), Keep(t)
  PROVE  CacheSound'
<1> DEFINE k == CacheKey(req[t])
           v == Answer(req[t].file, req[t].object, kept[t])
<1>1. pc[t] = "put" /\ cache' = Put(cache, k, v)
  BY DEF Keep
<1>2. /\ Cacheable(t) /\ Sent(t) <= MaxCached /\ Sent(t) = Size[req[t].object] /\ kept[t] = Bytes(Sent(t))
  BY <1>1 DEF Sending
<1>3. v.file = req[t].file /\ v.object = req[t].object /\ v.bytes = kept[t]
  BY DEF Answer
<1>4. Sent(t) \in Nat
  <2>1. body[t] \in Bodies
    BY DEF TypeOK, TypeLocal
  <2>. QED
    BY <2>1 DEF Sent, Bodies
<1>5. k = <<v.file, v.object>> /\ v.object \in Objects
  BY <1>2, <1>3 DEF CacheKey, Cacheable
<1>6. Whole(v) /\ Len(v.bytes) <= MaxCached
  BY <1>2, <1>3, <1>4, BytesType DEF Whole, Bytes
<1> HIDE DEF k, v
<1>7. ASSUME NEW x \in DOMAIN cache'
      PROVE  (x = k /\ cache'[x] = v) \/ (x \in DOMAIN cache /\ cache'[x] = cache[x])
  BY <1>1 DEF Put
<1>. QED
  BY <1>5, <1>6, <1>7 DEF CacheSound, Whole

LEMMA NextData ==
  ASSUME NoOverflow, TypeOK, DataInv, [Next]_vars
  PROVE  DataInv'
<1>1. CacheSound /\ \A t \in Threads : Sending(t)
  BY DEF DataInv
<1>2. ASSUME UNCHANGED cache PROVE CacheSound'
  BY <1>1, <1>2 DEF CacheSound, Whole
<1>3. ASSUME UNCHANGED local PROVE \A t \in Threads : Sending(t)'
  BY <1>1, <1>3, SendingKept DEF local, SameThread
<1>4. CASE Reload \/ Load \/ (\E t \in Threads : Reject(t)) \/ UNCHANGED vars
  <2>1. UNCHANGED cache /\ UNCHANGED local
    BY <1>4 DEF Reload, Load, LoadLine, LoadFails, Publish, Reject, vars, shared
  <2>. QED
    BY <1>2, <1>3, <2>1 DEF DataInv
<1>5. ASSUME NEW k \in DOMAIN cache, Evict(k) PROVE DataInv'
  <2>1. UNCHANGED local /\ cache' = [x \in DOMAIN cache \ {k} |-> cache[x]]
    BY <1>5 DEF Evict
  <2>2. \A x \in DOMAIN cache' : x \in DOMAIN cache /\ cache'[x] = cache[x]
    BY <2>1
  <2>3. CacheSound'
    BY <1>1, <2>2 DEF CacheSound, Whole
  <2>. QED
    BY <1>3, <2>1, <2>3 DEF DataInv
<1>6. ASSUME NEW t \in Threads, Begin(t) PROVE DataInv'
  <2>1. /\ pc[t] = "idle" /\ pc'[t] = "acquire" /\ UNCHANGED <<kept, status, cache>>
    BY <1>6 DEF Begin, Goto, TypeOK, TypeLocal
  <2>2. kept[t] = <<>> /\ status[t] = "none"
    BY <1>1, <2>1 DEF Sending
  <2>3. Sending(t)'
    BY <2>1, <2>2 DEF Sending
  <2>4. \A s \in Threads : s # t => Sending(s)'
    BY <1>1, <1>6, StepOthers, SendingKept
  <2>. QED
    BY <1>2, <2>1, <2>3, <2>4 DEF DataInv
<1>7. ASSUME NEW t \in Threads, Acts(t) PROVE DataInv'
  <2>1. Sending(t)'
    BY <1>1, <1>7, StepSends
  <2>2. \A s \in Threads : s # t => Sending(s)'
    BY <1>1, <1>7, StepOthers, SendingKept
  <2>3. CASE Keep(t)
    BY <1>1, <2>1, <2>2, <2>3, KeepSound DEF DataInv
  <2>4. CASE ~Keep(t)
    <3>1. UNCHANGED cache
      BY <1>7, <2>4 DEF Acts, Step, Fail, Acquire, Describe, RespondFails, FromCache, CacheMiss, PoolWaits,
         PoolStartFails, FindsDead, GetFails, Open, OpenFails, Copy, CopyEnds, CloseUnread, CopyFails,
         Release, shared
    <3>. QED
      BY <1>2, <2>1, <2>2, <3>1 DEF DataInv
  <2>. QED
    BY <2>3, <2>4
<1>. QED
  BY <1>4, <1>5, <1>6, <1>7 DEF Next, Acts

LEMMA DataInvariant ==
  ASSUME NoOverflow
  PROVE  Spec => []DataInv
<1>1. Init => DataInv
  BY DEF Init, DataInv, CacheSound, Sending
<1>2. TypeOK /\ DataInv /\ [Next]_vars => DataInv'
  BY NextData
<1>. QED
  BY <1>1, <1>2, ConfigInvariant, PTL DEF Spec

(* A request for an object that ends without an error has sent the whole     *)
(* answer for the file its path named when it began, read or cached, for any *)
(* sizes, buffers, threads and reloads, unless an answer is longer than an   *)
(* int can count from max_cached_response_size down (the finding of the run  *)
(* ResponseWraps about max_left_to_buffer in StreamCopier).                  *)
THEOREM AnswersAlwaysRight ==
  ASSUME NoOverflow
  PROVE  Spec => []AnswerRight
<1>1. TypeOK /\ ConfigInv /\ DataInv => AnswerRight
  <2> SUFFICES ASSUME TypeOK, ConfigInv, DataInv, NEW t \in Threads,
                      status[t] = "ok", req[t].get, ForObject(t)
               PROVE  /\ Whole(body[t])
                      /\ body[t].file = req[t].root.tree.files[req[t].path]
                      /\ body[t].object = req[t].object
    BY DEF AnswerRight
  <2>1. Whole(body[t]) /\ body[t].file = req[t].file /\ body[t].object = req[t].object
    BY DEF DataInv, Sending
  <2>2. pc[t] # "idle"
    BY DEF DataInv, Sending
  <2>3. req[t].file = req[t].root.tree.files[req[t].path]
    BY <2>2 DEF ConfigInv, Served, ForObject
  <2>. QED
    BY <2>1, <2>3
<1>. QED
  BY <1>1, ConfigInvariant, DataInvariant, PTL

(* The response cache holds whole answers within the limit only ("Only cache *)
(* responses smaller than this limit (bytes)", web.xml) as long as no answer *)
(* is longer than max_cached_response_size + 2^31: with a longer one the run *)
(* ResponseWraps finds a truncated entry.                                    *)
THEOREM CacheAlwaysWhole ==
  ASSUME NoOverflow
  PROVE  Spec => []CachedWhole
<1>1. DataInv => CachedWhole
  BY DEF DataInv, CacheSound, CachedWhole
<1>. QED
  BY <1>1, DataInvariant, PTL

=============================================================================
