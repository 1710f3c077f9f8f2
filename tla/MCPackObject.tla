---------------------------- MODULE MCPackObject ----------------------------
(* Instances of MultiSlice and PackObject for TLC: datasets of rank 0 to 3,  *)
(* some of them empty, and requests of rank 0 to 3 with up to three slices,  *)
(* in order or not, touching, overlapping, empty or outside; inner sizes     *)
(* that wrap.                                                                *)
EXTENDS PackObject

Dataset(d, n, k) == [dims |-> d, element_size |-> n, kind |-> k]

MCDatasets ==
  { Dataset(<<>>, 2, "fixed"), Dataset(<<4>>, 2, "fixed"), Dataset(<<3>>, 1, "vlen"),
    Dataset(<<0>>, 1, "fixed"), Dataset(<<3>>, 1, "nested"), Dataset(<<3, 2>>, 1, "fixed"),
    Dataset(<<2, 1>>, 4, "fixed"), Dataset(<<3, 2>>, 1, "vlen"), Dataset(<<2, 0>>, 1, "nested"),
    Dataset(<<2, 2, 2>>, 1, "fixed") }

Request(r, s) == [rank |-> r, slices |-> s]
Slice(s, c) == [start |-> s, count |-> c]

Slices1(S, C) == { Slice(<<s>>, <<c>>) : s \in S, c \in C }
Slices2(C) ==
  { Slice(<<s1, s2>>, <<c1, c2>>) : s1 \in 0 .. 2, s2 \in 0 .. 1, c1 \in 0 .. 2, c2 \in C }
Slices3(C) ==
  { Slice(<<s1, 0, s3>>, <<c1, c2, c3>>) : s1 \in 0 .. 1, s3 \in 0 .. 1, c1 \in 1 .. 2, c2 \in C, c3 \in C }

MCRequests ==
  { Request(0, s) : s \in {<<>>, <<Slice(<<>>, <<>>)>>} }
  \cup { Request(1, s) : s \in UNION { [1 .. n -> Slices1(0 .. 3, 0 .. 2)] : n \in 1 .. 3 } }
  \cup { Request(1, <<s>>) : s \in Slices1({0, 7}, {3, 4, 7}) }
  \cup { Request(2, <<s>>) : s \in Slices2({0, 4}) }
  \cup { Request(2, s) : s \in UNION { [1 .. n -> Slices2({1, 2})] : n \in 1 .. 2 } }
  \cup { Request(3, <<s>>) : s \in Slices3({1, 4}) }
  \cup { Request(3, <<s, t>>) : s \in Slices3({2}), t \in Slices3({2}) }

(* Every dataset by itself, and an empty one whose inner sizes wrap; a group *)
(* in itself and in a member, with links of every kind; a group with too     *)
(* many links, an object found twice; an external link to nothing, and an    *)
(* attribute that cannot be packed.                                          *)
Link(name, type, to) == [name |-> name, type |-> type, to |-> to]
Hard(name, to) == Link(name, "hard", to)
Group(links) == [type |-> "group", links |-> links, attributes |-> <<[rank |-> 0, kind |-> "fixed"]>>]
Data(d, attributes) == [type |-> "dataset", dataset |-> d, attributes |-> attributes]

small == Data(Dataset(<<2>>, 1, "fixed"), <<>>)

MCFiles ==
  { [root |-> Data(d, <<>>)] : d \in MCDatasets \cup {Dataset(<<0, 4, 4>>, 1, "fixed")} }
  \cup
  { [ root |-> Group(<<Hard("g", "g"), Link("s", "soft", ""), Hard("up", "root")>>),
      g    |-> Group(<<Hard("x", "data"), Link("u", "user", ""), Hard("up", "root"), Hard("t", "type")>>),
      data |-> small, type |-> [type |-> "other"] ],
    [ root |-> Group(<<Hard("g", "g"), Hard("h", "h"), Hard("x", "data"), Hard("y", "data"), Hard("t", "type")>>),
      g    |-> Group(<<Hard("h", "h"), Hard("g", "g")>>),
      h    |-> Group(<<Hard("g", "g"), Hard("x", "data"), Hard("y", "data"), Hard("z", "data"), Hard("u", "g")>>),
      data |-> small, type |-> [type |-> "other"] ],
    [ root |-> Group(<<Hard("g", "g"), Hard("x", "data")>>),
      g    |-> Group(<<Link("e", "external", "none"), Hard("n", "nested")>>),
      data |-> small, nested |-> Data(Dataset(<<>>, 1, "fixed"), <<[rank |-> 0, kind |-> "nested"]>>) ],
    [ root |-> Group(<<Hard("g", "g")>>),
      g    |-> [Group(<<>>) EXCEPT !.attributes = <<[rank |-> MaxDims + 1, kind |-> "fixed"]>>] ] }
=============================================================================
