----------------------------- MODULE MultiSlice -----------------------------
(***************************************************************************)
(* How a reader process reads slices of a dataset and packs them:          *)
(* pack_dataset_multi_slice_with_max_size in src/src/hdf5/pack_dataset.c,  *)
(* the selection of one buffer full of rows after another in multislice.c  *)
(* and select.c, and the cutting of the bytes into msgpack objects in      *)
(* pack_contents.c.  One iteration of each loop is one action.             *)
(*                                                                         *)
(* The dataset holds its bytes 0, 1, 2, ... in the order of the file, so   *)
(* that the bytes sent tell where they came from.  A rank that is not the  *)
(* dataset's makes the code use values it never set: they are chosen from  *)
(* Garbage.  Arithmetic of hsize_t and size_t is modulo Width.             *)
(***************************************************************************)
EXTENDS Integers, Sequences, FiniteSets, SequencesExt

CONSTANTS
  Width,          \* 2^64
  MaxDims,        \* HDFSTREAM_MAX_DIMS
  MaxSlices,      \* HDFSTREAM_MAX_SLICES
  MaxSelections,  \* MAX_SELECTIONS_PER_BUFFER
  MaxSize,        \* largest msgpack object
  Datasets,       \* records with dims, element_size and kind
  Requests,       \* records with rank and slices
  BufferSizes,    \* the read buffer, in bytes
  Limits,         \* values of data_size_limit
  Garbage,        \* what an hsize_t that was never set may hold
  CanFail         \* may HDF5 or writing to the stream fail?

Kinds == {"fixed", "vlen", "nested"}

Product(s) ==
  LET product[n \in 0 .. Len(s)] == IF n = 0 THEN 1 ELSE product[n - 1] * s[n]
  IN product[Len(s)]

(* Sizes of a dataset in a file are hsize_t, and its bytes can be counted *)
IsDataset(d) ==
  /\ d.dims \in Seq(0 .. Width - 1) /\ d.element_size \in Nat \ {0} /\ d.kind \in Kinds
  /\ Product(d.dims) * d.element_size + MaxSize <= Width

ASSUME SliceConstants ==
  /\ {Width, MaxDims, MaxSlices, MaxSelections, MaxSize} \subseteq Nat \ {0}
  /\ BufferSizes \cup Garbage \cup Limits \subseteq 0 .. Width - 1
  /\ \A d \in Datasets : IsDataset(d)
  /\ \A r \in Requests :
       /\ r.rank \in Nat
       /\ r.slices \in Seq([start : Seq(Nat), count : Seq(Nat)])
       /\ \A s \in ToSet(r.slices) :
            /\ Len(s.start) = r.rank /\ Len(s.count) = r.rank
            \* the Java binding refuses negative starts and counts
            /\ \A d \in 1 .. r.rank : {s.start[d], s.count[d]} \subseteq 0 .. (Width \div 2) - 1
  /\ CanFail \in BOOLEAN

VARIABLES
  dataset, request, buffer_size,
  pc,                   \* where in the code
  result,               \* how it ended
  inner,                \* ms->start and ms->count of all dimensions but the first
  elements_per_buffer, elements_left_total, slice_nr, offset_in_slice,
  elements_left_in_buffer,
  selected,             \* select_start and select_count
  nr_elements_to_read,
  announced,            \* entries of the "data" array according to the header
  total_bytes_left, bytes_left_in_bin,
  bins,                 \* sizes in the headers of the msgpack_bins written
  buffer,               \* what was read and is not packed yet
  out                   \* what was packed

input   == <<dataset, request, buffer_size>>
cursor  == <<elements_left_total, slice_nr, offset_in_slice>>
choice  == <<elements_left_in_buffer, selected, nr_elements_to_read>>
header  == <<inner, elements_per_buffer, announced>>
packing == <<total_bytes_left, bytes_left_in_bin, bins, buffer, out>>
vars    == <<input, pc, result, header, cursor, choice, packing>>

-----------------------------------------------------------------------------
rank   == request.rank
slices == request.slices
dims   == dataset.dims

MinSize(a, b) == IF a < b THEN a ELSE b

(* counts of the first slice in all dimensions but the first *)
InnerCounts == SubSeq(slices[1].count, 2, rank)

(* Values per element of the first axis, and their bytes *)
NrElements == Product(InnerCounts) % Width
RowBytes   == (NrElements * dataset.element_size) % Width

(* Mutant: the division rounds up *)
MutantElementsPerBuffer ==
  IF NrElements > 0 THEN (buffer_size + RowBytes - 1) \div RowBytes ELSE 0

(* Calculate how many elements we can fit in the read buffer *)
ElementsPerBuffer == IF NrElements > 0 THEN buffer_size \div RowBytes ELSE 0

RowFits == NrElements > 0 => ElementsPerBuffer >= 1

(* H5Sget_simple_extent_dims sets as many entries of file_dims as the       *)
(* dataset has dimensions                                                   *)
FileDims ==
  { [d \in 1 .. rank |-> IF d <= Len(dims) THEN dims[d] ELSE g[d]] :
      g \in [Len(dims) + 1 .. rank -> Garbage] }

(* Mutant: off by one at the end of a dimension *)
MutantInFile(s, file_dims) ==
  \A d \in 1 .. rank : (s.start[d] + s.count[d]) % Width <= file_dims[d] + 1

InFile(s, file_dims) ==
  \A d \in 1 .. rank : (s.start[d] + s.count[d]) % Width <= file_dims[d]

(* Mutant: order and overlap are not checked *)
MutantFollows(s0, s1) ==
  \A d \in 2 .. rank : s0.start[d] = s1.start[d] /\ s0.count[d] = s1.count[d]

(* In ascending order, without overlap, and alike but for the first dimension *)
Follows(s0, s1) ==
  /\ s1.start[1] >= s0.start[1]
  /\ (s0.start[1] + s0.count[1]) % Width <= s1.start[1]
  /\ \A d \in 2 .. rank : s0.start[d] = s1.start[d] /\ s0.count[d] = s1.count[d]

(* The checks of multislice_init *)
SlicesAccepted(file_dims) ==
  /\ rank <= MaxDims
  /\ Len(slices) <= MaxSlices
  /\ rank > 0 => \A i \in DOMAIN slices :
                   /\ InFile(slices[i], file_dims)
                   /\ i > 1 => Follows(slices[i - 1], slices[i])

(* ms->total_count *)
Total(counts) ==
  LET total[n \in 0 .. Len(counts)] == IF n = 0 THEN 0 ELSE (total[n - 1] + counts[n]) % Width
  IN total[Len(counts)]

(* Rows of the first k slices *)
RowsOf(k) == Total([i \in 1 .. k |-> slices[i].count[1]])

TotalCount == IF rank = 0 THEN <<>> ELSE <<RowsOf(Len(slices))>> \o InnerCounts

DataSize == (Product(TotalCount) * dataset.element_size) % Width

(* Mutant: one bin too many if the bytes fill the last *)
MutantNrBinsNeeded(nr_bytes) == nr_bytes \div MaxSize + 1

NrBinsNeeded(nr_bytes) == ((nr_bytes + MaxSize - 1) % Width) \div MaxSize

(* Entries of the "data" array: pieces of MaxSize bytes, or one for every   *)
(* element of variable length                                               *)
NrEntries ==
  IF dataset.kind = "fixed" THEN NrBinsNeeded(DataSize) ELSE Product(TotalCount) % Width

-----------------------------------------------------------------------------
NoRequest == [rank |-> 0, slices |-> <<>>]

(* The local variables before a call *)
Fresh ==
  /\ result = "none"
  /\ inner = <<>>
  /\ elements_per_buffer = 0 /\ elements_left_total = 0
  /\ slice_nr = 0 /\ offset_in_slice = 0
  /\ elements_left_in_buffer = 0 /\ selected = <<>> /\ nr_elements_to_read = 0
  /\ announced = 0 /\ total_bytes_left = 0 /\ bytes_left_in_bin = 0
  /\ bins = <<>> /\ buffer = <<>> /\ out = <<>>

(* A request for slices, or for a dataset *)
Init ==
  /\ dataset \in Datasets
  /\ buffer_size \in BufferSizes
  /\ \/ pc = "begin" /\ request \in Requests
     \/ pc = "object" /\ request = NoRequest
  /\ Fresh

End(r) == pc' = "end" /\ result' = r

(* pack_dataset: the contents are packed as one slice if they are small enough *)
PackDataset ==
  /\ pc = "object"
  /\ \E data_size_limit \in Limits :
       IF Len(dims) > MaxDims THEN End("refused") /\ UNCHANGED request
       ELSE IF (Product(dims) * dataset.element_size) % Width > data_size_limit
       THEN End("no_data") /\ UNCHANGED request
       ELSE /\ request' = [rank |-> Len(dims),
                           slices |-> <<[start |-> [d \in DOMAIN dims |-> 0], count |-> dims]>>]
            /\ pc' = "begin"
            /\ UNCHANGED result
  /\ UNCHANGED <<dataset, buffer_size, header, cursor, choice, packing>>

(* The buffer is divided up before the slices are checked against the file:  *)
(* if the bytes of a row are 2^64 the process ends with a division by zero   *)
DivideByZero ==
  /\ pc = "begin" /\ slices # <<>>
  /\ NrElements > 0 /\ RowBytes = 0
  /\ End("died")
  /\ UNCHANGED <<input, header, cursor, choice, packing>>

Divides == NrElements > 0 => RowBytes > 0

Refuse ==
  /\ pc = "begin"
  /\ \/ slices = <<>>
     \/ /\ slices # <<>> /\ Divides
        /\ \/ ~RowFits
           \/ \E file_dims \in FileDims : ~SlicesAccepted(file_dims)
           \/ dataset.kind # "fixed" /\ NrEntries > MaxSize
  /\ End("refused")
  /\ UNCHANGED <<input, header, cursor, choice, packing>>

(* The header is written.  Entries of ms->start and ms->count are set up to  *)
(* the rank of the request and used up to the rank of the dataset.           *)
Start ==
  /\ pc = "begin" /\ slices # <<>> /\ Divides /\ RowFits
  /\ \E file_dims \in FileDims : SlicesAccepted(file_dims)
  /\ dataset.kind # "fixed" => NrEntries <= MaxSize
  /\ \E g \in [rank + 1 .. Len(dims) -> [start : Garbage, count : Garbage]] :
       inner' = [d \in 1 .. Len(dims) |->
                   IF d <= rank THEN [start |-> slices[1].start[d], count |-> slices[1].count[d]]
                   ELSE g[d]]
  /\ elements_per_buffer' = ElementsPerBuffer
  /\ elements_left_total' = IF \E d \in 1 .. rank : TotalCount[d] = 0 THEN 0
                            ELSE IF rank = 0 THEN 1 ELSE TotalCount[1]
  /\ announced' = NrEntries
  /\ total_bytes_left' = DataSize
  /\ pc' = "next"
  /\ UNCHANGED <<input, result, slice_nr, offset_in_slice, choice, bytes_left_in_bin, bins, buffer, out>>

-----------------------------------------------------------------------------
(* multislice_select_next_buffer_data *)

SelectNext ==
  /\ pc = "next"
  /\ \/ /\ elements_left_total = 0
        /\ End("ok")
        /\ UNCHANGED <<cursor, choice>>
     \/ /\ elements_left_total > 0 /\ rank = 0
        /\ elements_left_total' = 0
        /\ nr_elements_to_read' = 1
        /\ pc' = "read"
        /\ UNCHANGED <<result, slice_nr, offset_in_slice, elements_left_in_buffer, selected>>
     \/ /\ elements_left_total > 0 /\ rank > 0
        /\ nr_elements_to_read' = 0
        /\ selected' = <<>>
        /\ elements_left_in_buffer' = MinSize(elements_per_buffer, elements_left_total)
        /\ pc' = "select"
        /\ UNCHANGED <<result, cursor>>
  /\ UNCHANGED <<input, header, packing>>

Selecting == elements_left_in_buffer > 0 /\ Len(selected) < MaxSelections

(* How many elements we can read from this slice *)
ElementsToRead(s) == MinSize(s.count[1] - offset_in_slice, elements_left_in_buffer)

(* Mutant: an empty slice is never left *)
MutantSliceDone(s, n) == n > 0 /\ offset_in_slice + n >= s.count[1]

(* May also need to advance to the next slice *)
SliceDone(s, n) == offset_in_slice + n >= s.count[1]

(* One pass of the loop over the slices *)
SelectSlice ==
  LET s == slices[slice_nr + 1]
      n == ElementsToRead(s)
  IN /\ pc = "select" /\ Selecting
     /\ selected' = IF n > 0
                    THEN Append(selected, [start |-> s.start[1] + offset_in_slice, count |-> n])
                    ELSE selected
     /\ offset_in_slice' = IF SliceDone(s, n) THEN 0 ELSE offset_in_slice + n
     /\ slice_nr' = IF SliceDone(s, n) THEN slice_nr + 1 ELSE slice_nr
     /\ elements_left_in_buffer' = elements_left_in_buffer - n
     /\ elements_left_total' = elements_left_total - n
     /\ nr_elements_to_read' = nr_elements_to_read + n
     /\ UNCHANGED <<input, pc, result, header, packing>>

Selected ==
  /\ pc = "select" /\ ~Selecting
  /\ pc' = "read"
  /\ UNCHANGED <<input, result, header, cursor, choice, packing>>

-----------------------------------------------------------------------------
(* select_slices and H5Dread.  The selection is the union of the slabs, and  *)
(* its points are read in the order of the file.                             *)

(* The coordinate of the e-th element of the file in dimension d *)
Coordinate(e, d) == (e \div Product(SubSeq(dims, d + 1, Len(dims)))) % dims[d]

Slab(s) == [d \in DOMAIN dims |-> IF d = 1 THEN s ELSE inner[d]]
Empty(slab) == \E d \in DOMAIN slab : slab[d].count = 0
InExtent(slab) == \A d \in DOMAIN slab : slab[d].start + slab[d].count <= dims[d]
Within(e, slab) ==
  \A d \in DOMAIN slab : Coordinate(e, d) \in slab[d].start .. slab[d].start + slab[d].count - 1

Elements == 0 .. Product(dims) - 1
Selection ==
  IF rank = 0 THEN Elements
  ELSE { e \in Elements : \E s \in ToSet(selected) : Within(e, Slab(s)) }

(* There are no hyperslabs of a scalar; a selection must be in the dataset,  *)
(* and have as many points as the memory dataspace                           *)
CanRead ==
  /\ rank > 0 => \A s \in ToSet(selected) :
                   dims # <<>> /\ (Empty(Slab(s)) \/ InExtent(Slab(s)))
  /\ Cardinality(Selection) =
       IF rank = 0 THEN 1 ELSE nr_elements_to_read * Product(InnerCounts)

(* What is packed of an element: its bytes, or an object of its own *)
Units(e) ==
  IF dataset.kind = "fixed"
  THEN [i \in 1 .. dataset.element_size |-> e * dataset.element_size + i - 1]
  ELSE <<e>>

(* The i-th element of S in the file comes after i - 1 others *)
InFileOrder(S) ==
  [i \in 1 .. Cardinality(S) |-> CHOOSE e \in S : Cardinality({ f \in S : f < e }) = i - 1]
UnitsOf(s) == FlattenSeq([i \in DOMAIN s |-> Units(s[i])])

Read ==
  /\ pc = "read"
  /\ IF CanRead
     THEN /\ buffer' = UnitsOf(InFileOrder(Selection))
          /\ pc' = "body"
          /\ UNCHANGED result
     ELSE End("failed") /\ UNCHANGED buffer
  /\ UNCHANGED <<input, header, cursor, choice, total_bytes_left, bytes_left_in_bin, bins, out>>

-----------------------------------------------------------------------------
(* pack_contents_body *)

(* One pass of its loop: bytes go to the current msgpack_bin, after the      *)
(* header of a new one if that is full                                       *)
PackBin ==
  LET new   == bytes_left_in_bin = 0
      bin   == MinSize(total_bytes_left, MaxSize)
      space == IF new THEN bin ELSE bytes_left_in_bin
      n     == MinSize(Len(buffer), space)
  IN /\ pc = "body" /\ dataset.kind = "fixed" /\ buffer # <<>>
     /\ bins' = IF new THEN Append(bins, bin) ELSE bins
     /\ total_bytes_left' = IF new THEN total_bytes_left - bin ELSE total_bytes_left
     /\ bytes_left_in_bin' = space - n
     /\ out' = out \o SubSeq(buffer, 1, n)
     /\ buffer' = SubSeq(buffer, n + 1, Len(buffer))
     /\ UNCHANGED <<input, pc, result, header, cursor, choice>>

(* One element of variable length: a string, or an array with a header and   *)
(* a body of its own                                                         *)
PackElement ==
  /\ pc = "body" /\ dataset.kind = "vlen" /\ buffer # <<>>
  /\ out' = Append(out, Head(buffer))
  /\ buffer' = Tail(buffer)
  /\ UNCHANGED <<input, pc, result, header, cursor, choice, total_bytes_left, bytes_left_in_bin, bins>>

(* Variable length inside a compound or an array is not implemented *)
PackNested ==
  /\ pc = "body" /\ dataset.kind = "nested"
  /\ End("failed")
  /\ UNCHANGED <<input, header, cursor, choice, packing>>

Packed ==
  /\ pc = "body" /\ dataset.kind # "nested" /\ buffer = <<>>
  /\ pc' = "next"
  /\ UNCHANGED <<input, result, header, cursor, choice, packing>>

(* An error of HDF5, or a write to a stream that was cancelled *)
Fail ==
  /\ CanFail
  /\ pc \in {"begin", "read", "body"}
  /\ End("failed")
  /\ UNCHANGED <<input, header, cursor, choice, packing>>

Next ==
  \/ PackDataset \/ DivideByZero \/ Refuse \/ Start
  \/ SelectNext \/ SelectSlice \/ Selected \/ Read
  \/ PackBin \/ PackElement \/ PackNested \/ Packed \/ Fail

Spec == Init /\ [][Next]_vars

(* The reader process goes on by itself; failures are not promised *)
FairSpec == Spec /\ WF_vars(Next)

-----------------------------------------------------------------------------
(* What it promises *)

RankMatches == rank = Len(dims)
Running == pc \in {"next", "select", "read", "body"}

(* The rows of the slices, one slice after the other, and the elements of a row *)
Rows == FlattenSeq([i \in DOMAIN slices |->
                      [k \in 1 .. slices[i].count[1] |-> slices[i].start[1] + k - 1]])
RowElements(row) ==
  InFileOrder({ e \in Elements : Within(e, Slab([start |-> row, count |-> 1])) })

Wanted ==
  UnitsOf(IF rank = 0 THEN <<0>> ELSE FlattenSeq([i \in DOMAIN Rows |-> RowElements(Rows[i])]))

(* What pack_dataset_multi_slice sends is the slices that were asked for, in *)
(* their order, no matter how rows were grouped into buffers, neighbouring   *)
(* slices merged by HDF5 and bytes cut into msgpack_bins; a complete answer  *)
(* is all of them.                                                           *)
SendsTheSlices ==
  RankMatches /\ (Running \/ result = "ok") =>
    /\ IsPrefix(out \o buffer, Wanted)
    /\ result = "ok" => out = Wanted

(* The header written by pack_contents_header before anything was read is    *)
(* right, for any rank: the announced number of msgpack_bins or elements is  *)
(* what pack_contents_body goes on to write, and every bin is filled to the  *)
(* length in its own header.                                                 *)
HeaderHonest ==
  Running \/ result = "ok" =>
    /\ Len(bins) <= announced
    /\ Total(bins) = IF dataset.kind = "fixed" THEN Len(out) + bytes_left_in_bin ELSE 0
    /\ \A i \in DOMAIN bins : bins[i] \in 1 .. MaxSize
    /\ result = "ok" =>
         /\ dataset.kind = "fixed" => bytes_left_in_bin = 0 /\ total_bytes_left = 0
         /\ announced = IF dataset.kind = "fixed" THEN Len(bins) ELSE Len(out)

(* In numbers that do not wrap: a row fits in the buffer, and the slices are *)
(* inside the dataset, apart and in order                                    *)
RowFitsBuffer == Product(InnerCounts) * dataset.element_size <= buffer_size

SlicesRight ==
  /\ slices # <<>> /\ Len(slices) <= MaxSlices /\ rank <= MaxDims
  /\ rank > 0 =>
       /\ \A i \in DOMAIN slices, d \in 1 .. rank : slices[i].start[d] + slices[i].count[d] <= dims[d]
       /\ \A i, j \in DOMAIN slices :
            /\ i < j => slices[i].start[1] + slices[i].count[1] <= slices[j].start[1]
            /\ SubSeq(slices[i].start, 2, rank) = SubSeq(slices[j].start, 2, rank)
            /\ SubSeq(slices[i].count, 2, rank) = SubSeq(slices[j].count, 2, rank)
  /\ dataset.kind # "fixed" => Product(TotalCount) <= MaxSize

(* A request of the dataset's rank is refused exactly if its slices are not  *)
(* inside the dataset, ascending and apart, or one row is larger than the    *)
(* read buffer: no product that wraps lets a wrong one through, and          *)
(* comparing neighbours is enough.  A reader that dies was given one that    *)
(* ought to be refused.  Of an empty dataset no row is ever read, so that a  *)
(* row may be of any size.                                                   *)
AcceptsExactly ==
  RankMatches =>
    /\ Running \/ result = "ok" => SlicesRight /\ (Product(dims) > 0 => RowFitsBuffer)
    /\ result \in {"refused", "died"} => ~(SlicesRight /\ RowFitsBuffer)

(* Whatever the rank, H5Dread never delivers more than the buffer of         *)
(* buffer_size bytes holds.                                                  *)
ReadFits == pc = "read" /\ CanRead => Cardinality(Selection) * dataset.element_size <= buffer_size

(* The assertions of multislice_select_next_buffer_data hold, and its arrays *)
(* are large enough: there is a slice left while there are rows left, the    *)
(* place in it is before its end, the rows left in total are those of all    *)
(* slices but the ones selected.                                             *)
RowsLeft == RowsOf(Len(slices)) - RowsOf(slice_nr) - offset_in_slice
CursorSound ==
  Running /\ rank > 0 /\ Product(InnerCounts) > 0 =>
    /\ Len(selected) <= MaxSelections
    /\ elements_left_total = RowsLeft
    /\ elements_left_total > 0 => slice_nr < Len(slices)
    /\ pc = "select" => elements_left_in_buffer <= elements_left_total
    /\ offset_in_slice > 0 => offset_in_slice < slices[slice_nr + 1].count[1]
=============================================================================
