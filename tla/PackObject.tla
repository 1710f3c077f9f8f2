----------------------------- MODULE PackObject -----------------------------
(***************************************************************************)
(* How a reader process packs an object of a file with what is below it:   *)
(* pack_object.c and pack_group.c, with pack_attributes.c, pack_soft_link.c *)
(* and pack_unknown.c.  The recursion is a stack of the groups whose links *)
(* are being visited; a dataset is packed by MultiSlice, from which this   *)
(* module goes on when that returns.                                       *)
(*                                                                         *)
(* A file is a graph: links are hard, external, soft or of a kind of their *)
(* own, several may lead to one object, and hard links may form a cycle.   *)
(***************************************************************************)
EXTENDS MultiSlice

CONSTANTS
  Files,       \* functions from objects to records; the object asked for is "root"
  MaxDepths,   \* values of max_depth
  MaxLinks     \* MAX_LINKS_FOR_RECURSION

Links == [name : STRING, type : STRING, to : STRING]

ASSUME ObjectConstants ==
  /\ MaxDepths \subseteq Nat /\ MaxLinks \in Nat
  /\ \A f \in Files :
       /\ "root" \in DOMAIN f
       /\ \A o \in DOMAIN f :
            /\ f[o].type = "dataset" => IsDataset(f[o].dataset)
            \* a group has one link of a name
            /\ f[o].type = "group" =>
                 /\ f[o].links \in Seq(Links)
                 /\ \A i, j \in DOMAIN f[o].links : f[o].links[i].name = f[o].links[j].name => i = j

VARIABLES
  file, max_depth,
  opening,      \* the object to open next: its path from the root, and which it is
  stack,        \* groups on the way, each with the links not visited yet
  packed        \* what was written: paths, with what they are shown as

walk == <<file, max_depth, opening, stack, packed>>
allvars == <<vars, walk>>

NoFile == [o \in {} |-> o]
NoDataset == [dims |-> <<>>, element_size |-> 1, kind |-> "fixed"]

Entry(path, as) == [path |-> path, as |-> as]
Top == stack[Len(stack)]

-----------------------------------------------------------------------------
(* A request for slices, or for an object *)
WalkInit ==
  /\ stack = <<>> /\ packed = <<>>
  /\ \/ /\ pc = "begin" /\ Init
        /\ file = NoFile /\ max_depth = 0 /\ opening = <<>>
     \/ /\ pc = "open" /\ Fresh
        /\ dataset = NoDataset /\ request = NoRequest /\ buffer_size \in BufferSizes
        /\ file \in Files /\ max_depth \in MaxDepths
        /\ opening = <<Entry(<<>>, "root")>>

Depth == Len(opening[1].path)
Target == opening[1].as
Opened == opening' = <<>>
Show(path, as) == packed' = Append(packed, Entry(path, as))

(* After an object: the next link of the group it is in, if any *)
Continue ==
  IF stack = <<>> THEN End("walked") ELSE pc' = "links" /\ UNCHANGED result

(* pack_attributes: a value with too many dimensions or with variable length *)
(* inside a compound fails                                                   *)
AttributesPack(object) ==
  \A a \in ToSet(object.attributes) : a.rank <= MaxDims /\ a.kind # "nested"

(* An external link may lead to nothing *)
OpenFails ==
  /\ pc = "open"
  /\ \/ Target \notin DOMAIN file
     \/ Target \in DOMAIN file /\ file[Target].type # "other" /\ ~AttributesPack(file[Target])
        /\ (file[Target].type = "group" => Depth <= max_depth)
  /\ End("failed")
  /\ UNCHANGED <<input, header, cursor, choice, packing, walk>>

(* An error of HDF5, or a write to a stream that was cancelled *)
WalkFails ==
  /\ CanFail
  /\ pc \in {"open", "links"}
  /\ End("failed")
  /\ UNCHANGED <<input, header, cursor, choice, packing, walk>>

(* Don't encode the group if we hit the recursion limit *)
OpenTooDeep ==
  /\ pc = "open" /\ Target \in DOMAIN file
  /\ file[Target].type = "group" /\ Depth > max_depth
  /\ Show(opening[1].path, "nil") /\ Opened
  /\ Continue
  /\ UNCHANGED <<input, header, cursor, choice, packing, file, max_depth, stack>>

OpenGroup ==
  /\ pc = "open" /\ Target \in DOMAIN file
  /\ file[Target].type = "group" /\ Depth <= max_depth
  /\ AttributesPack(file[Target])
  /\ Show(opening[1].path, "group") /\ Opened
  /\ stack' = Append(stack, [path |-> opening[1].path, nr_links |-> Len(file[Target].links),
                             links |-> file[Target].links])
  /\ pc' = "links"
  /\ UNCHANGED <<input, result, header, cursor, choice, packing, file, max_depth>>

(* pack_dataset, see MultiSlice *)
OpenDataset ==
  /\ pc = "open" /\ Target \in DOMAIN file
  /\ file[Target].type = "dataset"
  /\ AttributesPack(file[Target])
  /\ Show(opening[1].path, "dataset") /\ Opened
  /\ dataset' = file[Target].dataset
  /\ pc' = "object"
  /\ UNCHANGED <<request, buffer_size, result, header, cursor, choice, packing, file, max_depth, stack>>

OpenUnknown ==
  /\ pc = "open" /\ Target \in DOMAIN file
  /\ file[Target].type = "other"
  /\ Show(opening[1].path, "unknown") /\ Opened
  /\ Continue
  /\ UNCHANGED <<input, header, cursor, choice, packing, file, max_depth, stack>>

-----------------------------------------------------------------------------
(* Mutant: one level too deep *)
MutantEncodeMembers(depth, nr_links) == depth = 0 \/ (nr_links <= MaxLinks /\ depth <= max_depth)

(* Member objects are encoded at depth 0, and below if there are not too     *)
(* many links and depth < max_depth                                          *)
EncodeMembers(depth, nr_links) == depth = 0 \/ (nr_links <= MaxLinks /\ depth < max_depth)

(* Links that are not followed: pack_soft_link, or pack_unknown *)
PackedLink(link) == IF link.type = "soft" THEN "soft_link" ELSE "unknown"

(* visit_link *)
VisitLink ==
  /\ pc = "links" /\ Top.links # <<>>
  /\ stack' = [stack EXCEPT ![Len(stack)].links = Tail(@)]
  /\ LET link == Head(Top.links)
         path == Append(Top.path, link.name)
     IN \/ /\ ~EncodeMembers(Len(Top.path), Top.nr_links)
           /\ Show(path, "nil")
           /\ UNCHANGED <<pc, opening>>
        \/ /\ EncodeMembers(Len(Top.path), Top.nr_links)
           /\ IF link.type \in {"hard", "external"}
              THEN /\ opening' = <<Entry(path, link.to)>>
                   /\ pc' = "open"
                   /\ UNCHANGED packed
              ELSE /\ Show(path, PackedLink(link))
                   /\ UNCHANGED <<pc, opening>>
  /\ UNCHANGED <<input, result, header, cursor, choice, packing, file, max_depth>>

(* All links of a group are packed *)
GroupPacked ==
  /\ pc = "links" /\ Top.links = <<>>
  /\ stack' = Front(stack)
  /\ IF Len(stack) = 1 THEN End("walked") ELSE UNCHANGED <<pc, result>>
  /\ UNCHANGED <<input, header, cursor, choice, packing, file, max_depth, opening, packed>>

(* pack_dataset returns to the group; its local variables are gone *)
DatasetPacked ==
  /\ pc = "end" /\ result \in {"ok", "no_data"} /\ stack # <<>>
  /\ pc' = "links"
  /\ result' = "none"
  /\ inner' = <<>>
  /\ elements_per_buffer' = 0 /\ elements_left_total' = 0
  /\ slice_nr' = 0 /\ offset_in_slice' = 0
  /\ elements_left_in_buffer' = 0 /\ selected' = <<>> /\ nr_elements_to_read' = 0
  /\ announced' = 0 /\ total_bytes_left' = 0 /\ bytes_left_in_bin' = 0
  /\ bins' = <<>> /\ buffer' = <<>> /\ out' = <<>>
  /\ dataset' = NoDataset /\ request' = NoRequest
  /\ UNCHANGED <<buffer_size, walk>>

Walk ==
  \/ OpenFails \/ WalkFails \/ OpenTooDeep \/ OpenGroup \/ OpenDataset \/ OpenUnknown
  \/ VisitLink \/ GroupPacked \/ DatasetPacked

WalkNext == Walk \/ (Next /\ UNCHANGED walk)

WalkSpec == WalkInit /\ [][WalkNext]_allvars /\ WF_allvars(WalkNext)

-----------------------------------------------------------------------------
(* What an answer shows, in terms of the ways to reach objects: a trail is   *)
(* the links followed from the root                                          *)

At(trail) == IF trail = <<>> THEN "root" ELSE Last(trail).to
Followed(trail) == trail = <<>> \/ Last(trail).type \in {"hard", "external"}
Shown(trail) == Followed(trail) /\ At(trail) \in DOMAIN file
IsGroup(trail) == Shown(trail) /\ file[At(trail)].type = "group"

Trails[n \in 0 .. max_depth + 1] ==
  IF n = 0 THEN {<<>>}
  ELSE UNION { { Append(t, link) : link \in ToSet(file[At(t)].links) } : t \in { t \in Trails[n - 1] : IsGroup(t) } }

(* No group on the way, but for the root, has too many links *)
FewOnTheWay(trail) ==
  \A n \in 1 .. Len(trail) - 1 : Len(file[At(SubSeq(trail, 1, n))].links) <= MaxLinks

Expanded(trail) == IsGroup(trail) /\ Len(trail) <= max_depth /\ FewOnTheWay(trail)

(* Objects are shown down to max_depth, those in the root always *)
ShownAs(trail) ==
  IF Len(trail) > (IF max_depth = 0 THEN 1 ELSE max_depth) \/ ~FewOnTheWay(trail) THEN "nil"
  ELSE IF ~Followed(trail) THEN (IF Last(trail).type = "soft" THEN "soft_link" ELSE "unknown")
  ELSE IF ~Shown(trail) THEN "missing"
  ELSE CASE file[At(trail)].type = "group"   -> IF Len(trail) <= max_depth THEN "group" ELSE "nil"
         [] file[At(trail)].type = "dataset" -> "dataset"
         [] file[At(trail)].type = "other"   -> "unknown"

Answer ==
  LET listed == { t \in UNION { Trails[n] : n \in 0 .. max_depth + 1 } : t = <<>> \/ Expanded(Front(t)) }
  IN { Entry([i \in DOMAIN t |-> t[i].name], ShownAs(t)) : t \in listed }

(* A complete answer names every link of every group down to max_depth once, *)
(* below its own group, and shows what it leads to except below groups with  *)
(* too many links: although links may lead in circles, or several to one     *)
(* object.  It is an error, and not an answer with something left out, if    *)
(* one of them cannot be opened.                                             *)
ShowsTheTree ==
  file # NoFile =>
    /\ ToSet(packed) \subseteq Answer
    /\ IsInjective(packed)
    /\ \A i \in 2 .. Len(packed) : IsPrefix(Front(packed[i].path), packed[i - 1].path)
    /\ result = "walked" => Answer \subseteq ToSet(packed)

Done == pc = "end" /\ ~(result \in {"ok", "no_data"} /\ stack # <<>>)

(* Packing ends: of slices with the rank of the dataset, whatever is empty   *)
(* or unaligned, and of an object, whatever circles its links form.          *)
Terminates == (pc = "open" \/ (pc = "begin" /\ RankMatches)) ~> Done
=============================================================================
