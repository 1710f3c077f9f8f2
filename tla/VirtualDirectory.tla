-------------------------- MODULE VirtualDirectory --------------------------
(***************************************************************************)
(* VirtualDirectory.java: the tree of virtual directories and files that   *)
(* the lines of the configuration describe, and what of it a user can see. *)
(*                                                                         *)
(* A path is a sequence of names.  A tree is a record: its directories     *)
(* with the roles each requires, the files with the real file behind each, *)
(* and the directories whose metadata path was set.  The code descends the *)
(* tree name by name; here it is the prefixes of the path.                 *)
(***************************************************************************)
EXTENDS Integers, Sequences, SequencesExt

(* What a line adds: a directory with roles, or a file *)
IsDirectory(line) == line.media_type = "directory"

Error == [error |-> TRUE]
Failed(tree) == "error" \in DOMAIN tree

(* An empty root directory with no access restrictions *)
EmptyRoot == [roles |-> [p \in {<<>>} |-> {}], files |-> [p \in {} |-> <<>>], described |-> {}]

Directories(tree) == DOMAIN tree.roles
Files(tree) == DOMAIN tree.files

(* put, of a map *)
Put(map, key, value) == [k \in DOMAIN map \cup {key} |-> IF k = key THEN value ELSE map[k]]

Parent(path) == Front(path)
(* The directories on the way to a path, from below the root on *)
Above(path) == { SubSeq(path, 1, n) : n \in 1 .. Len(path) - 1 }

Longest(S) == CHOOSE p \in S : \A q \in S : Len(q) <= Len(p)

(* Directories that do not exist yet are created on the way down, each with  *)
(* the roles of its parent                                                   *)
WithDirectories(tree, S) ==
  LET existing(p) == { SubSeq(p, 1, n) : n \in 0 .. Len(p) } \cap Directories(tree)
  IN [tree EXCEPT !.roles = [p \in Directories(tree) \cup S |-> tree.roles[Longest(existing(p))]]]

(* The constructor with roles: those of the parent, and the given ones *)
NewDirectory(tree, path, roles) ==
  [tree EXCEPT !.roles = Put(@, path, tree.roles[Parent(path)] \cup roles)]

(* setRealPath: an empty path sets nothing *)
SetRealPath(tree, line) ==
  IF line.real_path = "" THEN tree ELSE [tree EXCEPT !.described = @ \cup {line.path}]

AddDirectory(tree, line) ==
  IF line.path \in Files(tree) \/ line.path \in tree.described THEN Error
  ELSE IF line.path \in Directories(tree)
  THEN SetRealPath([tree EXCEPT !.roles[line.path] = @ \cup line.roles], line)
  ELSE SetRealPath(NewDirectory(tree, line.path, line.roles), line)

AddNewFile(tree, line) ==
  IF line.path \in Files(tree) \cup Directories(tree) THEN Error
  ELSE [tree EXCEPT !.files = Put(@, line.path, line.real_path)]

(* addFile, for one line of the configuration: a path must have a name, and  *)
(* lead through directories                                                  *)
AddFile(tree, line) ==
  IF line.path = <<>> \/ Above(line.path) \cap Files(tree) # {} THEN Error
  ELSE LET below == WithDirectories(tree, Above(line.path))
       IN IF IsDirectory(line) THEN AddDirectory(below, line) ELSE AddNewFile(below, line)

-----------------------------------------------------------------------------
(* Who sees what: has is the set of roles of the user *)

CanAccess(tree, path, has) == tree.roles[path] \subseteq has

(* Mutant: only the last directory is checked *)
MutantResolvePath(tree, path, has) ==
  /\ path # <<>>
  /\ \A p \in Above(path) : p \in Directories(tree)
  /\ \/ path \in Files(tree) /\ CanAccess(tree, Parent(path), has)
     \/ path \in Directories(tree) /\ CanAccess(tree, path, has)

(* resolvePath: every directory on the way must exist and be accessible *)
ResolvePath(tree, path, has) ==
  /\ path # <<>>
  /\ \A p \in Above(path) : p \in Directories(tree) /\ CanAccess(tree, p, has)
  /\ \/ path \in Files(tree)
     \/ path \in Directories(tree) /\ CanAccess(tree, path, has)

(* The directories that a recursive listing of a directory enters: from the  *)
(* given one down, as far as each is accessible                              *)
Entered(tree, dir, has) ==
  { d \in Directories(tree) :
      /\ IsPrefix(dir, d)
      /\ \A n \in Len(dir) .. Len(d) : CanAccess(tree, SubSeq(d, 1, n), has) }

(* packDirectory: the names in a listing with getFiles and getDirectories,   *)
(* which goes max_depth levels down and names what is below without opening  *)
PackDirectory(tree, dir, has, max_depth) ==
  LET entered == { d \in Entered(tree, dir, has) : Len(d) - Len(dir) <= max_depth }
  IN { f \in Files(tree) : Parent(f) \in entered }
     \cup { d \in Directories(tree) \ {<<>>} : Parent(d) \in entered /\ CanAccess(tree, d, has) }

(* getAllFiles, and the files counted by getTotalSize *)
GetAllFiles(tree, dir, has) ==
  { f \in Files(tree) : Parent(f) \in Entered(tree, dir, has) }

-----------------------------------------------------------------------------
(* What README.md promises, stated on the lines and not on the tree *)

(* "A user can only access a directory and any files and subdirectories in   *)
(* it if they belong to all roles associated with the directory.             *)
(* Directories inherit all roles associated with their parents": the roles   *)
(* that lines, wherever they stand in the file, declare for a directory on   *)
(* the path, or for the path.                                                *)
DeclaredRoles(lines, path) ==
  UNION { l.roles : l \in { l \in ToSet(lines) : IsDirectory(l) /\ IsPrefix(l.path, path) } }

(* There is always a root directory *)
Exists(lines, path) == path = <<>> \/ \E l \in ToSet(lines) : IsPrefix(path, l.path)

MayAccess(lines, path, has) == Exists(lines, path) /\ DeclaredRoles(lines, path) \subseteq has
=============================================================================
