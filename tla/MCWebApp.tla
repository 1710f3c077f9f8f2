------------------------------ MODULE MCWebApp ------------------------------
(* Instances of WebApp for TLC.  The configurations: a directory with a role *)
(* that both users have, before its contents; two such roles, one of which   *)
(* only one user has, on two levels, declared after the contents and the     *)
(* inner one first, with another file behind the path; one that does not     *)
(* load.  Slices are asked for by HEAD.                                      *)
EXTENDS WebApp

Dir(path, roles) == [path |-> path, media_type |-> "directory", real_path |-> "about", roles |-> roles]
File(path, real_path) == [path |-> path, media_type |-> "hdf5", real_path |-> real_path, roles |-> {}]

d == <<"d">>
e == <<"d", "e">>
f == <<"d", "e", "f">>

MCLinesOf ==
  [ guarded  |-> <<Dir(d, {"q"}), File(f, "x")>>,
    reversed |-> <<File(f, "y"), Dir(e, {"q"}), Dir(d, {"r"})>>,
    invalid  |-> <<File(f, "x"), File(f, "y")>> ]

MCHasRoles == [u \in {"u", "v"} |-> IF u = "u" THEN {"r", "q"} ELSE {"q"}]

MCAsks ==
  { [object |-> "small", get |-> TRUE], [object |-> "large", get |-> TRUE],
    [object |-> "slices", get |-> FALSE] }

MCSize == [o \in {"small", "large", "slices"} |-> IF o = "large" THEN 2 ELSE 1]

(* For the overflow: an answer longer than all the values of an int *)
LongSize == [o \in {"small", "large", "slices"} |-> IF o = "large" THEN 7 ELSE 1]
=============================================================================
