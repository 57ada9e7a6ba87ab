---- MODULE NameTree ----
(***************************************************************************)
(* What a name space promises, with every operation a single step: a       *)
(* directory gives each name to one inode at most, a file may have several *)
(* names and a directory one, only empty directories are removed, and a    *)
(* rename neither loses nor doubles what it moves.                         *)
(***************************************************************************)
EXTENDS Naturals, Functions

CONSTANTS
  Root,     (* the root directory                                          *)
  Inodes,   (* the inodes there can be                                     *)
  Names     (* the names an entry can have                                 *)

VARIABLES
  tree,     (* the inode of each entry, a pair of directory and name       *)
  dirs      (* the inodes that are directories                             *)

Bind(t, p, i) == [q \in DOMAIN t \cup {p} |-> IF q = p THEN i ELSE t[q]]
Unbind(t, p) == Restrict(t, DOMAIN t \ {p})

Init ==
  /\ tree = [p \in {} |-> Root]
  /\ dirs = {Root}

(* A new inode gets its first name. *)
Make(p, i) ==
  /\ i \notin Range(tree) \cup dirs
  /\ tree' = Bind(tree, p, i)
  /\ dirs' \in {dirs, dirs \cup {i}}

(* A file gets another name. *)
Link(p, q) ==
  /\ tree[p] \notin dirs
  /\ tree' = Bind(tree, q, tree[p])
  /\ UNCHANGED dirs

(* An entry moves to a free place. *)
Move(p, q) ==
  /\ tree' = Bind(Unbind(tree, p), q, tree[p])
  /\ UNCHANGED dirs

(* An entry goes; a directory must be empty. *)
Remove(p) ==
  /\ \A q \in DOMAIN tree : q[1] # tree[p]
  /\ tree' = Unbind(tree, p)
  /\ dirs' = dirs \ {tree[p]}

(* Every operation changes the tree, and only where it says. *)
Next ==
  /\ tree' # tree
  /\ \/ \E q \in (dirs \X Names) \ DOMAIN tree :
          /\ q \in DOMAIN tree'
          /\ \/ \E i \in Inodes : Make(q, i)
             \/ \E p \in DOMAIN tree : Link(p, q) \/ Move(p, q)
     \/ \E p \in DOMAIN tree : Remove(p)

Spec == Init /\ [][Next]_<<tree, dirs>>
====
