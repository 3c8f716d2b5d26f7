-------------------------------- MODULE DirTree --------------------------------
(***************************************************************************)
(* What the file system promises to its callers: a tree of named entries.  *)
(* An entry sits in a directory, has a name and stands for a node, which   *)
(* is a directory or a file.  Making and removing an entry are atomic, and *)
(* a power cut shows neither half done.  Fat32 implements this module with *)
(* several disk writes per call.                                           *)
(***************************************************************************)

CONSTANTS
    Names,    \* names an entry can have
    Nodes,    \* what an entry can stand for: clusters, in Fat32
    Root      \* the node of the root directory

VARIABLE entries   \* the entries of every directory

-----------------------------------------------------------------------------

Entry == [in : Nodes, name : Names, to : Nodes, dir : BOOLEAN]

Targets == {e.to : e \in entries}
Directories == {Root} \cup {e.to : e \in {f \in entries : f.dir}}
Children(node) == {e \in entries : e.in = node}

(* The disk as the installer leaves it: one file, the shell, in the root. *)
Init ==
    \E n \in Names, c \in Nodes \ {Root} :
        entries = {[in |-> Root, name |-> n, to |-> c, dir |-> FALSE]}

(* A name is added at most once to a directory, and for a node of its own. *)
Add(d, n, c, isDir) ==
    /\ d \in Directories
    /\ \A e \in Children(d) : e.name # n
    /\ c \notin Targets \cup {Root}
    /\ entries' = entries \cup {[in |-> d, name |-> n, to |-> c, dir |-> isDir]}

(* A directory is removed only when it is empty. *)
Remove(e) ==
    /\ e.dir => Children(e.to) = {}
    /\ entries' = entries \ {e}

Next ==
    \/ \E d \in Directories, n \in Names, c \in Nodes, isDir \in BOOLEAN :
           Add(d, n, c, isDir)
    \/ \E e \in entries : Remove(e)

Spec == Init /\ [][Next]_entries

-----------------------------------------------------------------------------

TypeOK == entries \subseteq Entry

(* Two entries of one directory have different names. *)
NamesDiffer ==
    \A e, f \in entries : e.in = f.in /\ e.name = f.name => e = f

(* Two entries never stand for the same node, and none for the root. *)
NodesDiffer ==
    /\ \A e, f \in entries : e.to = f.to => e = f
    /\ Root \notin Targets

(* Every entry sits in a directory that is itself in the tree. *)
NoOrphan == \A e \in entries : e.in \in Directories

Tree == TypeOK /\ NamesDiffer /\ NodesDiffer /\ NoOrphan

=============================================================================
