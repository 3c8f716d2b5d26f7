----------------------------- MODULE DirTreeProofs -----------------------------
(* The tree that DirTree describes is well formed at every step. *)
EXTENDS DirTree, TLAPS

LEMMA AddKeeps ==
    ASSUME Root \in Nodes, Tree, NEW d \in Directories, NEW n \in Names, NEW c \in Nodes,
           NEW isDir \in BOOLEAN, Add(d, n, c, isDir)
    PROVE  Tree'
<1> DEFINE new == [in |-> d, name |-> n, to |-> c, dir |-> isDir]
<1>1. d \in Nodes
    BY DEF Tree, TypeOK, Entry, Directories
<1>2. entries' = entries \cup {new} /\ new.in = d /\ new.name = n /\ new.to = c
      /\ c # Root /\ \A e \in entries : e.to # c /\ ~(e.in = d /\ e.name = n)
    BY DEF Add, Targets, Children
<1>3. TypeOK'
    BY <1>1, <1>2 DEF Tree, TypeOK, Entry
<1> HIDE DEF new
<1>4. NamesDiffer'
    BY <1>2 DEF Tree, NamesDiffer
<1>5. NodesDiffer'
    BY <1>2 DEF Tree, NodesDiffer, Targets
<1>6. NoOrphan'
    BY <1>2 DEF Tree, NoOrphan, Directories
<1> QED
    BY <1>3, <1>4, <1>5, <1>6 DEF Tree

LEMMA RemoveKeeps ==
    ASSUME Tree, NEW e \in entries, Remove(e)
    PROVE  Tree'
<1>1. entries' = entries \ {e} /\ \A f \in entries : e.dir => f.in # e.to
    BY DEF Remove, Children
<1>2. NoOrphan'
    BY <1>1 DEF Tree, NoOrphan, Directories
<1> QED
    BY <1>1, <1>2 DEF Tree, TypeOK, NamesDiffer, NodesDiffer, Targets

(* In every state of the abstract tree the names of a directory differ, no *)
(* two entries stand for one node, and every entry sits in a directory of  *)
(* the tree: what a caller of write, delete_something and read relies on.  *)
THEOREM TreeCorrect ==
    ASSUME Root \in Nodes
    PROVE  Spec => []Tree
<1>1. Init => Tree
    BY DEF Init, Tree, TypeOK, Entry, NamesDiffer, NodesDiffer, NoOrphan, Targets, Directories
<1>2. Tree /\ [Next]_entries => Tree'
    <2>1. Tree /\ UNCHANGED entries => Tree'
        BY DEF Tree, TypeOK, NamesDiffer, NodesDiffer, NoOrphan, Targets, Directories
    <2> QED
        BY <2>1, AddKeeps, RemoveKeeps DEF Next
<1> QED
    BY <1>1, <1>2, PTL DEF Spec
=============================================================================
