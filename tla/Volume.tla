-------------------------------- MODULE Volume ---------------------------------
(***************************************************************************)
(* What one system call of the FAT32 driver does to the volume, as a whole:*)
(* system calls run with interrupts off, so to the user program they are   *)
(* atomic.  (Fat32 models the disk writes inside some of them.)            *)
(*                                                                         *)
(* A volume is a record of the clusters read as directory tables, and of   *)
(* the clusters that the FAT marks empty.  A file takes one cluster here.  *)
(* Nothing is written to a volume without an empty cluster: what the code  *)
(* then finds past the FAT is a matter of Fat32.                           *)
(***************************************************************************)
EXTENDS Integers, FiniteSets, FiniteSetsExt

CONSTANTS
    LastCluster, \* clusters are numbered 0 .. LastCluster
    TableSize,   \* entries of a directory table
    Names,       \* names without extension
    NoName,      \* the cleared name
    RootName,    \* the root's name
    Junk,        \* what a file's bytes spell where a table has a name
    Prefix       \* <<n, m>>: name n is a proper prefix of name m

Root == 2
Clusters == {0} \cup (Root .. LastCluster)

ASSUME VolumeAssumption ==
    /\ LastCluster \in Nat /\ LastCluster >= 4
    /\ TableSize \in Nat /\ TableSize >= 4
    /\ NoName # RootName /\ NoName # Junk /\ RootName # Junk
    /\ {NoName, RootName, Junk} \cap Names = {}
    /\ Prefix \subseteq Names \X Names

-----------------------------------------------------------------------------
(* Entry 0 of a table is the directory itself, entry 1 its parent. *)
Index == 0 .. TableSize - 1
Slots == 2 .. TableSize - 1

Entry == [used : BOOLEAN, name : Names \cup {NoName, RootName, Junk},
          ext : BOOLEAN, dir : BOOLEAN, first : Clusters]
Table == [Index -> Entry]
VolumeType == [tab : [Clusters -> Table], free : SUBSET Clusters]

Cleared == [used |-> FALSE, name |-> NoName, ext |-> FALSE, dir |-> FALSE, first |-> 0]
Folder(n, c) == [used |-> TRUE, name |-> n, ext |-> FALSE, dir |-> TRUE, first |-> c]
File(n, e, c) == [used |-> TRUE, name |-> n, ext |-> e, dir |-> FALSE, first |-> c]

(* Entry 0 or 1 of a removed directory: its cluster stays, and may be read. *)
Emptied(x) == [x EXCEPT !.used = FALSE, !.name = NoName, !.ext = FALSE, !.dir = FALSE]

ZeroTable == [i \in Index |-> Cleared]
Bytes == [i \in Index |-> [Cleared EXCEPT !.name = Junk]]

(* memcmp over the length of n, at a name m: with nothing, all names begin. *)
StartsWith(m, n) == n \in {NoName, m} \/ <<n, m>> \in Prefix

Fault == 3    \* no return: the kernel follows a word outside the FAT

Done(v) == [rc |-> 0, vol |-> v]
Refused(v, code) == [rc |-> code, vol |-> v]

-----------------------------------------------------------------------------
(* System call 1: read_directory *)

(* In directory d, the table of the first entry whose name begins with n.  *)
(* Unless it returns 0 the caller's buffer is not written.                 *)
ReadDirectory(v, d, n) ==
    LET t == v.tab[d]
        hits == {i \in Index : StartsWith(t[i].name, n)}
    IN IF ~t[0].dir THEN [rc |-> -1, table |-> ZeroTable]
       ELSE IF hits = {} THEN [rc |-> 2, table |-> ZeroTable]
       ELSE IF ~t[Min(hits)].dir THEN [rc |-> 1, table |-> ZeroTable]
       ELSE [rc |-> 0, table |-> v.tab[t[Min(hits)].first]]

-----------------------------------------------------------------------------
(* System call 2: write *)

Unused(t) == {i \in Index : ~t[i].used}

(* Entry 1, the parent, takes part in the check for duplicates. *)
WriteError(v, d, n, e) ==
    IF ~v.tab[d][0].dir THEN 2
    ELSE IF Unused(v.tab[d]) = {} THEN -1
    ELSE IF \E i \in Index \ {0} : v.tab[d][i].name = n /\ v.tab[d][i].ext = e THEN 1
    ELSE 0

(* Bound: a write that makes an entry comes while a cluster is empty. *)
HasRoom(v, d, n, e) == WriteError(v, d, n, e) = 0 => v.free # {}

(* A directory: of its own table, only entries 0 and 1 are written. *)
WriteFolder(v, d, n, up) ==
    LET c == Min(v.free)
        i == Min(Unused(v.tab[d]))
    IN IF WriteError(v, d, n, FALSE) # 0 THEN Refused(v, WriteError(v, d, n, FALSE))
       ELSE Done([tab |-> [v.tab EXCEPT ![d][i] = Folder(n, c),
                                        ![c][0] = Folder(n, c), ![c][1] = Folder(up, d)],
                  free |-> v.free \ {c}])

WriteFile(v, d, n, e) ==
    LET c == Min(v.free)
        i == Min(Unused(v.tab[d]))
    IN IF WriteError(v, d, n, e) # 0 THEN Refused(v, WriteError(v, d, n, e))
       ELSE Done([tab |-> [v.tab EXCEPT ![d][i] = File(n, e, c), ![c] = Bytes],
                  free |-> v.free \ {c}])

-----------------------------------------------------------------------------
(* System calls 3 and 10: delete_something, and delete_something2, which   *)
(* leaves the cluster of a directory taken                                 *)

(* Bug: the search begins with the directory's own entry. *)
HitsAnywhere(t, n, e) == {i \in Index : StartsWith(t[i].name, n) /\ t[i].ext = e}

Hits(t, n, e) == {i \in Slots : StartsWith(t[i].name, n) /\ t[i].ext = e}

InUse(t) == \E i \in Slots : t[i].used

(* Bug: a directory is not checked for entries. *)
DeleteErrorAnyFolder(v, d, n, e) ==
    IF ~v.tab[d][0].dir THEN -1 ELSE IF Hits(v.tab[d], n, e) = {} THEN 1 ELSE 0

DeleteError(v, d, n, e) ==
    LET t == v.tab[d]
        i == Min(Hits(t, n, e))
    IN IF ~t[0].dir THEN -1
       ELSE IF Hits(t, n, e) = {} THEN 1
       ELSE IF t[i].dir /\ InUse(v.tab[t[i].first]) THEN 2
       ELSE 0

(* The entry in the parent's table, where nothing reads its cluster again,  *)
(* then entries 0 and 1 of the child's.                                    *)
Dropped(v, d, i) ==
    LET t == [v.tab EXCEPT ![d][i] = Cleared]
    IN IF v.tab[d][i].dir
       THEN [t EXCEPT ![v.tab[d][i].first][0] = Emptied(@), ![v.tab[d][i].first][1] = Emptied(@)]
       ELSE t

(* A file's chain that does not begin with a taken cluster leads out of    *)
(* the FAT: its entry is gone, and the FAT is not written.                 *)
Lost(v, x) == ~x.dir /\ x.first \in v.free

Delete(v, d, n, e) ==
    LET i == Min(Hits(v.tab[d], n, e))
        x == v.tab[d][i]
    IN IF DeleteError(v, d, n, e) # 0 THEN Refused(v, DeleteError(v, d, n, e))
       ELSE IF Lost(v, x) THEN [rc |-> Fault, vol |-> [v EXCEPT !.tab = Dropped(v, d, i)]]
       ELSE Done([tab |-> Dropped(v, d, i), free |-> v.free \cup {x.first}])

Delete2(v, d, n) ==
    LET i == Min(Hits(v.tab[d], n, FALSE))
        x == v.tab[d][i]
    IN IF DeleteError(v, d, n, FALSE) # 0 THEN Refused(v, DeleteError(v, d, n, FALSE))
       ELSE IF Lost(v, x) THEN [rc |-> Fault, vol |-> [v EXCEPT !.tab = Dropped(v, d, i)]]
       ELSE Done([tab |-> Dropped(v, d, i),
                  free |-> IF x.dir THEN v.free ELSE v.free \cup {x.first}])

-----------------------------------------------------------------------------
(* System call 9: update_directory_table_folder puts cluster c in d, as n *)

Update(v, d, n, c) ==
    LET t == v.tab[d]
    IN IF ~t[0].dir THEN Refused(v, -1)
       ELSE IF Unused(t) = {} THEN Refused(v, 2)
       ELSE IF \E i \in Slots : t[i].name = n THEN Refused(v, 1)
       ELSE Done([v EXCEPT !.tab[d][Min(Unused(t))] = Folder(n, c)])

-----------------------------------------------------------------------------
(* System call 0: read_file, which faults when nothing matches *)

ReadFile(v, d, n, e) ==
    LET t == v.tab[d]
        i == Min(Hits(t, n, e))
    IN IF ~(t[0].used /\ t[0].dir) THEN -1
       ELSE IF Hits(t, n, e) = {} THEN Fault
       ELSE IF t[i].dir THEN 1
       ELSE 0

(* read, which the kernel calls itself: the whole name, in all of the table. *)
Read(v, d, n, e) ==
    LET t == v.tab[d]
        hits == {i \in Index : t[i].name = n /\ t[i].ext = e}
    IN IF ~(t[0].used /\ t[0].dir) THEN -1
       ELSE IF hits = {} THEN Fault
       ELSE IF t[Min(hits)].dir THEN 1
       ELSE 0
=============================================================================
