--------------------------------- MODULE Fat32 ---------------------------------
(***************************************************************************)
(* The FAT32 driver of the kernel (fat32.c): write, delete_something and   *)
(* read_file, with the disk they share.                                    *)
(*                                                                         *)
(* A call runs with interrupts off, so no other call interleaves with it;  *)
(* only a power cut can separate two of its steps.  Every step makes at    *)
(* most one disk write, or is one iteration of a loop over the FAT.        *)
(*                                                                         *)
(* A cluster is seen as the directory table it would be if it were read as *)
(* one, which is how the driver reads it.  dir_table_buf and the locals of *)
(* a call are loaded before they are used, so they rest at fixed values    *)
(* between calls.                                                          *)
(***************************************************************************)
EXTENDS Integers, FiniteSets

CONSTANTS
    FatSize,     \* CLUSTER_MAP_SIZE: words of the FAT
    TableSize,   \* entries of a directory table
    MaxCount,    \* the largest file a caller writes, in clusters
    ShellLen,    \* clusters of the shell that the installer wrote
    Names,       \* file names (name and extension together)
    NoName,      \* the cleared name, all bytes zero
    RootName,    \* the name of the root directory
    ShellName,   \* the name of the shell
    Prefix,      \* <<n, m>>: name n is a prefix of name m, same extension
    LoosePrefix, \* <<n, m>>: name and extension of n are prefixes of those of m
    Text,        \* what the clusters of a file hold, for each name, and for
                 \* NoName what a cluster without a file's contents holds
    Overfull,    \* may a caller write what the FAT has no room for?
    PowerCuts    \* may the power be cut during a call?

ASSUME SizeAssumption ==
    /\ FatSize \in Nat /\ TableSize \in Nat /\ MaxCount \in Nat /\ ShellLen \in Nat
    /\ ShellLen >= 2 /\ ShellLen + 3 <= FatSize
    /\ TableSize >= 3 /\ MaxCount >= 1 /\ ShellLen <= MaxCount

ASSUME NameAssumption ==
    /\ NoName \notin Names /\ RootName \notin Names /\ ShellName \in Names
    /\ Prefix \subseteq Names \X Names
    /\ \A n \in Names : <<n, n>> \in Prefix
    /\ Prefix \subseteq LoosePrefix /\ LoosePrefix \subseteq Names \X Names

ASSUME BoundAssumption == Overfull \in BOOLEAN /\ PowerCuts \in BOOLEAN

-----------------------------------------------------------------------------
(* Clusters and FAT values *)

Empty == 0           \* FAT32_FAT_EMPTY_ENTRY
EndOfFile == -1      \* FAT32_FAT_END_OF_FILE, and CLUSTER_1_VALUE: the same number
Reserved0 == -2      \* CLUSTER_0_VALUE
Root == 2            \* ROOT_CLUSTER_NUMBER

FatWords == 0 .. FatSize - 1

(* The loops over cluster_map run to MAX_FOR_CLUSTER_FAT_HEX, four times   *)
(* its length, into dir_table_buf that follows it in driver_state.  The    *)
(* first word there is the start of the directory's own name and never     *)
(* zero; the second is zero when that name is short.  Alias is that second *)
(* word, and also the cluster number the driver takes it for: the disk has *)
(* such a cluster.  The words after it are left out.                       *)
Alias == FatSize + 1
Limit == FatSize + 2

Words == FatWords \cup {Alias}
FatValue == Words \cup {EndOfFile, Reserved0}
DataClusters == Words \ {0, 1, Root}

-----------------------------------------------------------------------------
(* Directory tables *)

(* Entries 0 and 1 of a table are the fields dir (the attribute of entry   *)
(* 0), up and upName (entry 1), and word (entry 0's name, second half).    *)
Slots == 2 .. TableSize - 1

Slot == [used : BOOLEAN, name : Names \cup {NoName}, dir : BOOLEAN,
         first : Words, size : 0 .. MaxCount]

Cluster == [dir : BOOLEAN, up : Words, upName : Names \cup {NoName, RootName},
            word : FatValue, slot : [Slots -> Slot],
            data : {Text[n] : n \in Names \cup {NoName}}]

(* A cleared entry; the cluster and size of a cleared entry stay behind in *)
(* the code, but they are not read again.                                  *)
FreeSlot == [used |-> FALSE, name |-> NoName, dir |-> FALSE, first |-> 0, size |-> 0]

(* A cluster that holds no table: file contents, or nothing. *)
Contents(n) == [dir |-> FALSE, up |-> 0, upName |-> NoName, word |-> Empty,
                slot |-> [s \in Slots |-> FreeSlot], data |-> Text[n]]

Blank == Contents(NoName)

NoReq == [dir |-> 0, name |-> NoName, up |-> NoName, size |-> 0]
Request == [dir : Words, name : Names \cup {NoName},
            up : Names \cup {NoName, RootName}, size : 0 .. MaxCount]

Running == -2        \* rc of a call that has not returned

-----------------------------------------------------------------------------
VARIABLES
    fat,     \* the FAT on disk, cluster 1
    tab,     \* the contents of the other clusters on disk
    cmap,    \* driver_state.fat_table.cluster_map, the FAT in memory
    buf,     \* driver_state.dir_table_buf
    pc,      \* where the running call is; "idle" between calls
    req,     \* its request
    at,      \* index_found: the slot of the parent's table it writes
    start,   \* first cluster of the chain being built or undone
    prev,    \* last cluster of the chain being built
    now,     \* cluster or FAT index the loop is at
    ready,   \* clusters linked, or copied, so far
    rc       \* return code of the last call

disk == <<fat, tab>>
locals == <<req, at, start, prev, now, ready>>
vars == <<fat, tab, cmap, buf, pc, req, at, start, prev, now, ready, rc>>

-----------------------------------------------------------------------------
(* What is on the disk *)

(* Entries in use, as <<cluster of the table, slot>>. *)
Live == {e \in Words \X Slots : tab[e[1]].slot[e[2]].used}
EntryAt(e) == tab[e[1]].slot[e[2]]
First(e) == EntryAt(e).first

(* Where a caller can stand: cd takes it to the clusters of directory      *)
(* entries, and the shell passes the name of the directory it stands in.   *)
Dirs == {Root} \cup {First(e) : e \in {f \in Live : EntryAt(f).dir}}
NamesOf(d) ==
    IF d = Root THEN {RootName}
    ELSE {EntryAt(e).name : e \in {f \in Live : EntryAt(f).dir /\ First(f) = d}}

FreeClusters == {c \in FatWords : cmap[c] = Empty}

(* Word i of cluster_map, when t is in dir_table_buf. *)
WordIn(t, i) == IF i = Alias THEN t.word ELSE cmap[i]
IsFreeIn(t, i) == i \in Words /\ WordIn(t, i) = Empty

Word(i) == WordIn(buf, i)

(* cluster_map[i] = v, in memory. *)
MapWith(i, v) == IF i = Alias THEN cmap ELSE [cmap EXCEPT ![i] = v]
TableWith(t, i, v) == IF i = Alias THEN [t EXCEPT !.word = v] ELSE t

(* Does a caller ask for k clusters?  Unless the run is Overfull, callers  *)
(* leave alone the requests that would take the word past the FAT: they    *)
(* ask for what fits in the FAT, or for more than there is in all.         *)
Fits(k) ==
    \/ Overfull
    \/ k <= Cardinality(FreeClusters)
    \/ k > Cardinality(FreeClusters) + 1

-----------------------------------------------------------------------------
(* Starting and ending a call *)

AtRest ==
    /\ buf' = Blank /\ req' = NoReq
    /\ at' = 0 /\ start' = 0 /\ prev' = 0 /\ now' = 0 /\ ready' = 0

Return(code) == pc' = "idle" /\ rc' = code /\ AtRest

(* A page fault in the kernel: the handler halts with interrupts off. *)
Halt == pc' = "halted" /\ rc' = Running /\ AtRest

Init ==
    /\ fat = [c \in FatWords |->
                 IF c = 0 THEN Reserved0
                 ELSE IF c \in {1, Root, ShellLen + 2} THEN EndOfFile
                 ELSE IF c < ShellLen + 2 THEN c + 1
                 ELSE Empty]
    /\ tab = [c \in Words |->
                 IF c = Root
                 THEN [Blank EXCEPT !.dir = TRUE, !.up = Root, !.upName = RootName,
                          !.slot[2] = [used |-> TRUE, name |-> ShellName, dir |-> FALSE,
                                       first |-> 3, size |-> ShellLen]]
                 ELSE IF c \in 3 .. ShellLen + 2 THEN Contents(ShellName)
                 ELSE Blank]
    /\ cmap = fat
    /\ buf = Blank /\ pc = "idle" /\ req = NoReq
    /\ at = 0 /\ start = 0 /\ prev = 0 /\ now = 0 /\ ready = 0
    /\ rc = Running

-----------------------------------------------------------------------------
(* write: what it refuses, and with which code *)

FirstUnused(t, s) ==
    /\ s \in Slots /\ ~t.slot[s].used
    /\ \A r \in Slots : ~t.slot[r].used => s <= r

(* Bug: only the parent's name is compared. *)
DuplicateOfParent(t, n) == t.upName = n

(* Entry 1, the parent, takes part in the check for duplicates. *)
Duplicate(t, n) == t.upName = n \/ \E s \in Slots : t.slot[s].name = n

WriteError(t, n) ==
    IF ~t.dir THEN 2
    ELSE IF \A s \in Slots : t.slot[s].used THEN -1
    ELSE IF Duplicate(t, n) THEN 1
    ELSE IF \A i \in Words : ~IsFreeIn(t, i) THEN -1
    ELSE 0

RefuseWrite(d, n) ==
    /\ pc = "idle"
    /\ WriteError(tab[d], n) # 0
    /\ Return(WriteError(tab[d], n))
    /\ UNCHANGED <<disk, cmap>>

(* Bug: the scan stops one word too late. *)
FirstFreeLate(t, c) == IsFreeIn(t, c - 1) /\ \A i \in Words : IsFreeIn(t, i) => c - 1 <= i

(* The scan for the first empty entry of the FAT. *)
FirstFree(t, c) == IsFreeIn(t, c) /\ \A i \in Words : IsFreeIn(t, i) => c <= i

-----------------------------------------------------------------------------
(* write of a directory: the FAT, then the parent's table, then its own *)

MakeDir(d, n, up) ==
    /\ pc = "idle"
    /\ WriteError(tab[d], n) = 0
    /\ Fits(1)
    /\ \E s \in Slots, c \in Words :
        /\ FirstUnused(tab[d], s) /\ FirstFree(tab[d], c)
        /\ cmap' = MapWith(c, EndOfFile)
        /\ buf' = TableWith(tab[d], c, EndOfFile)
        /\ at' = s /\ now' = c
    /\ fat' = cmap'
    /\ pc' = "mkdir_parent" /\ rc' = Running
    /\ req' = [dir |-> d, name |-> n, up |-> up, size |-> 0]
    /\ UNCHANGED <<tab, start, prev, ready>>

MkdirParent ==
    /\ pc = "mkdir_parent"
    /\ tab' = [tab EXCEPT ![req.dir] =
                  [buf EXCEPT !.slot[at] = [used |-> TRUE, name |-> req.name, dir |-> TRUE,
                                            first |-> now, size |-> 0]]]
    /\ pc' = "mkdir_table"
    /\ UNCHANGED <<fat, cmap, buf, locals, rc>>

(* Bug: every directory takes the root for its parent. *)
NewTableInRoot(t) ==
    [t EXCEPT !.dir = TRUE, !.up = Root, !.upName = req.up,
              !.word = Empty, !.data = Text[NoName]]

(* Bug: the attribute of entry 0 is left out. *)
NewTableUnmarked(t) ==
    [t EXCEPT !.up = req.dir, !.upName = req.up, !.word = Empty, !.data = Text[NoName]]

(* Only entries 0 and 1 are written: the others are what the cluster held. *)
NewTable(t) ==
    [t EXCEPT !.dir = TRUE, !.up = req.dir, !.upName = req.up,
              !.word = Empty, !.data = Text[NoName]]

MkdirTable ==
    /\ pc = "mkdir_table"
    /\ tab' = [tab EXCEPT ![now] = NewTable(@)]
    /\ Return(0)
    /\ UNCHANGED <<fat, cmap>>

-----------------------------------------------------------------------------
(* write of a file: link a chain in memory; the FAT, the table, the data *)

StartFile(d, n, k) ==
    /\ pc = "idle"
    /\ WriteError(tab[d], n) = 0
    /\ Fits(k)
    /\ \E s \in Slots, c \in Words :
        /\ FirstUnused(tab[d], s) /\ FirstFree(tab[d], c)
        /\ at' = s /\ start' = c /\ prev' = c /\ now' = c + 1
        /\ pc' = IF c + 1 < Limit THEN "link" ELSE IF k <= 1 THEN "commit" ELSE "rollback"
    /\ buf' = tab[d] /\ ready' = 1 /\ rc' = Running
    /\ req' = [dir |-> d, name |-> n, up |-> NoName, size |-> k]
    /\ UNCHANGED <<disk, cmap>>

(* One turn of the loop: the word is linked before the count is looked at. *)
Link ==
    /\ pc = "link"
    /\ IF IsFreeIn(buf, now)
       THEN /\ cmap' = MapWith(prev, now) /\ buf' = TableWith(buf, prev, now)
            /\ prev' = now /\ ready' = ready + 1
       ELSE UNCHANGED <<cmap, buf, prev, ready>>
    /\ now' = now + 1
    /\ pc' = IF ready' >= req.size THEN "commit"
             ELSE IF now' < Limit THEN "link" ELSE "rollback"
    /\ UNCHANGED <<disk, req, at, start, rc>>

(* Bug: the FAT is changed in memory only. *)
CommitFatInMemory ==
    /\ pc = "commit"
    /\ cmap' = MapWith(prev, EndOfFile) /\ buf' = TableWith(buf, prev, EndOfFile)
    /\ pc' = "create_parent"
    /\ UNCHANGED <<disk, locals, rc>>

(* Bug: the mark of the end goes to the first cluster. *)
CommitFatAtStart ==
    /\ pc = "commit"
    /\ cmap' = MapWith(start, EndOfFile) /\ buf' = TableWith(buf, start, EndOfFile)
    /\ fat' = cmap'
    /\ pc' = "create_parent"
    /\ UNCHANGED <<tab, locals, rc>>

CommitFat ==
    /\ pc = "commit"
    /\ cmap' = MapWith(prev, EndOfFile) /\ buf' = TableWith(buf, prev, EndOfFile)
    /\ fat' = cmap'
    /\ pc' = "create_parent"
    /\ UNCHANGED <<tab, locals, rc>>

(* Bug: the entry gets the last cluster of the chain. *)
CreateParentLast ==
    /\ pc = "create_parent"
    /\ buf' = [buf EXCEPT !.slot[at] = [@ EXCEPT !.used = TRUE, !.name = req.name,
                                                 !.first = prev, !.size = req.size]]
    /\ tab' = [tab EXCEPT ![req.dir] = buf']
    /\ now' = start /\ pc' = "data"
    /\ UNCHANGED <<fat, cmap, req, at, start, prev, ready, rc>>

(* The attribute of the slot is not written: it keeps what it held. *)
CreateParent ==
    /\ pc = "create_parent"
    /\ buf' = [buf EXCEPT !.slot[at] = [@ EXCEPT !.used = TRUE, !.name = req.name,
                                                 !.first = start, !.size = req.size]]
    /\ tab' = [tab EXCEPT ![req.dir] = buf']
    /\ now' = start /\ pc' = "data"
    /\ UNCHANGED <<fat, cmap, req, at, start, prev, ready, rc>>

(* Bug: only the first cluster is written. *)
WriteDataOnce ==
    /\ pc = "data"
    /\ tab' = [tab EXCEPT ![now] = Contents(req.name)]
    /\ Return(0)
    /\ UNCHANGED <<fat, cmap>>

(* Bug: the loop does not move to the next cluster. *)
WriteDataStuck ==
    /\ pc = "data"
    /\ tab' = [tab EXCEPT ![now] = Contents(req.name)]
    /\ \/ Word(now) = EndOfFile /\ Return(0)
       \/ Word(now) \in Words /\ UNCHANGED <<buf, pc, locals, rc>>
    /\ UNCHANGED <<fat, cmap>>

(* The contents go to every cluster of the chain. *)
WriteData ==
    /\ pc = "data"
    /\ tab' = [tab EXCEPT ![now] = Contents(req.name)]
    /\ \/ /\ Word(now) = EndOfFile /\ Return(0)
       \/ /\ Word(now) \in Words
          /\ now' = Word(now)
          /\ UNCHANGED <<buf, pc, req, at, start, prev, ready, rc>>
    /\ UNCHANGED <<fat, cmap>>

(* Bug: what was linked stays linked in memory. *)
RollbackNothing ==
    /\ pc = "rollback"
    /\ Return(-1)
    /\ UNCHANGED <<disk, cmap>>

(* Not enough clusters: one turn of the loop that empties the chain again. *)
Rollback ==
    /\ pc = "rollback"
    /\ \/ /\ Word(start) = Empty /\ Return(-1)
          /\ UNCHANGED cmap
       \/ /\ Word(start) \in Words \ {Empty}
          /\ cmap' = MapWith(start, Empty) /\ buf' = TableWith(buf, start, Empty)
          /\ start' = Word(start)
          /\ UNCHANGED <<pc, req, at, prev, now, ready, rc>>
    /\ UNCHANGED disk

-----------------------------------------------------------------------------
(* delete_something: the parent's table, the directory's own, the FAT *)

Matching(t, rel, n) == {s \in Slots : <<n, t.slot[s].name>> \in rel}
FirstMatch(t, rel, n, s) ==
    s \in Matching(t, rel, n) /\ \A r \in Matching(t, rel, n) : s <= r

(* Bug: the check for an empty directory looks at its first slot only. *)
InUseFirst(t) == t.slot[2].used

InUse(t) == \E s \in Slots : t.slot[s].used

DeleteError(t, n) ==
    IF ~t.dir THEN -1
    ELSE IF Matching(t, Prefix, n) = {} THEN 1
    ELSE IF \E s \in Slots : /\ FirstMatch(t, Prefix, n, s) /\ t.slot[s].dir
                             /\ InUse(tab[t.slot[s].first]) THEN 2
    ELSE 0

RefuseDelete(d, n) ==
    /\ pc = "idle"
    /\ DeleteError(tab[d], n) # 0
    /\ Return(DeleteError(tab[d], n))
    /\ UNCHANGED <<disk, cmap>>

(* The entry is cleared in the parent's table, on disk. *)
DropEntry(d, n) ==
    /\ pc = "idle"
    /\ DeleteError(tab[d], n) = 0
    /\ \E s \in Slots :
        /\ FirstMatch(tab[d], Prefix, n, s)
        /\ buf' = [tab[d] EXCEPT !.slot[s] = FreeSlot]
        /\ now' = tab[d].slot[s].first
        /\ pc' = IF tab[d].slot[s].dir THEN "rmdir_child" ELSE "free"
    /\ tab' = [tab EXCEPT ![d] = buf']
    /\ req' = [dir |-> d, name |-> n, up |-> NoName, size |-> 0]
    /\ rc' = Running
    /\ UNCHANGED <<fat, cmap, at, start, prev, ready>>

(* Bug: the parent is unmarked instead of the directory. *)
RmdirChildParent ==
    /\ pc = "rmdir_child"
    /\ tab' = [tab EXCEPT ![req.dir] = [@ EXCEPT !.dir = FALSE, !.up = 0, !.upName = NoName,
                                               !.word = Empty]]
    /\ pc' = "rmdir_fat"
    /\ UNCHANGED <<fat, cmap, buf, locals, rc>>

(* Bug: the directory keeps its mark. *)
RmdirChildMarked ==
    /\ pc = "rmdir_child"
    /\ tab' = [tab EXCEPT ![now] = [@ EXCEPT !.up = 0, !.upName = NoName, !.word = Empty]]
    /\ pc' = "rmdir_fat"
    /\ UNCHANGED <<fat, cmap, buf, locals, rc>>

RmdirChild ==
    /\ pc = "rmdir_child"
    /\ tab' = [tab EXCEPT ![now] = [@ EXCEPT !.dir = FALSE, !.up = 0, !.upName = NoName,
                                           !.word = Empty]]
    /\ pc' = "rmdir_fat"
    /\ UNCHANGED <<fat, cmap, buf, locals, rc>>

RmdirFat ==
    /\ pc = "rmdir_fat"
    /\ cmap' = MapWith(now, Empty) /\ fat' = cmap'
    /\ Return(0)
    /\ UNCHANGED tab

(* Bug: only the first cluster is freed. *)
FreeFirst ==
    /\ pc = "free"
    /\ cmap' = MapWith(now, Empty) /\ fat' = cmap'
    /\ Return(0)
    /\ UNCHANGED tab

(* Bug: the loop does not look for the end of the chain. *)
FreePastEnd ==
    /\ pc = "free"
    /\ cmap' = MapWith(now, Empty) /\ buf' = TableWith(buf, now, Empty)
    /\ now' = Word(now)
    /\ UNCHANGED <<disk, pc, req, at, start, prev, ready, rc>>

(* One turn of the loop that frees a file's chain; the last one writes it. *)
Free ==
    /\ pc = "free"
    /\ \/ /\ Word(now) = EndOfFile
          /\ cmap' = MapWith(now, Empty) /\ fat' = cmap'
          /\ Return(0)
       \/ /\ Word(now) \in Words
          /\ cmap' = MapWith(now, Empty) /\ buf' = TableWith(buf, now, Empty)
          /\ now' = Word(now)
          /\ UNCHANGED <<fat, pc, req, at, start, prev, ready, rc>>
    /\ UNCHANGED tab

-----------------------------------------------------------------------------
(* read_file: reloads the FAT; the loop over the table has no bound *)

ReadError(t, n, k) ==
    IF ~t.dir THEN -1
    ELSE IF \E s \in Slots : FirstMatch(t, LoosePrefix, n, s) /\ t.slot[s].dir THEN 1
    ELSE IF \E s \in Slots : FirstMatch(t, LoosePrefix, n, s) /\ t.slot[s].size > k THEN 2
    ELSE 0

RefuseRead(d, n, k) ==
    /\ pc = "idle"
    /\ ReadError(tab[d], n, k) # 0
    /\ cmap' = IF tab[d].dir THEN fat ELSE cmap
    /\ Return(ReadError(tab[d], n, k))
    /\ UNCHANGED disk

(* Nothing matches: the scan leaves the driver's buffers and faults. *)
ReadPastTable(d, n) ==
    /\ pc = "idle"
    /\ tab[d].dir /\ Matching(tab[d], LoosePrefix, n) = {}
    /\ cmap' = fat
    /\ Halt
    /\ UNCHANGED disk

StartRead(d, n, k) ==
    /\ pc = "idle"
    /\ ReadError(tab[d], n, k) = 0
    /\ \E s \in Slots : FirstMatch(tab[d], LoosePrefix, n, s) /\ now' = tab[d].slot[s].first
    /\ cmap' = fat /\ buf' = tab[d]
    /\ req' = [dir |-> d, name |-> n, up |-> NoName, size |-> k]
    /\ pc' = "copy" /\ ready' = 0 /\ rc' = Running
    /\ UNCHANGED <<disk, at, start, prev>>

(* One cluster to the caller's buffer; ready counts them. *)
Copy ==
    /\ pc = "copy"
    /\ \/ Word(now) = EndOfFile /\ now' = now /\ pc' = "copied"
       \/ Word(now) \in Words /\ now' = Word(now) /\ pc' = pc
    /\ ready' = ready + 1
    /\ UNCHANGED <<disk, cmap, buf, req, at, start, prev, rc>>

EndRead ==
    /\ pc = "copied"
    /\ Return(0)
    /\ UNCHANGED <<disk, cmap>>

-----------------------------------------------------------------------------
(* Bug: the FAT is not read again. *)
RebootStale ==
    /\ PowerCuts \/ pc = "halted"
    /\ pc' = "idle" /\ rc' = Running /\ AtRest
    /\ UNCHANGED <<disk, cmap>>

(* The power is cut, or a halted machine is reset: initialize_filesystem   *)
(* reads the FAT from the disk, and everything else in memory is lost.     *)
Reboot ==
    /\ PowerCuts \/ pc = "halted"
    /\ cmap' = fat
    /\ pc' = "idle" /\ rc' = Running /\ AtRest
    /\ UNCHANGED disk

Call ==
    \E d \in Dirs, n \in Names :
        \/ RefuseWrite(d, n)
        \/ \E up \in NamesOf(d) : MakeDir(d, n, up)
        \/ \E k \in 1 .. MaxCount : StartFile(d, n, k)
        \/ RefuseDelete(d, n)
        \/ DropEntry(d, n)
        \/ ReadPastTable(d, n)
        \/ \E k \in 1 .. MaxCount : RefuseRead(d, n, k) \/ StartRead(d, n, k)

(* A running call goes on. *)
Continue ==
    \/ MkdirParent \/ MkdirTable
    \/ Link \/ CommitFat \/ CreateParent \/ WriteData \/ Rollback
    \/ RmdirChild \/ RmdirFat \/ Free
    \/ Copy \/ EndRead

Next == Call \/ Continue \/ Reboot

Spec == Init /\ [][Next]_vars

(* Nothing preempts a call: once begun it goes on until it returns. *)
Fairness == WF_vars(Continue)

LiveSpec == Spec /\ Fairness

-----------------------------------------------------------------------------
(* Properties *)

Pcs == {"idle", "halted", "mkdir_parent", "mkdir_table", "link", "commit",
        "create_parent", "data", "rollback", "rmdir_child", "rmdir_fat", "free",
        "copy", "copied"}

(* Where now is the index of a scan; elsewhere it is a cluster. *)
ScanPcs == {"link", "commit", "create_parent", "rollback"}

(* Every variable holds a value of its C type, and every index that a call *)
(* keeps is one the code can use.                                          *)
TypeOK ==
    /\ fat \in [FatWords -> FatValue] /\ cmap \in [FatWords -> FatValue]
    /\ tab \in [Words -> Cluster] /\ buf \in Cluster
    /\ pc \in Pcs /\ req \in Request
    /\ at \in 0 .. TableSize - 1
    /\ start \in Words /\ prev \in Words /\ ready \in Nat
    /\ now \in IF pc \in ScanPcs THEN 0 .. Limit ELSE Words
    /\ pc = "link" => now < Limit
    /\ rc \in -2 .. 2

(* At every instant, and so after a power cut at any instant, an entry in  *)
(* use and a link of the FAT lead to a data cluster that the FAT on disk   *)
(* marks as taken (write stores the FAT before the table, delete_something *)
(* the table before the FAT).                                              *)
Taken(c) == c \in DataClusters \cap FatWords /\ fat[c] # Empty

NoDangling ==
    /\ \A e \in Live : Taken(First(e))
    /\ \A c \in FatWords : fat[c] \in Words \ {Empty} => Taken(fat[c])

(* No two chains meet: at every instant a cluster is the first of one      *)
(* entry, or the successor of one cluster, and never both.                 *)
NoCrossLink ==
    /\ \A e, f \in Live : First(e) = First(f) => e = f
    /\ \A c, d \in FatWords : fat[c] = fat[d] /\ fat[c] \in DataClusters => c = d
    /\ \A e \in Live, c \in FatWords : First(e) # fat[c]

(* Between calls the FAT in memory is the FAT on disk: a failed write has  *)
(* undone what it linked, and no other call leaves a change unsaved.       *)
CacheCoherent == pc = "idle" => cmap = fat

(* The first three words of the FAT stay as formatted, and nothing is      *)
(* written over the boot sector and the FAT as if they were tables or data.*)
ReservedKept ==
    /\ fat[0] = Reserved0 /\ fat[1] = EndOfFile /\ fat[Root] = EndOfFile
    /\ tab[0] = Blank /\ tab[1] = Blank
    /\ tab[Root].dir

(* A table's ".." is the directory whose entry leads to it, also after a   *)
(* power cut, unless the table was never written.                          *)
ParentMatches ==
    \A e \in Live :
        EntryAt(e).dir /\ tab[First(e)].dir => tab[First(e)].up = e[1]

(* Entries in use are only in tables of directories that the tree reaches. *)
(* Hence a cluster that mkdir recycles brings no entries with it.          *)
EntriesInDirs == \A e \in Live : e[1] \in Dirs /\ tab[e[1]].dir

(* The clusters that at most i links lead to from c, for each i. *)
Reach(m, c) ==
    LET reach[i \in 0 .. FatSize] ==
            IF i = 0 THEN {c}
            ELSE reach[i - 1] \cup {m[x] : x \in {y \in reach[i - 1] \cap FatWords :
                                                      m[y] \in Words}}
    IN reach

(* The clusters of the chain that begins at c. *)
Chain(m, c) == Reach(m, c)[FatSize]

(* Without power cuts, every cluster of a file in place holds that file's  *)
(* contents: no later call writes on it while the entry is there.          *)
ContentsKept ==
    \A e \in Live :
        ~EntryAt(e).dir /\ ~(pc = "data" /\ e = <<req.dir, at>>) =>
            \A c \in Chain(fat, First(e)) : tab[c].data = Text[EntryAt(e).name]

(* Without power cuts, no cluster is lost: between calls every taken one   *)
(* belongs to an entry.                                                    *)
NoLeak ==
    pc = "idle" =>
        \A c \in FatWords \ {0, 1, Root} :
            fat[c] # Empty => \E e \in Live : c \in Chain(fat, First(e))

(* Without power cuts, between calls every directory entry leads to a      *)
(* table that was written.                                                 *)
TablesWritten ==
    pc = "idle" => \A e \in Live : EntryAt(e).dir => tab[First(e)].dir

(* A write that returns 0 has put in place a chain with room for the file. *)
RoomForFile ==
    [][pc = "data" /\ pc' = "idle" /\ rc' = 0
           => Cardinality(Chain(fat, start)) >= req.size]_vars

(* A call writes only on its own directory and on the entry it makes: the  *)
(* clusters of any other entry that is in use keep what they hold, chains  *)
(* included, also for the contents that a cut-off call left half written.  *)
OthersUntouched ==
    [][\A c \in Words : tab'[c] # tab[c] /\ c \notin {req.dir, req'.dir} =>
           \A e \in Live : c \in Chain(fat, First(e)) => e = <<req.dir, at>>]_vars

(* Every call returns, or halts the machine: the loops over the FAT end.   *)
CallsReturn == pc \notin {"idle", "halted"} ~> pc \in {"idle", "halted"}

(* The entries in use behave as an atomic tree of names: Tree!Spec, with   *)
(* the steps that change no entry told apart first.                        *)
DirEntries ==
    {[in |-> e[1], name |-> EntryAt(e).name, to |-> First(e), dir |-> EntryAt(e).dir]
        : e \in Live}

Tree == INSTANCE DirTree WITH entries <- DirEntries, Nodes <- DataClusters \cup {Root}
ImplementsTree == Tree!Init /\ [][DirEntries' # DirEntries => Tree!Next]_vars

(* read_file's comment: buffer_size limits what is read. *)
ReadStaysInBuffer == pc = "copied" => ready <= req.size

(* write's comment on the empty scan: with no empty entry in the FAT, a    *)
(* write is refused.                                                       *)
FullFatRefused ==
    [][pc = "idle" /\ FreeClusters = {} => fat' = fat /\ pc' \notin {"mkdir_parent", "link", "commit"}]_vars

(* read_file's comment: 3 when the file is not found. *)
NotFoundReturns == pc # "halted"
=============================================================================
