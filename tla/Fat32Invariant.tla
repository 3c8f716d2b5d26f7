----------------------------- MODULE Fat32Invariant -----------------------------
(***************************************************************************)
(* The inductive invariant of Fat32, for callers that are not Overfull:    *)
(* what holds at every step, also where only a power cut would show it,    *)
(* and is kept by every step.  Run cuts checks Inductive, TreeInv and      *)
(* RoomInv; Fat32Safety, Fat32Tree and Fat32Files prove them, and FilesInv.*)
(***************************************************************************)
EXTENDS Fat32

(* A cluster that is taken and that nothing leads to yet, or any more. *)
Loose(c) ==
    /\ Taken(c)
    /\ \A e \in Live : First(e) # c
    /\ \A d \in FatWords : fat[d] # c

(* The chain from start to prev, in memory only: it goes up through the    *)
(* empty entries of the disk's FAT and leaves none out.                    *)
Building ==
    /\ start \in DataClusters /\ start <= prev
    /\ \A c \in {start, prev} \cap FatWords : fat[c] = Empty
    /\ \A c \in FatWords :
        IF fat[c] = Empty /\ start <= c /\ c < prev
        THEN /\ cmap[c] \in Words /\ c < cmap[c] /\ cmap[c] <= prev
             /\ cmap[c] \in FatWords => fat[cmap[c]] = Empty
             /\ \A x \in FatWords : c < x /\ x < cmap[c] => fat[x] # Empty
        ELSE cmap[c] = fat[c]

(* The scan is at now; there are enough empty entries from there on, or so *)
(* few that even the word past the FAT does not make up for them.          *)
Rest == {c \in FatWords : c >= now /\ fat[c] = Empty}

Scanning ==
    /\ Building
    /\ start \in FatWords /\ prev \in FatWords /\ prev < now
    /\ \A x \in FatWords : prev < x /\ x < now => fat[x] # Empty
    /\ ready < req.size \/ now = start + 1
    /\ \/ req.size - ready <= Cardinality(Rest)
       \/ req.size - ready > Cardinality(Rest) + 1

(* Part of a chain is freed in memory; now begins what is left of it.      *)
Freeing ==
    /\ now \in DataClusters \cap FatWords /\ cmap[now] # Empty
    /\ \A c \in FatWords : cmap[c] # fat[c] => cmap[c] = Empty
    /\ \A c \in FatWords : cmap[c] # fat[c] \/ c = now =>
        /\ c \in DataClusters
        /\ \A e \in Live : First(e) # c
        /\ \A d \in FatWords : cmap[d] # c

(* dir_table_buf holds the directory that the call will write. *)
Loaded ==
    /\ req.dir \in DataClusters \cup {Root} /\ at \in Slots
    /\ buf.dir /\ buf.slot = tab[req.dir].slot

CallInv ==
    /\ pc \in {"link", "commit", "rollback"} => Building
    /\ pc = "link" => Scanning
    /\ pc = "commit" => prev \in FatWords
    /\ pc = "free" => Freeing
    /\ pc \notin {"link", "commit", "rollback", "free"} => cmap = fat
    /\ pc \in {"mkdir_parent", "rmdir_child", "rmdir_fat"} => Loose(now)
    /\ pc = "create_parent" => Loose(start)
    /\ pc \in {"mkdir_table", "data"} => Taken(now)
    /\ pc \in {"mkdir_parent", "link", "commit", "create_parent"} => Loaded

NoWordTaken == buf.word = Empty /\ \A c \in Words : tab[c].word = Empty

(* A slot that is not in use has no name, so that no search finds it. *)
CleanSlots ==
    \A c \in Words, s \in Slots : ~tab[c].slot[s].used => tab[c].slot[s].name = NoName

(* What holds at every step, and is kept by every step. *)
Inductive ==
    /\ TypeOK /\ NoDangling /\ NoCrossLink /\ ReservedKept
    /\ NoWordTaken /\ CleanSlots /\ CallInv
-----------------------------------------------------------------------------
(* The tree: what the entries in use lead to, and what a call in progress  *)
(* relies on when it adds one.                                             *)

(* A slot that is not in use is not marked as a directory: write leaves    *)
(* the attribute of the slot it takes for a file as it is.                 *)
UnmarkedSlots ==
    \A c \in Words, s \in Slots : ~tab[c].slot[s].used => ~tab[c].slot[s].dir

(* A cluster that is free, or part of a file, does not look like a         *)
(* directory: what mkdir recycles is not marked before it is written.      *)
UnmarkedClusters ==
    /\ \A c \in FatWords : fat[c] = Empty => ~tab[c].dir
    /\ \A c \in FatWords : fat[c] \in DataClusters => ~tab[fat[c]].dir
    /\ \A e \in Live : ~EntryAt(e).dir => ~tab[First(e)].dir

(* dir_table_buf is the parent's table, and the entry will be a new one. *)
RoomForEntry ==
    /\ req.dir \in Dirs /\ req.name \in Names /\ at \in Slots
    /\ buf = tab[req.dir] /\ ~buf.slot[at].used
    /\ \A s \in Slots : buf.slot[s].name # req.name

(* The entry is in place and its clusters are its own. *)
EntryMade(c, isDir) ==
    LET own == <<req.dir, at>>
    IN  /\ own \in Live /\ First(own) = c /\ EntryAt(own).dir = isDir
        /\ req.name = EntryAt(own).name
        /\ \A e \in Live : now \in Chain(fat, First(e)) => e = own

TreeCallInv ==
    /\ pc \in {"mkdir_parent", "link", "commit", "create_parent"} => RoomForEntry
    /\ pc = "mkdir_table" => EntryMade(now, TRUE)
    /\ pc = "data" => EntryMade(start, FALSE)
    /\ pc \in {"mkdir_parent", "mkdir_table", "rmdir_fat"} => ~tab[now].dir
    /\ pc = "create_parent" => ~tab[start].dir
    /\ pc = "free" => \A c \in FatWords : cmap[c] # fat[c] \/ c = now => ~tab[c].dir

(* Together with Inductive, what keeps the tree of entries a tree: no      *)
(* cluster that mkdir can recycle, and no slot that write can take, still  *)
(* has a directory's mark, wherever an earlier call was cut off; and a     *)
(* call that adds an entry has it new, with clusters of its own.           *)
TreeInv ==
    /\ EntriesInDirs /\ ParentMatches
    /\ UnmarkedSlots /\ UnmarkedClusters /\ TreeCallInv

-----------------------------------------------------------------------------
(* Room: the clusters that the call in progress has linked so far.         *)

Linked == {c \in FatWords : fat[c] = Empty /\ start <= c /\ c <= prev}

(* The links made in memory are as many as the count says (fat32.c:634):   *)
(* so the chain that CommitFat puts on disk has room for the file, from    *)
(* then on, until its last cluster is written.                             *)
RoomInv ==
    /\ pc \in {"link", "commit"} => Cardinality(Linked) = ready
    /\ pc = "commit" => ready >= req.size
    /\ pc \in {"create_parent", "data"} => Cardinality(Chain(fat, start)) >= req.size

-----------------------------------------------------------------------------
(* What holds without power cuts, also during a call: tables and contents  *)
(* are written, but for those that the call is about to write, and what is *)
(* taken belongs to an entry or to the call.                               *)

TablesInv ==
    \A e \in Live :
        EntryAt(e).dir /\ ~(pc = "mkdir_table" /\ e = <<req.dir, at>>) => tab[First(e)].dir

ContentsInv ==
    /\ ContentsKept
    /\ pc = "data" =>
           \A c \in Chain(fat, start) \ Chain(fat, now) : tab[c].data = Text[req.name]

Held ==
    CASE pc \in {"mkdir_parent", "rmdir_child", "rmdir_fat"} -> {now}
      [] pc = "create_parent" -> Chain(fat, start)
      [] pc = "free" -> {c \in FatWords : cmap[c] = Empty} \cup Chain(cmap, now)
      [] OTHER -> {}

(* A directory is one cluster: its chain ends where it begins. *)
DirsAreSingle ==
    /\ \A e \in Live : EntryAt(e).dir => fat[First(e)] = EndOfFile
    /\ pc = "mkdir_parent" => fat[now] = EndOfFile

LeakInv ==
    \A c \in FatWords \ {0, 1, Root} :
        fat[c] # Empty => c \in Held \/ \E e \in Live : c \in Chain(fat, First(e))

FilesInv == TablesInv /\ ContentsInv /\ DirsAreSingle /\ LeakInv
=============================================================================
