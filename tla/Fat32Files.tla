------------------------------ MODULE Fat32Files ------------------------------
(***************************************************************************)
(* The files of Fat32, for every size, when callers are not Overfull: a    *)
(* write that succeeds has room for the file, also under power cuts; and   *)
(* without power cuts every directory's table is written, every file keeps *)
(* its contents, and no cluster is lost.                                   *)
(***************************************************************************)
EXTENDS Fat32Tree

-----------------------------------------------------------------------------
(* Room: the scan of the FAT counts the clusters that it links *)

LEMMA WordSets ==
    ASSUME NEW m, NEW c \in Words
    PROVE  IsFiniteSet(Chain(m, c)) /\ Chain(m, c) \subseteq Words
<1>1. IsFiniteSet(Words)
    BY FatSets, FS_AddElement DEF Words
<1>2. Chain(m, c) \subseteq Words
    BY ChainBack
<1> QED
    BY <1>1, <1>2, FS_Subset

LEMMA StartFileRoom ==
    ASSUME Inductive, Inductive', NEW d \in Dirs, NEW n \in Names, NEW k \in 1 .. MaxCount,
           StartFile(d, n, k)
    PROVE  RoomInv'
<1>1. PICK c \in Words :
        /\ start' = c /\ prev' = c /\ ready' = 1
        /\ pc' = IF c + 1 < Limit THEN "link" ELSE IF k <= 1 THEN "commit" ELSE "rollback"
    BY DEF StartFile
<1>2. pc' \in {"link", "commit"} => c \in FatWords /\ fat'[c] = Empty
    BY <1>1 DEF Inductive, CallInv, Scanning, Building
<1>3. c \in FatWords => c + 1 < Limit
    BY SMT, SizeAssumption DEF FatWords, Limit
<1>4. c \in FatWords /\ fat'[c] = Empty => Linked' = {c}
    BY <1>1 DEF Linked, FatWords
<1>5. Cardinality({c}) = 1
    BY FS_Singleton
<1> QED
    BY <1>1, <1>2, <1>3, <1>4, <1>5 DEF RoomInv

LEMMA LinkRoom ==
    ASSUME Inductive, Inductive', RoomInv, Link
    PROVE  RoomInv'
<1> PICK x : x = now
    OBVIOUS
<1>1. /\ UNCHANGED <<fat, start, req>> /\ Cardinality(Linked) = ready
      /\ pc' \in {"link", "commit", "rollback"} /\ (pc' = "commit" => ready' >= req'.size)
    BY DEF Link, disk, RoomInv
<1>2. Building /\ Scanning /\ prev \in FatWords /\ start \in FatWords /\ prev < x
      /\ \A y \in FatWords : prev < y /\ y < x => fat[y] # Empty
    BY DEF Inductive, CallInv, Link, Scanning
<1>3. \A y \in FatWords : y \in Int
    BY DEF FatWords
<1>4. CASE prev' = x /\ ready' = ready + 1
    <2>1. ASSUME pc' \in {"link", "commit"} PROVE Cardinality(Linked') = ready'
        <3>1. x \in FatWords /\ fat[x] = Empty
            BY <1>1, <1>4, <2>1 DEF Inductive, CallInv, Scanning, Building
        <3>2. Linked' = Linked \cup {x} /\ x \notin Linked
            BY <1>1, <1>2, <1>3, <1>4, <3>1 DEF Linked, Building
        <3>3. Linked \subseteq FatWords
            BY DEF Linked
        <3>4. IsFiniteSet(Linked)
            BY <3>3, FatSets
        <3> QED
            BY <1>1, <1>4, <3>2, <3>4, FS_AddElement
    <2> QED
        BY <1>1, <2>1 DEF RoomInv
<1>5. CASE UNCHANGED <<prev, ready>>
    <2>1. Linked' = Linked
        BY <1>1, <1>5 DEF Linked
    <2> QED
        BY <1>1, <1>5, <2>1 DEF RoomInv
<1> QED
    BY <1>4, <1>5 DEF Link

(* The chain that is put on the disk takes in all the clusters linked.     *)
LEMMA LinkedReached ==
    ASSUME TypeOK, Building, prev \in FatWords, fat' = [cmap EXCEPT ![prev] = EndOfFile]
    PROVE  Linked \subseteq Chain(fat', start)
<1>1. Linked \subseteq FatWords /\ \A y \in Words : y \in Int
    BY SMT, SizeAssumption DEF Linked, Words, FatWords, Alias
<1>2. prev \in Nat /\ start \in Nat /\ \A y \in FatWords : y \in Nat
    BY SMT, SizeAssumption DEF FatWords, TypeOK, Words, Alias
<1>3. start \in Linked
    <2>1. start \in FatWords
        BY <1>2, SMT, SizeAssumption DEF FatWords, Building
    <2> QED
        BY <1>2, <2>1 DEF Linked, Building
<1>4. ASSUME NEW x \in Linked, x # start
      PROVE  \E y \in Linked : y < x /\ fat'[y] = x
    <2> DEFINE T == {k \in Nat : \E y \in Linked : y < x /\ k = x - y}
    <2>1. x \in Nat /\ fat[x] = Empty /\ start < x /\ x <= prev
        BY <1>2, <1>4 DEF Linked
    <2>2. x - start \in T
        BY <1>2, <1>3, <2>1
    <2>3. PICK k \in T : \A j \in T : k <= j
        BY <2>2, LeastExists
    <2>4. PICK y \in Linked : y < x /\ k = x - y
        BY <2>3
    <2>5. \A z \in Linked : z < x => z <= y
        <3> SUFFICES ASSUME NEW z \in Linked, z < x PROVE z <= y
            OBVIOUS
        <3>1. z \in Nat /\ y \in Nat
            BY <1>1, <1>2
        <3>2. x - z \in T
            BY <2>1, <3>1
        <3>3. x - y <= x - z
            BY <2>3, <2>4, <3>2
        <3> QED
            BY <2>1, <3>1, <3>3
    <2>6. y \in FatWords /\ y \in Nat /\ fat[y] = Empty /\ start <= y /\ y < prev
        BY <1>1, <1>2, <2>1, <2>4 DEF Linked
    <2>7. /\ cmap[y] \in Words /\ y < cmap[y] /\ cmap[y] <= prev
          /\ cmap[y] \in FatWords => fat[cmap[y]] = Empty
          /\ \A z \in FatWords : y < z /\ z < cmap[y] => fat[z] # Empty
        BY <2>6 DEF Building
    <2>8. cmap[y] \in FatWords /\ cmap[y] \in Nat
        <3>1. cmap[y] \in Int /\ y < cmap[y] /\ cmap[y] <= prev /\ prev < FatSize
            BY <1>1, <2>7, SizeAssumption DEF FatWords
        <3>2. FatSize \in Int
            BY SizeAssumption
        <3> QED
            BY <1>2, <2>6, <3>1, <3>2, SMT DEF FatWords
    <2>9. cmap[y] \in Linked
        BY <1>2, <2>6, <2>7, <2>8 DEF Linked
    <2>10. ~(x < cmap[y])
        BY <1>1, <2>1, <2>4, <2>7
    <2>11. ~(cmap[y] < x)
        BY <2>5, <2>6, <2>7, <2>8, <2>9
    <2>12. cmap[y] = x
        BY <2>1, <2>8, <2>10, <2>11
    <2>13. fat'[y] = cmap[y]
        BY <2>6, <1>2 DEF TypeOK
    <2> QED
        BY <2>4, <2>12, <2>13
<1> QED
    BY <1>1, <1>3, <1>4, ChainAscends

LEMMA CommitFatRoom ==
    ASSUME Inductive, RoomInv, CommitFat
    PROVE  RoomInv'
<1>1. Building /\ prev \in FatWords /\ UNCHANGED <<start, req>> /\ pc' = "create_parent"
      /\ fat' = [cmap EXCEPT ![prev] = EndOfFile]
    BY AliasApart DEF CommitFat, Inductive, CallInv, locals
<1>2. Linked \subseteq Chain(fat', start)
    BY <1>1, LinkedReached DEF Inductive
<1>3. IsFiniteSet(Chain(fat', start))
    BY WordSets DEF Inductive, TypeOK
<1>4. Cardinality(Linked) <= Cardinality(Chain(fat', start))
    BY <1>2, <1>3, FS_Subset
<1>5. Cardinality(Linked) = ready /\ ready >= req.size
    BY DEF CommitFat, RoomInv
<1>6. ready \in Int /\ req.size \in Int /\ Cardinality(Chain(fat', start)) \in Int
    BY <1>3, FS_CardinalityType, SizeAssumption DEF Inductive, TypeOK, Request
<1>7. Cardinality(Chain(fat', start)) >= req.size
    BY <1>4, <1>5, <1>6
<1> QED
    BY <1>1, <1>7 DEF RoomInv

LEMMA RoomStep ==
    ASSUME Inductive, Inductive', RoomInv, [Next]_vars
    PROVE  RoomInv'
<1>1. ASSUME pc' \notin {"link", "commit", "create_parent", "data"} PROVE RoomInv'
    BY <1>1 DEF RoomInv
<1>2. CASE Call
    <2>1. PICK d \in Dirs, n \in Names :
            \/ RefuseWrite(d, n)
            \/ \E up \in NamesOf(d) : MakeDir(d, n, up)
            \/ \E k \in 1 .. MaxCount : StartFile(d, n, k)
            \/ RefuseDelete(d, n)
            \/ DropEntry(d, n)
            \/ ReadPastTable(d, n)
            \/ \E k \in 1 .. MaxCount : RefuseRead(d, n, k) \/ StartRead(d, n, k)
        BY <1>2 DEF Call
    <2>2. CASE \E k \in 1 .. MaxCount : StartFile(d, n, k)
        BY <2>2, StartFileRoom
    <2>3. CASE ~ \E k \in 1 .. MaxCount : StartFile(d, n, k)
        <3>1. pc' \in {"idle", "halted", "mkdir_parent", "rmdir_child", "free", "copy"}
            BY <2>1, <2>3 DEF RefuseWrite, MakeDir, RefuseDelete, DropEntry, ReadPastTable,
                              RefuseRead, StartRead, Return, Halt
        <3> QED
            BY <1>1, <3>1
    <2> QED
        BY <2>2, <2>3
<1>3. CASE CreateParent
    BY <1>3 DEF CreateParent, RoomInv
<1>4. CASE WriteData
    <2>1. CASE Return(0)
        BY <1>1, <2>1 DEF Return
    <2>2. CASE UNCHANGED <<pc, req, start, fat>>
        BY <1>4, <2>2 DEF WriteData, RoomInv
    <2> QED
        BY <1>4, <2>1, <2>2 DEF WriteData
<1>5. CASE Continue /\ ~CreateParent /\ ~WriteData
    <2>1. CASE Link \/ CommitFat
        BY <2>1, LinkRoom, CommitFatRoom
    <2>2. CASE ~Link /\ ~CommitFat
        <3>1. pc' \in {"mkdir_table", "idle", "rollback", "rmdir_fat", "free", "copy", "copied"}
            BY <1>5, <2>2 DEF Continue, MkdirParent, MkdirTable, Rollback, RmdirChild, RmdirFat,
                              Free, Copy, EndRead, Return
        <3> QED
            BY <1>1, <3>1
    <2> QED
        BY <2>1, <2>2
<1>6. CASE Reboot
    BY <1>1, <1>6 DEF Reboot
<1>7. CASE UNCHANGED vars
    <2>1. Linked' = Linked
        BY <1>7 DEF vars, Linked
    <2> QED
        BY <1>7, <2>1 DEF vars, RoomInv
<1> QED
    BY <1>2, <1>3, <1>4, <1>5, <1>6, <1>7 DEF Next

(* RoomInv holds at every step, power cuts included. *)
THEOREM RoomInvCorrect ==
    ASSUME ~Overfull
    PROVE  Spec => []RoomInv
<1>1. Init => RoomInv
    BY DEF Init, RoomInv
<1>2. Inductive /\ Inductive' /\ RoomInv /\ [Next]_vars => RoomInv'
    BY RoomStep
<1> QED
    BY <1>1, <1>2, InductiveCorrect, PTL DEF Spec

(* A write that returns 0 has put a chain on the disk that is as long as   *)
(* the file: the scan counted right, and the links it made are in place.   *)
THEOREM RoomForFileCorrect ==
    ASSUME ~Overfull
    PROVE  Spec => RoomForFile
<1>1. RoomInv => [pc = "data" /\ pc' = "idle" /\ rc' = 0
                      => Cardinality(Chain(fat, start)) >= req.size]_vars
    BY DEF RoomInv
<1> QED
    BY <1>1, RoomInvCorrect, PTL DEF RoomForFile

-----------------------------------------------------------------------------
(* Chains, when the FAT on disk changes *)

(* The chain of a taken cluster stays as it is when the words that change  *)
(* are the empty ones and those of a set that no other word leads into.    *)
LEMMA ChainKept ==
    ASSUME NoDangling, NEW F,
           \A y \in FatWords \ F : fat[y] # Empty => fat'[y] = fat[y],
           \A y \in FatWords \ F : fat[y] \notin F \cap DataClusters,
           NEW c, Taken(c), c \notin F
    PROVE  Chain(fat', c) = Chain(fat, c) /\ \A y \in Chain(fat, c) : y \notin F
<1> DEFINE S == {y \in FatWords : Taken(y)} \ F
<1>1. c \in S
    BY DEF Taken
<1>2. \A y \in S \cap FatWords : fat'[y] = fat[y] /\ (fat[y] \in Words => fat[y] \in S)
    BY DEF NoDangling, Taken
<1>3. Chain(fat', c) = Chain(fat, c)
    <2> HIDE DEF S
    <2> QED
        BY <1>1, <1>2, ChainSame
<1>4. Chain(fat, c) \subseteq S
    <2> HIDE DEF S
    <2> QED
        BY <1>1, <1>2, ChainLeast
<1> QED
    BY <1>3, <1>4

LEMMA ChainStays ==
    ASSUME NoDangling, \A y \in FatWords : fat[y] # Empty => fat'[y] = fat[y], NEW c, Taken(c)
    PROVE  Chain(fat', c) = Chain(fat, c) /\ fat'[c] = fat[c]
<1>1. \A y \in FatWords \ {} : fat[y] # Empty => fat'[y] = fat[y]
    OBVIOUS
<1>2. \A y \in FatWords \ {} : fat[y] \notin {} \cap DataClusters
    OBVIOUS
<1>3. c \notin {}
    OBVIOUS
<1>4. Chain(fat', c) = Chain(fat, c)
    BY <1>1, <1>2, <1>3, ChainKept
<1> QED
    BY <1>4 DEF Taken

(* The last cluster of a chain is a chain of its own. *)
LEMMA ChainEnds ==
    ASSUME NEW m, NEW c, c \in FatWords => m[c] \notin Words
    PROVE  Chain(m, c) = {c}
<1>1. Chain(m, c) \subseteq {c}
    <2>1. \A y \in {c} \cap FatWords : m[y] \in Words => m[y] \in {c}
        OBVIOUS
    <2> QED
        BY <2>1, ChainLeast
<1> QED
    BY <1>1, ChainBack

LEMMA EndApart == EndOfFile \notin Words /\ EndOfFile # Empty /\ Empty \notin DataClusters
    BY SMT, SizeAssumption DEF Words, FatWords, Alias, EndOfFile, Empty, DataClusters

-----------------------------------------------------------------------------
(* What a step does to the entries *)

SameEntriesStep == Live' = Live /\ \A e \in Live : EntryAt(e)' = EntryAt(e) /\ First(e)' = First(e)

SameData == \A c \in Words : tab'[c].data = tab[c].data

LEMMA DiskEntries ==
    ASSUME UNCHANGED tab
    PROVE  SameEntriesStep
    BY DEF SameEntriesStep, Live, EntryAt, First

LEMMA CallEntries ==
    ASSUME Inductive, TreeInv, MkdirTable \/ WriteData \/ RmdirChild
    PROVE  SameEntriesStep /\ UNCHANGED fat /\ \A y \in Words : y # now => tab'[y] = tab[y]
<1>1. SameEntriesStep
    BY MkdirTableTree, WriteDataTree, RmdirChildTree DEF SameEntriesStep, First
<1> QED
    BY <1>1 DEF MkdirTable, WriteData, RmdirChild, Inductive, TypeOK

(* The step puts the entry of a call in place: a directory's, or a file's. *)
Added(e, c, isDir) ==
    /\ Live' = Live \cup {e} /\ e \notin Live
    /\ First(e)' = c /\ EntryAt(e)'.dir = isDir
    /\ \A f \in Live : EntryAt(f)' = EntryAt(f) /\ First(f)' = First(f)
    /\ SameData /\ \A y \in Words : tab'[y].dir = tab[y].dir

LEMMA MkdirParentAdds ==
    ASSUME Inductive, TreeInv, MkdirParent, NEW e, e = <<req.dir, at>>, NEW c, c = now
    PROVE  Added(e, c, TRUE)
<1> USE DEF Inductive
<1> PICK d, a, x :
        /\ d = req.dir /\ a = at
        /\ x = [used |-> TRUE, name |-> req.name, dir |-> TRUE, first |-> now, size |-> 0]
    OBVIOUS
<1>1. d \in Words /\ a \in Slots /\ buf = tab[d] /\ ~tab[d].slot[a].used
    BY DirsType DEF MkdirParent, TreeInv, TreeCallInv, RoomForEntry, TypeOK
<1>2. tab' = [tab EXCEPT ![d] = [tab[d] EXCEPT !.slot[a] = x]]
    BY <1>1 DEF MkdirParent
<1>3. OneSlot(d, a, x)
    BY <1>1, <1>2, WriteSlot
<1>4. /\ Live' = Live \cup {<<d, a>>} /\ <<d, a>> \notin Live /\ EntryAt(<<d, a>>)' = x
      /\ \A f \in Live : EntryAt(f)' = EntryAt(f)
    BY <1>1, <1>3, AddSlot
<1>5. SameData
    BY <1>1, <1>2 DEF SameData, TypeOK, Cluster
<1> QED
    BY <1>3, <1>4, <1>5 DEF Added, First, OneSlot

LEMMA CreateParentAdds ==
    ASSUME Inductive, TreeInv, CreateParent, NEW e, e = <<req.dir, at>>, NEW c, c = start
    PROVE  Added(e, c, FALSE)
<1> USE DEF Inductive
<1> PICK d, a, x :
        /\ d = req.dir /\ a = at
        /\ x = [buf.slot[at] EXCEPT !.used = TRUE, !.name = req.name,
                                    !.first = start, !.size = req.size]
    OBVIOUS
<1>1. d \in Words /\ a \in Slots /\ buf = tab[d] /\ ~tab[d].slot[a].used
      /\ ~tab[d].slot[a].dir /\ buf.slot[a] \in Slot
    BY DirsType DEF CreateParent, TreeInv, TreeCallInv, RoomForEntry, TypeOK, UnmarkedSlots,
                    Cluster
<1>2. tab' = [tab EXCEPT ![d] = [tab[d] EXCEPT !.slot[a] = x]]
    <2>1. buf' = [buf EXCEPT !.slot[a] = x]
        BY DEF CreateParent
    <2> QED
        BY <1>1, <2>1 DEF CreateParent
<1>3. x.used /\ x.first = c /\ x.dir = FALSE
    BY <1>1 DEF Slot
<1>4. OneSlot(d, a, x)
    BY <1>1, <1>2, WriteSlot
<1>5. /\ Live' = Live \cup {<<d, a>>} /\ <<d, a>> \notin Live /\ EntryAt(<<d, a>>)' = x
      /\ \A f \in Live : EntryAt(f)' = EntryAt(f)
    BY <1>1, <1>3, <1>4, AddSlot
<1>6. SameData
    BY <1>1, <1>2 DEF SameData, TypeOK, Cluster
<1> QED
    BY <1>3, <1>4, <1>5, <1>6 DEF Added, First, OneSlot

LEMMA DropEntryTakes ==
    ASSUME Inductive, TreeInv, NEW d \in Dirs, NEW n \in Names, DropEntry(d, n)
    PROVE  \E e \in Live :
               /\ Live' = Live \ {e} /\ now' = First(e)
               /\ pc' = IF EntryAt(e).dir THEN "rmdir_child" ELSE "free"
               /\ \A f \in Live' : EntryAt(f)' = EntryAt(f) /\ First(f)' = First(f)
               /\ SameData /\ \A y \in Words : tab'[y].dir = tab[y].dir
               /\ UNCHANGED <<fat, cmap>> /\ cmap = fat
<1> USE DEF Inductive
<1> PICK s \in Slots :
        /\ <<d, s>> \in Live /\ d \in Words
        /\ tab' = [tab EXCEPT ![d] = [tab[d] EXCEPT !.slot[s] = FreeSlot]]
        /\ now' = First(<<d, s>>)
        /\ pc' = IF EntryAt(<<d, s>>).dir THEN "rmdir_child" ELSE "free"
        /\ UNCHANGED <<fat, cmap>> /\ cmap = fat
    BY DropFinds
<1>1. OneSlot(d, s, FreeSlot)
    BY WriteSlot
<1>2. Live' = Live \ {<<d, s>>} /\ \A f \in Live' : EntryAt(f)' = EntryAt(f) /\ First(f)' = First(f)
    BY <1>1, ClearSlot DEF FreeSlot, First
<1>3. SameData
    BY DEF SameData, TypeOK, Cluster
<1> QED
    BY <1>1, <1>2, <1>3 DEF OneSlot

-----------------------------------------------------------------------------
(* Steps that leave the disk alone *)

(* Where the call holds no cluster of its own. *)
HoldsNothing == {"idle", "halted", "link", "commit", "rollback", "mkdir_table", "data",
                 "copy", "copied"}

LEMMA StillFiles ==
    ASSUME FilesInv, UNCHANGED disk, pc \in HoldsNothing \ {"mkdir_table", "data"},
           pc' \notin {"mkdir_parent", "data"}
    PROVE  FilesInv'
<1>1. UNCHANGED fat /\ UNCHANGED tab /\ SameEntriesStep
    BY DiskEntries DEF disk
<1>2. Held = {}
    BY DEF Held, HoldsNothing
<1>3. TablesInv'
    BY <1>1 DEF FilesInv, TablesInv, SameEntriesStep
<1>4. ContentsInv'
    BY <1>1 DEF FilesInv, ContentsInv, ContentsKept, SameEntriesStep
<1>5. DirsAreSingle'
    BY <1>1 DEF FilesInv, DirsAreSingle, SameEntriesStep
<1>6. LeakInv'
    BY <1>1, <1>2 DEF FilesInv, LeakInv, SameEntriesStep
<1> QED
    BY <1>3, <1>4, <1>5, <1>6 DEF FilesInv

-----------------------------------------------------------------------------
(* Steps of mkdir *)

LEMMA MakeDirFiles ==
    ASSUME Inductive, FilesInv, ~Overfull, NEW d \in Dirs, NEW n \in Names,
           NEW up \in NamesOf(d), MakeDir(d, n, up)
    PROVE  FilesInv'
<1> USE DEF Inductive
<1>1. cmap = fat /\ UNCHANGED tab /\ pc = "idle" /\ pc' = "mkdir_parent" /\ SameEntriesStep
    BY DiskEntries DEF MakeDir, CallInv
<1>2. FreeClusters # {}
    BY FatSets, SMT DEF MakeDir, Fits, FreeClusters
<1> PICK c \in Words : \E s \in Slots :
        /\ FirstFree(tab[d], c) /\ now' = c
        /\ cmap' = MapWith(c, EndOfFile)
    BY DEF MakeDir
<1>3. c \in FatWords /\ fat[c] = Empty
    BY <1>1, <1>2, FirstFreeInFat DEF FreeClusters
<1>4. \A y \in FatWords : fat'[y] = IF y = c THEN EndOfFile ELSE fat[y]
    BY <1>1, <1>3, AliasApart DEF MakeDir, TypeOK
<1>5. \A y : Taken(y) => Chain(fat', y) = Chain(fat, y) /\ fat'[y] = fat[y]
    <2>1. \A y \in FatWords : fat[y] # Empty => fat'[y] = fat[y]
        BY <1>3, <1>4
    <2> QED
        BY <2>1, ChainStays
<1>6. \A e \in Live : Taken(First(e))
    BY DEF NoDangling
<1>7. TablesInv'
    BY <1>1 DEF FilesInv, TablesInv, SameEntriesStep
<1>8. ContentsInv'
    BY <1>1, <1>5, <1>6 DEF FilesInv, ContentsInv, ContentsKept, SameEntriesStep
<1>9. DirsAreSingle'
    BY <1>1, <1>3, <1>4, <1>5, <1>6 DEF FilesInv, DirsAreSingle, SameEntriesStep
<1>10. Held = {} /\ Held' = {c}
    BY <1>1 DEF Held
<1>11. LeakInv'
    BY <1>1, <1>4, <1>5, <1>6, <1>10 DEF FilesInv, LeakInv, SameEntriesStep
<1> QED
    BY <1>7, <1>8, <1>9, <1>11 DEF FilesInv

LEMMA MkdirParentFiles ==
    ASSUME Inductive, TreeInv, FilesInv, MkdirParent
    PROVE  FilesInv'
<1> USE DEF Inductive
<1> PICK e, c : e = <<req.dir, at>> /\ c = now
    OBVIOUS
<1>1. Added(e, c, TRUE)
    BY MkdirParentAdds
<1>2. UNCHANGED <<fat, req, at, now>> /\ pc = "mkdir_parent" /\ pc' = "mkdir_table"
    BY DEF MkdirParent, locals
<1>3. Taken(c) /\ \A f \in Live : Taken(First(f))
    BY DEF MkdirParent, CallInv, Loose, NoDangling
<1>4. \A f \in Live : First(f) \in Words
    BY <1>3 DEF Taken, DataClusters
<1>5. TablesInv'
    BY <1>1, <1>2, <1>4 DEF FilesInv, TablesInv, Added
<1>6. ContentsInv'
    <2> SUFFICES ASSUME NEW f \in Live', ~EntryAt(f)'.dir, NEW y \in Chain(fat, First(f)')
                 PROVE  tab'[y].data = Text[EntryAt(f)'.name]
        BY <1>2 DEF ContentsInv, ContentsKept
    <2>1. f \in Live /\ EntryAt(f)' = EntryAt(f) /\ First(f)' = First(f)
        BY <1>1 DEF Added
    <2>2. y \in Words
        BY <1>4, <2>1, WordSets
    <2> QED
        BY <1>1, <1>2, <2>1, <2>2 DEF FilesInv, ContentsInv, ContentsKept, Added, SameData
<1>7. fat[c] = EndOfFile
    BY <1>2 DEF FilesInv, DirsAreSingle
<1>8. DirsAreSingle'
    BY <1>1, <1>2, <1>7 DEF FilesInv, DirsAreSingle, Added
<1>9. Held = {c}
    BY <1>2 DEF Held
<1>10. c \in Chain(fat, First(e)')
    BY <1>1, ChainBack DEF Added
<1>11. LeakInv'
    BY <1>1, <1>2, <1>9, <1>10 DEF FilesInv, LeakInv, Added
<1> QED
    BY <1>5, <1>6, <1>8, <1>11 DEF FilesInv

LEMMA MkdirTableFiles ==
    ASSUME Inductive, TreeInv, FilesInv, MkdirTable
    PROVE  FilesInv'
<1> USE DEF Inductive
<1> PICK e, c : e = <<req.dir, at>> /\ c = now
    OBVIOUS
<1>1. SameEntriesStep /\ UNCHANGED fat /\ \A y \in Words : y # c => tab'[y] = tab[y]
    BY CallEntries
<1>2. e \in Live /\ First(e) = c /\ EntryAt(e).dir /\ pc' = "idle" /\ pc = "mkdir_table"
      /\ c \in Words /\ \A f \in Live : c \in Chain(fat, First(f)) => f = e
    BY OwnCluster DEF MkdirTable, TreeInv, TreeCallInv, EntryMade, Return, TypeOK, ScanPcs
<1>3. tab'[c].dir
    BY <1>2 DEF MkdirTable, NewTable, TypeOK, Cluster
<1>4. \A f \in Live : First(f) \in Words
    BY DEF NoDangling, Taken, DataClusters
<1>5. TablesInv'
    BY <1>1, <1>2, <1>3, <1>4 DEF FilesInv, TablesInv, SameEntriesStep
<1>6. ContentsInv'
    <2> SUFFICES ASSUME NEW f \in Live, ~EntryAt(f).dir, NEW y \in Chain(fat, First(f))
                 PROVE  tab'[y].data = Text[EntryAt(f).name]
        BY <1>1, <1>2 DEF ContentsInv, ContentsKept, SameEntriesStep
    <2>1. y \in Words /\ y # c
        BY <1>2, <1>4, WordSets
    <2> QED
        BY <1>1, <1>2, <2>1 DEF FilesInv, ContentsInv, ContentsKept
<1>7. DirsAreSingle'
    BY <1>1, <1>2 DEF FilesInv, DirsAreSingle, SameEntriesStep
<1>8. Held = {}
    BY <1>2 DEF Held
<1>9. LeakInv'
    BY <1>1, <1>8 DEF FilesInv, LeakInv, SameEntriesStep
<1> QED
    BY <1>5, <1>6, <1>7, <1>9 DEF FilesInv

-----------------------------------------------------------------------------
(* Steps of a write of a file *)

LEMMA CommitFatFiles ==
    ASSUME Inductive, FilesInv, CommitFat
    PROVE  FilesInv'
<1> USE DEF Inductive
<1>1. /\ Building /\ prev \in FatWords /\ UNCHANGED <<tab, start>>
      /\ pc = "commit" /\ pc' = "create_parent"
      /\ fat' = [cmap EXCEPT ![prev] = EndOfFile] /\ SameEntriesStep
    BY AliasApart, DiskEntries DEF CommitFat, CallInv, locals
<1>2. \A y \in FatWords : fat[y] # Empty => fat'[y] = fat[y]
    BY <1>1, NewChain
<1>3. \A y : Taken(y) => Chain(fat', y) = Chain(fat, y) /\ fat'[y] = fat[y]
    BY <1>2, ChainStays
<1>4. \A e \in Live : Taken(First(e))
    BY DEF NoDangling
<1>5. TablesInv'
    BY <1>1 DEF FilesInv, TablesInv, SameEntriesStep
<1>6. ContentsInv'
    <2> SUFFICES ASSUME NEW e \in Live, ~EntryAt(e).dir, NEW y \in Chain(fat', First(e))
                 PROVE  tab[y].data = Text[EntryAt(e).name]
        BY <1>1 DEF ContentsInv, ContentsKept, SameEntriesStep
    <2>1. y \in Chain(fat, First(e))
        BY <1>3, <1>4
    <2> QED
        BY <1>1, <2>1 DEF FilesInv, ContentsInv, ContentsKept
<1>7. DirsAreSingle'
    BY <1>1, <1>3, <1>4 DEF FilesInv, DirsAreSingle, SameEntriesStep
<1>8. Held = {} /\ Held' = Chain(fat', start)
    BY <1>1 DEF Held
<1>9. LeakInv'
    <2> SUFFICES ASSUME NEW y \in FatWords \ {0, 1, Root}, fat'[y] # Empty
                 PROVE  y \in Chain(fat', start) \/ \E e \in Live : y \in Chain(fat', First(e))
        BY <1>1, <1>8 DEF LeakInv, SameEntriesStep
    <2>1. CASE fat[y] # Empty
        BY <1>3, <1>4, <1>8, <2>1 DEF FilesInv, LeakInv
    <2>2. CASE fat[y] = Empty
        <3>1. y = prev \/ cmap[y] # fat[y]
            BY <1>1, <2>2 DEF TypeOK
        <3>2. y \in Int /\ prev \in Int
            BY <1>1 DEF FatWords
        <3>3. y \in Linked
            BY <1>1, <2>2, <3>1, <3>2 DEF Linked, Building
        <3> QED
            BY <1>1, <3>3, LinkedReached
    <2> QED
        BY <2>1, <2>2
<1> QED
    BY <1>5, <1>6, <1>7, <1>9 DEF FilesInv

LEMMA CreateParentFiles ==
    ASSUME Inductive, TreeInv, FilesInv, CreateParent
    PROVE  FilesInv'
<1> USE DEF Inductive
<1> PICK e, c : e = <<req.dir, at>> /\ c = start
    OBVIOUS
<1>1. Added(e, c, FALSE)
    BY CreateParentAdds
<1>2. UNCHANGED <<fat, req, at, start>> /\ now' = c /\ pc = "create_parent" /\ pc' = "data"
    BY DEF CreateParent
<1>3. \A f \in Live : First(f) \in Words
    BY DEF NoDangling, Taken, DataClusters
<1>4. TablesInv'
    BY <1>1, <1>2, <1>3 DEF FilesInv, TablesInv, Added
<1>5. ContentsInv'
    <2> SUFFICES ASSUME NEW f \in Live', ~EntryAt(f)'.dir, f # e, NEW y \in Chain(fat, First(f)')
                 PROVE  tab'[y].data = Text[EntryAt(f)'.name]
        BY <1>2 DEF ContentsInv, ContentsKept
    <2>1. f \in Live /\ EntryAt(f)' = EntryAt(f) /\ First(f)' = First(f)
        BY <1>1 DEF Added
    <2>2. y \in Words
        BY <1>3, <2>1, WordSets
    <2> QED
        BY <1>1, <1>2, <2>1, <2>2 DEF FilesInv, ContentsInv, ContentsKept, Added, SameData
<1>6. DirsAreSingle'
    BY <1>1, <1>2 DEF FilesInv, DirsAreSingle, Added
<1>7. Held = Chain(fat, First(e)')
    BY <1>1, <1>2 DEF Held, Added
<1>8. LeakInv'
    BY <1>1, <1>2, <1>7 DEF FilesInv, LeakInv, Added
<1> QED
    BY <1>4, <1>5, <1>6, <1>8 DEF FilesInv

(* Each turn adds the cluster at now to those that hold the contents. *)
LEMMA WriteDataFiles ==
    ASSUME Inductive, TreeInv, FilesInv, WriteData
    PROVE  FilesInv'
<1> USE DEF Inductive
<1> PICK e, c : e = <<req.dir, at>> /\ c = now
    OBVIOUS
<1>1. SameEntriesStep /\ UNCHANGED fat /\ \A y \in Words : y # c => tab'[y] = tab[y]
    BY CallEntries
<1>2. /\ e \in Live /\ First(e) = start /\ ~EntryAt(e).dir /\ EntryAt(e).name = req.name
      /\ pc = "data" /\ cmap = fat /\ c \in FatWords
      /\ \A f \in Live : c \in Chain(fat, First(f)) => f = e
    BY OwnCluster DEF WriteData, TreeInv, TreeCallInv, EntryMade, CallInv, Taken
<1>3. \A f \in Live : First(f) \in Words
    BY DEF NoDangling, Taken, DataClusters
<1>4. tab'[c].data = Text[req.name] /\ Word(c) = fat[c]
    BY <1>2, ConstantTypes, AliasApart DEF WriteData, Contents, TypeOK, Word
<1>5. \A f \in Live : f # e => First(f) # c /\ \A y \in Chain(fat, First(f)) : tab'[y] = tab[y]
    <2> SUFFICES ASSUME NEW f \in Live, f # e
                 PROVE  First(f) # c /\ \A y \in Chain(fat, First(f)) : tab'[y] = tab[y]
        OBVIOUS
    <2>1. c \notin Chain(fat, First(f)) /\ First(f) \in Chain(fat, First(f))
        BY <1>2, ChainBack
    <2> QED
        BY <1>1, <1>3, <2>1, WordSets
<1>6. TablesInv'
    BY <1>1, <1>2, <1>3, <1>5 DEF FilesInv, TablesInv, SameEntriesStep
<1>7. \A y \in Chain(fat, start) \ Chain(fat, c) : tab'[y].data = Text[req.name]
    <2> SUFFICES ASSUME NEW y \in Chain(fat, start) \ Chain(fat, c)
                 PROVE  tab'[y].data = Text[req.name]
        OBVIOUS
    <2>1. y \in Words /\ y # c
        BY <1>2, <1>3, WordSets, ChainBack
    <2> QED
        BY <1>1, <1>2, <2>1 DEF FilesInv, ContentsInv
<1>8. \A f \in Live : f # e /\ ~EntryAt(f).dir =>
          \A y \in Chain(fat, First(f)) : tab'[y].data = Text[EntryAt(f).name]
    BY <1>2, <1>5 DEF FilesInv, ContentsInv, ContentsKept
<1>9. DirsAreSingle'
    <2>1. pc' # "mkdir_parent"
        BY <1>2 DEF WriteData, Return
    <2> QED
        BY <1>1, <2>1 DEF FilesInv, DirsAreSingle, SameEntriesStep
<1>10. LeakInv'
    <2>1. Held = {}
        BY <1>2 DEF Held
    <2> QED
        BY <1>1, <2>1 DEF FilesInv, LeakInv, SameEntriesStep
<1>11. CASE Word(c) = EndOfFile /\ Return(0)
    <2>1. Chain(fat, c) = {c}
        BY <1>4, <1>11, EndApart, ChainEnds
    <2>2. \A y \in Chain(fat, First(e)) : tab'[y].data = Text[EntryAt(e).name]
        BY <1>2, <1>4, <1>7, <2>1
    <2>3. ContentsInv'
        BY <1>1, <1>8, <1>11, <2>2 DEF ContentsInv, ContentsKept, SameEntriesStep, Return
    <2> QED
        BY <1>6, <1>9, <1>10, <2>3 DEF FilesInv
<1>12. CASE /\ Word(c) \in Words /\ now' = Word(c)
            /\ UNCHANGED <<buf, pc, req, at, start, prev, ready, rc>>
    <2>1. Chain(fat, c) \subseteq {c} \cup Chain(fat, now')
        BY <1>2, <1>4, <1>12, ChainHead
    <2>2. \A y \in Chain(fat, start) \ Chain(fat, now') : tab'[y].data = Text[req.name]
        BY <1>4, <1>7, <2>1
    <2>3. ContentsInv'
        BY <1>1, <1>2, <1>8, <1>12, <2>2 DEF ContentsInv, ContentsKept, SameEntriesStep
    <2> QED
        BY <1>6, <1>9, <1>10, <2>3 DEF FilesInv
<1> QED
    BY <1>11, <1>12 DEF WriteData

-----------------------------------------------------------------------------
(* Steps of delete_something *)

LEMMA DropEntryFiles ==
    ASSUME Inductive, TreeInv, FilesInv, NEW d \in Dirs, NEW n \in Names, DropEntry(d, n)
    PROVE  FilesInv'
<1> USE DEF Inductive
<1> PICK e \in Live :
        /\ Live' = Live \ {e} /\ now' = First(e)
        /\ pc' = IF EntryAt(e).dir THEN "rmdir_child" ELSE "free"
        /\ \A f \in Live' : EntryAt(f)' = EntryAt(f) /\ First(f)' = First(f)
        /\ SameData /\ \A y \in Words : tab'[y].dir = tab[y].dir
        /\ UNCHANGED <<fat, cmap>> /\ cmap = fat
    BY DropEntryTakes
<1>1. pc = "idle" /\ \A f \in Live : First(f) \in Words
    BY DEF DropEntry, NoDangling, Taken, DataClusters
<1>2. TablesInv'
    BY <1>1 DEF FilesInv, TablesInv
<1>3. ContentsInv'
    <2> SUFFICES ASSUME NEW f \in Live', ~EntryAt(f)'.dir, NEW y \in Chain(fat, First(f)')
                 PROVE  tab'[y].data = Text[EntryAt(f)'.name]
        BY DEF ContentsInv, ContentsKept
    <2>1. f \in Live /\ EntryAt(f)' = EntryAt(f) /\ First(f)' = First(f)
        OBVIOUS
    <2>2. y \in Words
        BY <1>1, <2>1, WordSets
    <2> QED
        BY <1>1, <2>1, <2>2 DEF FilesInv, ContentsInv, ContentsKept, SameData
<1>4. DirsAreSingle'
    BY DEF FilesInv, DirsAreSingle
<1>5. Held = {}
    BY <1>1 DEF Held
<1>6. Chain(fat, First(e)) \subseteq Held'
    <2>1. CASE EntryAt(e).dir
        <3>1. fat[First(e)] = EndOfFile
            BY <2>1 DEF FilesInv, DirsAreSingle
        <3> QED
            BY <2>1, <3>1, EndApart, ChainEnds DEF Held
    <2>2. CASE ~EntryAt(e).dir
        BY <2>2 DEF Held
    <2> QED
        BY <2>1, <2>2
<1>7. LeakInv'
    <2> SUFFICES ASSUME NEW y \in FatWords \ {0, 1, Root}, fat[y] # Empty, y \notin Held'
                 PROVE  \E f \in Live' : y \in Chain(fat, First(f)')
        BY DEF LeakInv
    <2>1. PICK f \in Live : y \in Chain(fat, First(f))
        BY <1>5 DEF FilesInv, LeakInv
    <2>2. f # e
        BY <1>6, <2>1
    <2> QED
        BY <2>1, <2>2
<1> QED
    BY <1>2, <1>3, <1>4, <1>7 DEF FilesInv

LEMMA RmdirChildFiles ==
    ASSUME Inductive, TreeInv, FilesInv, RmdirChild
    PROVE  FilesInv'
<1> USE DEF Inductive
<1> PICK c : c = now
    OBVIOUS
<1>1. SameEntriesStep /\ UNCHANGED fat /\ \A y \in Words : y # c => tab'[y] = tab[y]
    BY CallEntries
<1>2. Loose(c) /\ c \in Words /\ pc = "rmdir_child" /\ pc' = "rmdir_fat" /\ now' = c
    BY DEF RmdirChild, CallInv, Loose, Taken, DataClusters, locals
<1>3. \A f \in Live : First(f) \in Words /\ First(f) # c
    BY <1>2 DEF NoDangling, Taken, DataClusters, Loose
<1>4. TablesInv'
    BY <1>1, <1>2, <1>3 DEF FilesInv, TablesInv, SameEntriesStep
<1>5. tab'[c].data = tab[c].data
    BY <1>2 DEF RmdirChild, TypeOK, Cluster
<1>6. ContentsInv'
    <2> SUFFICES ASSUME NEW f \in Live, ~EntryAt(f).dir, NEW y \in Chain(fat, First(f))
                 PROVE  tab'[y].data = Text[EntryAt(f).name]
        BY <1>1, <1>2 DEF ContentsInv, ContentsKept, SameEntriesStep
    <2>1. y \in Words
        BY <1>3, WordSets
    <2>2. tab'[y].data = tab[y].data
        BY <1>1, <1>5, <2>1
    <2> QED
        BY <1>2, <2>2 DEF FilesInv, ContentsInv, ContentsKept
<1>7. DirsAreSingle'
    BY <1>1, <1>2 DEF FilesInv, DirsAreSingle, SameEntriesStep
<1>8. Held = {c} /\ Held' = {c}
    BY <1>2 DEF Held
<1>9. LeakInv'
    BY <1>1, <1>8 DEF FilesInv, LeakInv, SameEntriesStep
<1> QED
    BY <1>4, <1>6, <1>7, <1>9 DEF FilesInv

(* The clusters of F are freed on the disk; the entries' chains stay. *)
LEMMA FreedFiles ==
    ASSUME Inductive, FilesInv, UNCHANGED tab, pc' = "idle",
           pc \in {"rmdir_fat", "free"}, NEW F,
           \A y \in FatWords : fat'[y] = IF y \in F THEN Empty ELSE fat[y],
           \A y \in FatWords \ F : fat[y] \notin F \cap DataClusters,
           \A e \in Live : First(e) \notin F,
           \A y \in Held \cap FatWords : fat'[y] = Empty
    PROVE  FilesInv'
<1>1. SameEntriesStep
    BY DiskEntries
<1>2. \A e \in Live : Taken(First(e))
    BY DEF Inductive, NoDangling
<1>3. \A e \in Live : Chain(fat', First(e)) = Chain(fat, First(e))
    BY <1>2, ChainKept DEF Inductive
<1>4. \A e \in Live : fat'[First(e)] = fat[First(e)]
    BY <1>2 DEF Taken
<1>5. TablesInv'
    BY <1>1 DEF FilesInv, TablesInv, SameEntriesStep
<1>6. ContentsInv'
    <2> SUFFICES ASSUME NEW e \in Live, ~EntryAt(e).dir, NEW y \in Chain(fat', First(e))
                 PROVE  tab[y].data = Text[EntryAt(e).name]
        BY <1>1 DEF ContentsInv, ContentsKept, SameEntriesStep
    <2> QED
        BY <1>3 DEF FilesInv, ContentsInv, ContentsKept
<1>7. DirsAreSingle'
    BY <1>1, <1>4 DEF FilesInv, DirsAreSingle, SameEntriesStep
<1>8. LeakInv'
    <2> SUFFICES ASSUME NEW y \in FatWords \ {0, 1, Root}, fat'[y] # Empty
                 PROVE  \E e \in Live : y \in Chain(fat', First(e))
        BY <1>1 DEF LeakInv, SameEntriesStep
    <2>1. y \notin Held /\ fat[y] # Empty
        OBVIOUS
    <2> QED
        BY <1>3, <2>1 DEF FilesInv, LeakInv
<1> QED
    BY <1>5, <1>6, <1>7, <1>8 DEF FilesInv

LEMMA RmdirFatFiles ==
    ASSUME Inductive, FilesInv, RmdirFat
    PROVE  FilesInv'
<1> PICK c : c = now
    OBVIOUS
<1>1. Loose(c) /\ cmap = fat /\ c \in FatWords /\ pc = "rmdir_fat" /\ pc' = "idle" /\ UNCHANGED tab
    BY DEF RmdirFat, Inductive, CallInv, Loose, Taken, Return
<1>2. \A y \in FatWords : fat'[y] = IF y \in {c} THEN Empty ELSE fat[y]
    <2>1. fat' = [fat EXCEPT ![c] = Empty]
        BY <1>1, AliasApart DEF RmdirFat
    <2> QED
        BY <2>1 DEF Inductive, TypeOK
<1>3. \A y \in FatWords \ {c} : fat[y] \notin {c} \cap DataClusters
    BY <1>1 DEF Loose
<1>4. \A e \in Live : First(e) \notin {c}
    BY <1>1 DEF Loose
<1>5. Held = {c}
    BY <1>1 DEF Held
<1>6. \A y \in Held \cap FatWords : fat'[y] = Empty
    BY <1>2, <1>5
<1> QED
    BY <1>1, <1>2, <1>3, <1>4, <1>6, FreedFiles

LEMMA FreeFiles ==
    ASSUME Inductive, FilesInv, Free
    PROVE  FilesInv'
<1> USE DEF Inductive
<1> PICK c : c = now
    OBVIOUS
<1>1. /\ Freeing /\ UNCHANGED tab /\ c \in FatWords /\ c \in DataClusters /\ pc = "free"
      /\ cmap' = [cmap EXCEPT ![c] = Empty] /\ Word(c) = cmap[c] /\ SameEntriesStep
    BY AliasApart, DiskEntries DEF Free, CallInv, Freeing, Word
<1>2. \A y \in FatWords : cmap'[y] = IF y = c THEN Empty ELSE cmap[y]
    BY <1>1 DEF TypeOK
<1>3. Held = {y \in FatWords : cmap[y] = Empty} \cup Chain(cmap, c)
    BY <1>1 DEF Held
<1>4. \A y \in FatWords : cmap[y] # c
    BY <1>1 DEF Freeing
<1>5. CASE cmap[c] = EndOfFile /\ fat' = cmap' /\ Return(0)
    <2> DEFINE F == {y \in FatWords : cmap[y] # fat[y] \/ y = c}
    <2>1. \A y \in FatWords : fat'[y] = IF y \in F THEN Empty ELSE fat[y]
        BY <1>1, <1>2, <1>5 DEF Freeing
    <2>2. \A y \in FatWords \ F : fat[y] \notin F \cap DataClusters
        BY <1>1 DEF Freeing
    <2>3. \A e \in Live : First(e) \notin F
        BY <1>1 DEF Freeing
    <2>4. Chain(cmap, c) = {c}
        BY <1>5, EndApart, ChainEnds
    <2>5. \A y \in Held \cap FatWords : fat'[y] = Empty
        BY <1>2, <1>3, <1>5, <2>4
    <2>6. pc' = "idle"
        BY <1>5 DEF Return
    <2> HIDE DEF F
    <2> QED
        BY <1>1, <2>1, <2>2, <2>3, <2>5, <2>6, FreedFiles
<1>6. CASE /\ cmap[c] \in Words /\ now' = cmap[c] /\ UNCHANGED <<fat, pc>>
    <2>1. TablesInv' /\ DirsAreSingle'
        BY <1>1, <1>6 DEF FilesInv, TablesInv, DirsAreSingle, SameEntriesStep
    <2>2. ContentsInv'
        BY <1>1, <1>6 DEF FilesInv, ContentsInv, ContentsKept, SameEntriesStep
    <2>3. Chain(cmap', now') = Chain(cmap, now')
        <3>1. now' \in Words \ {c}
            BY <1>1, <1>4, <1>6
        <3>2. \A y \in (Words \ {c}) \cap FatWords :
                  cmap'[y] = cmap[y] /\ (cmap[y] \in Words => cmap[y] \in Words \ {c})
            BY <1>2, <1>4
        <3> QED
            BY <3>1, <3>2, ChainSame
    <2>4. Chain(cmap, c) \subseteq {c} \cup Chain(cmap, now')
        BY <1>1, <1>6, ChainHead
    <2>5. Held' = {y \in FatWords : cmap'[y] = Empty} \cup Chain(cmap', now')
        BY <1>1, <1>6 DEF Held
    <2>6. \A y \in FatWords : y \in Held => y \in Held'
        BY <1>2, <1>3, <2>3, <2>4, <2>5
    <2>7. LeakInv'
        BY <1>1, <1>6, <2>6 DEF FilesInv, LeakInv, SameEntriesStep
    <2> QED
        BY <2>1, <2>2, <2>7 DEF FilesInv
<1> QED
    BY <1>1, <1>5, <1>6 DEF Free

-----------------------------------------------------------------------------
(* Every step *)

LEMMA InitFiles == Init => FilesInv
<1> SUFFICES ASSUME Init PROVE FilesInv
    OBVIOUS
<1> USE SizeAssumption, NameAssumption
<1> DEFINE S == 3 .. ShellLen + 2
<1>1. Root \in Words /\ 2 \in Slots /\ 3 \in S /\ Root \notin S /\ S \subseteq FatWords /\ S \subseteq Words
    BY SMT DEF Words, FatWords, Root, Slots
<1>2. \A c \in Words, s \in Slots :
          tab[c].slot[s] = IF c = Root /\ s = 2
                           THEN [used |-> TRUE, name |-> ShellName, dir |-> FALSE,
                                 first |-> 3, size |-> ShellLen]
                           ELSE FreeSlot
    BY <1>1 DEF Init, Blank, Contents, Root
<1>3. Live = {<<Root, 2>>}
    BY <1>1, <1>2 DEF Live, FreeSlot
<1>4. EntryAt(<<Root, 2>>).dir = FALSE /\ First(<<Root, 2>>) = 3
      /\ EntryAt(<<Root, 2>>).name = ShellName
    BY <1>1, <1>2 DEF EntryAt, First
<1>5. \A c \in FatWords : fat[c] = IF c = 0 THEN Reserved0
                                   ELSE IF c \in {1, Root, ShellLen + 2} THEN EndOfFile
                                   ELSE IF c < ShellLen + 2 THEN c + 1
                                   ELSE Empty
    BY DEF Init
<1>6. \A c \in S : tab[c].data = Text[ShellName]
    BY <1>1 DEF Init, Contents, Blank
<1>7. \A c \in S : c \in Int /\ (c # ShellLen + 2 => fat[c] = c + 1 /\ c + 1 \in S)
                   /\ fat[ShellLen + 2] = EndOfFile
    BY <1>1, <1>5, SMT DEF FatWords, Root
<1>8. Chain(fat, 3) \subseteq S
    <2>1. \A y \in S \cap FatWords : fat[y] \in Words => fat[y] \in S
        BY <1>7, EndApart
    <2> HIDE DEF S
    <2> QED
        BY <1>1, <2>1, ChainLeast
<1>9. S \subseteq Chain(fat, 3)
    <2>1. ASSUME NEW x \in S, x # 3 PROVE \E y \in S : y < x /\ fat[y] = x
        <3>1. x - 1 \in S /\ x - 1 # ShellLen + 2 /\ x - 1 < x /\ (x - 1) + 1 = x
            BY <2>1
        <3>2. fat[x - 1] = x
            BY <1>7, <3>1
        <3> QED
            BY <3>1, <3>2
    <2> HIDE DEF S
    <2> QED
        BY <1>1, <2>1, ChainAscends
<1>10. pc = "idle"
    BY DEF Init
<1>11. TablesInv
    BY <1>3, <1>4 DEF TablesInv
<1>12. ContentsInv
    <2> HIDE DEF S
    <2> QED
        BY <1>3, <1>4, <1>6, <1>8, <1>10 DEF ContentsInv, ContentsKept
<1>13. DirsAreSingle
    BY <1>3, <1>4, <1>10 DEF DirsAreSingle
<1>14. LeakInv
    <2> SUFFICES ASSUME NEW c \in FatWords \ {0, 1, Root}, fat[c] # Empty
                 PROVE  c \in S
        BY <1>3, <1>4, <1>9 DEF LeakInv
    <2> QED
        BY <1>5, SMT DEF FatWords, Root
<1> QED
    BY <1>11, <1>12, <1>13, <1>14 DEF FilesInv

LEMMA FilesStep ==
    ASSUME ~Overfull, ~PowerCuts, Inductive, TreeInv, FilesInv, [Next]_vars
    PROVE  FilesInv'
<1>1. CASE Call
    <2>1. PICK d \in Dirs, n \in Names :
            \/ RefuseWrite(d, n)
            \/ \E up \in NamesOf(d) : MakeDir(d, n, up)
            \/ \E k \in 1 .. MaxCount : StartFile(d, n, k)
            \/ RefuseDelete(d, n)
            \/ DropEntry(d, n)
            \/ ReadPastTable(d, n)
            \/ \E k \in 1 .. MaxCount : RefuseRead(d, n, k) \/ StartRead(d, n, k)
        BY <1>1 DEF Call
    <2>2. ASSUME UNCHANGED disk, pc = "idle",
                 pc' \in {"idle", "halted", "link", "commit", "rollback", "copy"}
          PROVE  FilesInv'
        BY <2>2, StillFiles DEF HoldsNothing
    <2>3. CASE RefuseWrite(d, n) \/ RefuseDelete(d, n)
        BY <2>2, <2>3 DEF RefuseWrite, RefuseDelete, Return
    <2>4. ASSUME NEW up \in NamesOf(d), MakeDir(d, n, up) PROVE FilesInv'
        BY <2>4, MakeDirFiles
    <2>5. ASSUME NEW k \in 1 .. MaxCount, StartFile(d, n, k) PROVE FilesInv'
        <3>1. pc' \in {"link", "commit", "rollback"}
            BY <2>5 DEF StartFile
        <3> QED
            BY <2>2, <2>5, <3>1 DEF StartFile
    <2>6. CASE DropEntry(d, n)
        BY <2>6, DropEntryFiles
    <2>7. CASE ReadPastTable(d, n)
        BY <2>2, <2>7 DEF ReadPastTable, Halt
    <2>8. ASSUME NEW k \in 1 .. MaxCount, RefuseRead(d, n, k) \/ StartRead(d, n, k)
          PROVE  FilesInv'
        BY <2>2, <2>8 DEF RefuseRead, StartRead, Return
    <2> QED
        BY <2>1, <2>3, <2>4, <2>5, <2>6, <2>7, <2>8
<1>2. CASE Continue
    <2>1. CASE Link
        <3>1. pc' \in {"link", "commit", "rollback"}
            BY <2>1 DEF Link
        <3> QED
            BY <2>1, <3>1, StillFiles DEF Link, HoldsNothing
    <2>2. CASE Rollback \/ Copy \/ EndRead
        BY <2>2, StillFiles DEF Rollback, Copy, EndRead, Return, HoldsNothing
    <2> QED
        BY <1>2, <2>1, <2>2, MkdirParentFiles, MkdirTableFiles, CommitFatFiles, CreateParentFiles,
           WriteDataFiles, RmdirChildFiles, RmdirFatFiles, FreeFiles
        DEF Continue
<1>3. CASE Reboot
    BY <1>3, StillFiles DEF Reboot, HoldsNothing
<1>4. CASE UNCHANGED vars
    <2>1. UNCHANGED <<fat, tab, cmap, pc, req, at, start, now>> /\ SameEntriesStep
        BY <1>4, DiskEntries DEF vars
    <2>2. Held' = Held
        BY <2>1 DEF Held
    <2>3. TablesInv' /\ DirsAreSingle' /\ LeakInv'
        BY <2>1, <2>2 DEF FilesInv, TablesInv, DirsAreSingle, LeakInv, SameEntriesStep
    <2>4. ContentsInv'
        BY <2>1 DEF FilesInv, ContentsInv, ContentsKept, SameEntriesStep
    <2> QED
        BY <2>3, <2>4 DEF FilesInv
<1> QED
    BY <1>1, <1>2, <1>3, <1>4 DEF Next

(* Without power cuts FilesInv holds at every step. *)
THEOREM FilesInvCorrect ==
    ASSUME ~Overfull, ~PowerCuts
    PROVE  Spec => []FilesInv
<1>1. Inductive /\ TreeInv /\ FilesInv /\ [Next]_vars => FilesInv'
    BY FilesStep
<1> QED
    BY <1>1, InitFiles, InductiveCorrect, TreeInvCorrect, PTL DEF Spec

(* Between calls every directory entry leads to a table that was written.  *)
THEOREM TablesWrittenCorrect ==
    ASSUME ~Overfull, ~PowerCuts
    PROVE  Spec => []TablesWritten
<1>1. FilesInv => TablesWritten
    BY DEF FilesInv, TablesInv, TablesWritten
<1> QED
    BY <1>1, FilesInvCorrect, PTL

(* Every cluster of a file in place holds what was written, whatever calls *)
(* came after it: none of them allocates, frees or writes on its chain.    *)
THEOREM ContentsKeptCorrect ==
    ASSUME ~Overfull, ~PowerCuts
    PROVE  Spec => []ContentsKept
<1>1. FilesInv => ContentsKept
    BY DEF FilesInv, ContentsInv
<1> QED
    BY <1>1, FilesInvCorrect, PTL

(* Between calls every taken cluster belongs to an entry: deleting frees   *)
(* whole chains, and a write that fails takes nothing.                     *)
THEOREM NoLeakCorrect ==
    ASSUME ~Overfull, ~PowerCuts
    PROVE  Spec => []NoLeak
<1>1. FilesInv => NoLeak
    BY DEF FilesInv, LeakInv, NoLeak, Held
<1> QED
    BY <1>1, FilesInvCorrect, PTL
=============================================================================
