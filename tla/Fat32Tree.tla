------------------------------- MODULE Fat32Tree -------------------------------
(***************************************************************************)
(* The tree that the entries of Fat32 form, for every size, when callers   *)
(* are not Overfull: power cuts included, entries sit only in directories  *)
(* of the tree, each table knows its parent, no call writes on another's   *)
(* clusters, and the calls implement the atomic tree of DirTree.           *)
(***************************************************************************)
EXTENDS Fat32Safety

(* The part of TreeInv that is about the disk. *)
OnTree == EntriesInDirs /\ ParentMatches /\ UnmarkedSlots /\ UnmarkedClusters

-----------------------------------------------------------------------------
(* What a step does to the tables *)

(* The tables stay: only what the FAT says of the clusters is new. *)
LEMMA SameTablesTree ==
    ASSUME OnTree, UNCHANGED tab, UnmarkedClusters'
    PROVE  OnTree' /\ Live' = Live /\ Dirs' = Dirs /\ DirEntries' = DirEntries
<1>1. Live' = Live
    BY DEF Live
<1>2. \A e : EntryAt(e)' = EntryAt(e) /\ First(e)' = First(e)
    BY DEF First, EntryAt
<1>3. Dirs' = Dirs
    BY <1>1, <1>2 DEF Dirs
<1>4. DirEntries' = DirEntries
    BY <1>1, <1>2 DEF DirEntries
<1>5. EntriesInDirs'
    BY <1>1, <1>3 DEF OnTree, EntriesInDirs
<1>6. ParentMatches'
    BY <1>1, <1>2 DEF OnTree, ParentMatches
<1>7. UnmarkedSlots'
    BY DEF OnTree, UnmarkedSlots
<1> QED
    BY <1>1, <1>3, <1>4, <1>5, <1>6, <1>7 DEF OnTree

LEMMA SameTree ==
    ASSUME OnTree, UNCHANGED disk
    PROVE  OnTree' /\ Live' = Live /\ Dirs' = Dirs /\ DirEntries' = DirEntries
<1>1. UNCHANGED <<fat, tab>>
    BY DEF disk
<1>2. \A e : EntryAt(e)' = EntryAt(e) /\ First(e)' = First(e) /\ Live' = Live
    BY <1>1 DEF First, EntryAt, Live
<1>3. UnmarkedClusters'
    BY <1>1, <1>2 DEF OnTree, UnmarkedClusters
<1> QED
    BY <1>1, <1>3, SameTablesTree

(* Between calls there is nothing to say about a call. *)
LEMMA RestTree ==
    ASSUME pc' \in {"idle", "halted"}
    PROVE  TreeCallInv'
    BY DEF TreeCallInv

(* The step writes one slot of one table. *)
OneSlot(d, a, x) ==
    /\ \A c \in Words, s \in Slots :
           tab'[c].slot[s] = IF c = d /\ s = a THEN x ELSE tab[c].slot[s]
    /\ \A c \in Words : tab'[c].dir = tab[c].dir /\ tab'[c].up = tab[c].up

LEMMA WriteTable ==
    ASSUME TypeOK, NEW d \in Words, NEW a \in Slots, NEW x, NEW t,
           t.slot = [tab[d].slot EXCEPT ![a] = x], t.dir = tab[d].dir, t.up = tab[d].up,
           tab' = [tab EXCEPT ![d] = t]
    PROVE  OneSlot(d, a, x)
<1>1. tab[d].slot \in [Slots -> Slot]
    BY DEF TypeOK, Cluster
<1>2. \A c \in Words, s \in Slots :
          tab'[c].slot[s] = IF c = d /\ s = a THEN x ELSE tab[c].slot[s]
    BY <1>1 DEF TypeOK
<1>3. \A c \in Words : tab'[c].dir = tab[c].dir /\ tab'[c].up = tab[c].up
    BY DEF TypeOK
<1> QED
    BY <1>2, <1>3 DEF OneSlot

LEMMA WriteSlot ==
    ASSUME TypeOK, NEW d \in Words, NEW a \in Slots, NEW x,
           tab' = [tab EXCEPT ![d] = [tab[d] EXCEPT !.slot[a] = x]]
    PROVE  OneSlot(d, a, x)
<1>1. tab[d] \in Cluster
    BY DEF TypeOK
<1>2. PICK t : t = [tab[d] EXCEPT !.slot[a] = x]
    OBVIOUS
<1>3. t.slot = [tab[d].slot EXCEPT ![a] = x] /\ t.dir = tab[d].dir /\ t.up = tab[d].up
    BY <1>1, <1>2 DEF Cluster
<1> QED
    BY <1>2, <1>3, WriteTable

LEMMA LiveType ==
    ASSUME TypeOK
    PROVE  \A e \in Live : /\ e[1] \in Words /\ e[2] \in Slots /\ e = <<e[1], e[2]>>
                           /\ EntryAt(e) \in Slot /\ tab[e[1]].slot[e[2]] = EntryAt(e)
    BY DEF TypeOK, Live, EntryAt, Cluster

LEMMA AddSlot ==
    ASSUME TypeOK, NEW d \in Words, NEW a \in Slots, NEW x, OneSlot(d, a, x),
           x.used, ~tab[d].slot[a].used
    PROVE  /\ Live' = Live \cup {<<d, a>>} /\ <<d, a>> \notin Live
           /\ EntryAt(<<d, a>>)' = x
           /\ \A e \in Live : EntryAt(e)' = EntryAt(e)
    BY DEF OneSlot, Live, EntryAt

LEMMA ClearSlot ==
    ASSUME TypeOK, NEW d \in Words, NEW a \in Slots, NEW x, OneSlot(d, a, x),
           ~x.used
    PROVE  /\ Live' = Live \ {<<d, a>>}
           /\ \A e \in Live' : EntryAt(e)' = EntryAt(e)
    BY DEF OneSlot, Live, EntryAt

(* Nothing that an entry leads to reaches a loose cluster. *)
LEMMA LooseApart ==
    ASSUME NEW c, Loose(c), NEW e \in Live
    PROVE  c \notin Chain(fat, First(e))
    BY ChainBack DEF Loose

-----------------------------------------------------------------------------
(* Steps that add an entry *)

LEMMA AddTree ==
    ASSUME Inductive, OnTree, UNCHANGED fat, NEW d \in Dirs, NEW a \in Slots, NEW x,
           OneSlot(d, a, x), x.used, ~tab[d].slot[a].used, tab[d].dir,
           Loose(x.first), ~tab[x.first].dir, x.dir \in BOOLEAN
    PROVE  OnTree'
<1> USE DEF Inductive
<1>1. d \in Words /\ x.first \in Words /\ x.first # Root
    BY DirsType DEF TypeOK, Loose, Taken, DataClusters
<1>2. /\ Live' = Live \cup {<<d, a>>} /\ <<d, a>> \notin Live
      /\ EntryAt(<<d, a>>)' = x
      /\ \A e \in Live : EntryAt(e)' = EntryAt(e)
    BY <1>1, AddSlot
<1>3. Dirs \subseteq Dirs'
    BY <1>2 DEF Dirs, First
<1>4. EntriesInDirs'
    <2> SUFFICES ASSUME NEW e \in Live' PROVE e[1] \in Dirs' /\ tab'[e[1]].dir
        BY DEF EntriesInDirs
    <2>1. e[1] \in Words /\ e[1] \in Dirs /\ tab[e[1]].dir
        BY <1>1, <1>2, LiveType DEF OnTree, EntriesInDirs
    <2> QED
        BY <1>3, <2>1 DEF OneSlot
<1>5. \A e \in Live : First(e) \in Words
    BY LiveType DEF Slot, First
<1>6. ParentMatches'
    BY <1>1, <1>2, <1>5 DEF OnTree, ParentMatches, OneSlot, First
<1>7. UnmarkedSlots'
    BY DEF OnTree, UnmarkedSlots, OneSlot
<1>8. UnmarkedClusters'
    <2>1. \A c \in FatWords : c \in Words
        BY ConstantTypes
    <2>2. DataClusters \subseteq Words
        BY DEF DataClusters
    <2> QED
        BY <1>1, <1>2, <1>5, <2>1, <2>2 DEF OnTree, UnmarkedClusters, OneSlot, First
<1> QED
    BY <1>4, <1>6, <1>7, <1>8 DEF OnTree

LEMMA MkdirParentTree ==
    ASSUME Inductive, TreeInv, MkdirParent
    PROVE  TreeInv'
<1> USE DEF Inductive
<1> PICK c, d, a, x :
        /\ c = now /\ d = req.dir /\ a = at
        /\ x = [used |-> TRUE, name |-> req.name, dir |-> TRUE, first |-> now, size |-> 0]
    OBVIOUS
<1>1. d \in Dirs /\ d \in Words /\ a \in Slots /\ buf = tab[d] /\ ~tab[d].slot[a].used
      /\ Loose(c) /\ ~tab[c].dir /\ buf.dir
    BY DirsType DEF MkdirParent, TreeInv, TreeCallInv, RoomForEntry, CallInv, Loaded, TypeOK
<1>2. tab' = [tab EXCEPT ![d] = [tab[d] EXCEPT !.slot[a] = x]]
      /\ UNCHANGED <<fat, req, at, now>> /\ pc' = "mkdir_table"
    BY <1>1 DEF MkdirParent, locals
<1>3. OneSlot(d, a, x)
    BY <1>1, <1>2, WriteSlot
<1>4. OnTree'
    <2>1. x.used /\ x.first = c /\ x.dir
        OBVIOUS
    <2>2. OnTree /\ tab[d].dir /\ UNCHANGED fat
        BY <1>1, <1>2 DEF TreeInv, OnTree
    <2> QED
        BY <1>1, <1>3, <2>1, <2>2, AddTree
<1>5. /\ Live' = Live \cup {<<d, a>>} /\ EntryAt(<<d, a>>)' = x
      /\ \A e \in Live : EntryAt(e)' = EntryAt(e)
    BY <1>1, <1>3, AddSlot
<1>6. \A e \in Live' : c \in Chain(fat, First(e)') => e = <<d, a>>
    <2>1. \A e \in Live : First(e)' = First(e) /\ c \notin Chain(fat, First(e))
        BY <1>1, <1>5, LooseApart DEF First
    <2> QED
        BY <1>5, <2>1
<1>7. EntryMade(now, TRUE)'
    BY <1>2, <1>5, <1>6 DEF EntryMade, First
<1>8. ~tab'[now'].dir
    BY <1>1, <1>2, <1>3 DEF OneSlot, Loose, Taken, DataClusters
<1> QED
    BY <1>2, <1>4, <1>7, <1>8 DEF TreeInv, OnTree, TreeCallInv

LEMMA CreateParentTree ==
    ASSUME Inductive, TreeInv, CreateParent
    PROVE  TreeInv'
<1> USE DEF Inductive
<1> PICK c, d, a, x :
        /\ c = start /\ d = req.dir /\ a = at
        /\ x = [buf.slot[at] EXCEPT !.used = TRUE, !.name = req.name,
                                    !.first = start, !.size = req.size]
    OBVIOUS
<1>1. d \in Dirs /\ d \in Words /\ a \in Slots /\ buf = tab[d] /\ ~tab[d].slot[a].used
      /\ Loose(c) /\ ~tab[c].dir /\ buf.dir /\ ~tab[d].slot[a].dir /\ buf.slot[a] \in Slot
    BY DirsType DEF CreateParent, TreeInv, TreeCallInv, RoomForEntry, CallInv, Loaded, TypeOK,
                    UnmarkedSlots, Cluster
<1>2. tab' = [tab EXCEPT ![d] = [tab[d] EXCEPT !.slot[a] = x]]
      /\ UNCHANGED <<fat, req, at, start>> /\ now' = c /\ pc' = "data"
    <2>1. buf' = [buf EXCEPT !.slot[a] = x]
        BY DEF CreateParent
    <2> QED
        BY <1>1, <2>1 DEF CreateParent
<1>3. x.used /\ x.first = c /\ x.name = req.name /\ x.dir = FALSE
    BY <1>1 DEF Slot
<1>4. OneSlot(d, a, x)
    BY <1>1, <1>2, WriteSlot
<1>5. OnTree'
    <2>1. OnTree /\ tab[d].dir /\ UNCHANGED fat
        BY <1>1, <1>2 DEF TreeInv, OnTree
    <2> QED
        BY <1>1, <1>3, <1>4, <2>1, AddTree
<1>6. /\ Live' = Live \cup {<<d, a>>} /\ EntryAt(<<d, a>>)' = x
      /\ \A e \in Live : EntryAt(e)' = EntryAt(e)
    BY <1>1, <1>3, <1>4, AddSlot
<1>7. \A e \in Live' : c \in Chain(fat, First(e)') => e = <<d, a>>
    <2>1. \A e \in Live : First(e)' = First(e) /\ c \notin Chain(fat, First(e))
        BY <1>1, <1>6, LooseApart DEF First
    <2> QED
        BY <1>6, <2>1
<1>8. EntryMade(start, FALSE)'
    BY <1>2, <1>3, <1>6, <1>7 DEF EntryMade, First
<1> QED
    BY <1>2, <1>5, <1>8 DEF TreeInv, OnTree, TreeCallInv

(* What the table of a new directory, or the contents of a file, go to is  *)
(* reached from the call's own entry only.                                 *)
LEMMA OwnCluster ==
    ASSUME Inductive, TreeInv, pc \in {"mkdir_table", "data"}
    PROVE  /\ <<req.dir, at>> \in Live /\ Taken(now) /\ now \in DataClusters /\ now # Root
           /\ \A e \in Live : now \in Chain(fat, First(e)) => e = <<req.dir, at>>
           /\ \A e \in Live : First(e) = now => e = <<req.dir, at>>
<1>1. Taken(now)
    BY DEF Inductive, CallInv
<1>2. \A e \in Live : First(e) \in Chain(fat, First(e))
    BY ChainBack
<1> QED
    BY <1>1, <1>2 DEF TreeInv, TreeCallInv, EntryMade, Taken, DataClusters

LEMMA MkdirTableTree ==
    ASSUME Inductive, TreeInv, MkdirTable
    PROVE  TreeInv' /\ Live' = Live /\ \A e \in Live : EntryAt(e)' = EntryAt(e)
<1> USE DEF Inductive
<1> PICK c, d, a, t : /\ c = now /\ d = req.dir /\ a = at
                /\ t = [tab[c] EXCEPT !.dir = TRUE, !.up = req.dir, !.upName = req.up,
                                      !.word = Empty, !.data = Text[NoName]]
    OBVIOUS
<1>1. tab' = [tab EXCEPT ![c] = t] /\ UNCHANGED fat /\ pc' = "idle"
    BY DEF MkdirTable, NewTable, Return
<1>2. /\ <<d, a>> \in Live /\ First(<<d, a>>) = c /\ EntryAt(<<d, a>>).dir
      /\ \A e \in Live : First(e) = c => e = <<d, a>>
      /\ c \in DataClusters /\ c \in Words
    BY OwnCluster DEF MkdirTable, TreeInv, TreeCallInv, EntryMade, DataClusters
<1>3. t.slot = tab[c].slot /\ t.dir /\ t.up = d
    BY <1>2 DEF TypeOK, Cluster
<1>4. \A y \in Words : tab'[y] = IF y = c THEN t ELSE tab[y]
    BY <1>1 DEF TypeOK
<1>5. \A y \in Words : tab'[y].slot = tab[y].slot /\ (y # c => tab'[y] = tab[y])
    BY <1>3, <1>4
<1>6. Live' = Live /\ \A e \in Live : EntryAt(e)' = EntryAt(e) /\ First(e)' = First(e)
    BY <1>5 DEF Live, EntryAt, First
<1>7. Dirs' = Dirs
    BY <1>6 DEF Dirs
<1>8. EntriesInDirs'
    BY <1>3, <1>4, <1>6, <1>7, LiveType DEF TreeInv, EntriesInDirs
<1>9. ParentMatches'
    <2> SUFFICES ASSUME NEW e \in Live, EntryAt(e).dir, tab'[First(e)].dir
                 PROVE  tab'[First(e)].up = e[1]
        BY <1>6 DEF ParentMatches
    <2>1. First(e) \in Words
        BY LiveType DEF First, Slot
    <2>2. CASE First(e) = c
        <3>1. e = <<d, a>>
            BY <1>2, <2>2
        <3> QED
            BY <1>2, <1>3, <1>4, <2>2, <3>1
    <2>3. CASE First(e) # c
        BY <1>5, <2>1, <2>3 DEF TreeInv, ParentMatches
    <2> QED
        BY <2>2, <2>3
<1>10. UnmarkedSlots'
    BY <1>5 DEF TreeInv, UnmarkedSlots
<1>11. UnmarkedClusters'
    <2>1. \A y \in FatWords : fat[y] # c
        BY <1>2 DEF NoCrossLink
    <2>2. fat[c] # Empty
        BY <1>2, OwnCluster DEF MkdirTable, Taken
    <2>3. FatWords \subseteq Words /\ DataClusters \subseteq Words
        BY ConstantTypes DEF DataClusters
    <2>4. \A e \in Live : First(e) \in Words
        BY LiveType DEF First, Slot
    <2> QED
        BY <1>1, <1>2, <1>5, <1>6, <2>1, <2>2, <2>3, <2>4 DEF TreeInv, UnmarkedClusters
<1> QED
    BY <1>1, <1>6, <1>8, <1>9, <1>10, <1>11, RestTree DEF TreeInv

(* The contents of a file go to clusters that are no directory's.          *)
LEMMA WriteDataTree ==
    ASSUME Inductive, TreeInv, WriteData
    PROVE  TreeInv' /\ Live' = Live /\ \A e \in Live : EntryAt(e)' = EntryAt(e)
<1> USE DEF Inductive
<1> PICK c, d, a, n : c = now /\ d = req.dir /\ a = at /\ n = req.name
    OBVIOUS
<1>1. tab' = [tab EXCEPT ![c] = Contents(n)] /\ UNCHANGED <<fat, cmap>> /\ cmap = fat
    BY DEF WriteData, CallInv
<1>2. /\ <<d, a>> \in Live /\ First(<<d, a>>) = start /\ ~EntryAt(<<d, a>>).dir
      /\ \A e \in Live : c \in Chain(fat, First(e)) => e = <<d, a>>
      /\ \A e \in Live : First(e) = c => e = <<d, a>>
      /\ Taken(c) /\ c \in DataClusters /\ c \in Words /\ c # Root
    BY OwnCluster DEF WriteData, TreeInv, TreeCallInv, EntryMade, DataClusters
<1>3. \A y \in Words : tab'[y] = IF y = c THEN Contents(n) ELSE tab[y]
    BY <1>1 DEF TypeOK
<1>4. \A s \in Slots : tab'[c].slot[s] = FreeSlot
    BY <1>2, <1>3 DEF Contents
<1>5. c \notin Dirs
    BY <1>2 DEF Dirs
<1>6. \A e \in Live : e[1] # c /\ EntryAt(e)' = EntryAt(e) /\ First(e)' = First(e)
    <2>1. \A e \in Live : e[1] # c /\ e[1] \in Words
        BY <1>5, LiveType DEF TreeInv, EntriesInDirs
    <2> QED
        BY <1>3, <2>1 DEF EntryAt, First
<1>7. Live' = Live
    <2>1. \A y \in Words, s \in Slots :
              tab'[y].slot[s].used <=> y # c /\ tab[y].slot[s].used
        BY <1>3, <1>4 DEF FreeSlot
    <2>2. \A s \in Slots : ~tab[c].slot[s].used
        BY <1>2, <1>6, LiveElements
    <2> QED
        BY <2>1, <2>2 DEF Live
<1>8. Dirs' = Dirs
    BY <1>6, <1>7 DEF Dirs
<1>9. EntriesInDirs'
    BY <1>3, <1>6, <1>7, <1>8, LiveType DEF TreeInv, EntriesInDirs
<1>10. \A e \in Live : First(e) \in Words
    BY LiveType DEF First, Slot
<1>11. ParentMatches'
    BY <1>2, <1>3, <1>6, <1>7, <1>10 DEF TreeInv, ParentMatches
<1>12. UnmarkedSlots'
    BY <1>3, <1>4 DEF TreeInv, UnmarkedSlots, FreeSlot
<1>13. UnmarkedClusters'
    <2>1. \A y \in Words : tab'[y].dir => tab[y].dir
        BY <1>3 DEF Contents
    <2>2. FatWords \subseteq Words /\ DataClusters \subseteq Words
        BY ConstantTypes DEF DataClusters
    <2> QED
        BY <1>1, <1>6, <1>7, <1>10, <2>1, <2>2 DEF TreeInv, UnmarkedClusters
<1>14. CASE Return(0)
    <2>1. TreeCallInv'
        BY <1>14, RestTree DEF Return
    <2> QED
        BY <1>6, <1>7, <1>9, <1>11, <1>12, <1>13, <2>1 DEF TreeInv
<1>15. CASE Word(c) \in Words /\ now' = Word(c) /\ UNCHANGED <<pc, req, at, start>>
    <2>1. c \in FatWords /\ Word(c) = fat[c]
        BY <1>1, <1>2, AliasApart DEF Taken, Word
    <2>2. fat[c] \in DataClusters
        BY <1>2, <1>15, <2>1 DEF Taken, NoDangling
    <2>3. ASSUME NEW e \in Live, fat[c] \in Chain(fat, First(e)) PROVE e = <<d, a>>
        <3>1. fat[c] # First(e)
            BY <2>1 DEF NoCrossLink
        <3>2. PICK y \in Chain(fat, First(e)) \cap FatWords : fat[y] = fat[c]
            BY <2>3, <3>1, ChainBack
        <3>3. y = c
            BY <2>1, <2>2, <3>2 DEF NoCrossLink
        <3> QED
            BY <1>2, <3>2, <3>3
    <2>4. req.name = EntryAt(<<d, a>>).name
        BY DEF WriteData, TreeInv, TreeCallInv, EntryMade
    <2>5. EntryMade(start, FALSE)'
        BY <1>1, <1>2, <1>6, <1>7, <1>15, <2>1, <2>3, <2>4 DEF EntryMade
    <2>6. TreeCallInv'
        BY <1>15, <2>5 DEF TreeCallInv, WriteData
    <2> QED
        BY <1>6, <1>7, <1>9, <1>11, <1>12, <1>13, <2>6 DEF TreeInv
<1> QED
    BY <1>14, <1>15 DEF WriteData

-----------------------------------------------------------------------------
(* Steps that remove an entry *)

(* The entry that is dropped is in use, and nothing is in it. *)
LEMMA DropFinds ==
    ASSUME Inductive, TreeInv, NEW d \in Dirs, NEW n \in Names, DropEntry(d, n)
    PROVE  \E s \in Slots :
               /\ <<d, s>> \in Live /\ d \in Words
               /\ EntryAt(<<d, s>>).dir => ~InUse(tab[First(<<d, s>>)])
               /\ tab' = [tab EXCEPT ![d] = [tab[d] EXCEPT !.slot[s] = FreeSlot]]
               /\ now' = First(<<d, s>>)
               /\ pc' = IF EntryAt(<<d, s>>).dir THEN "rmdir_child" ELSE "free"
               /\ UNCHANGED <<fat, cmap>> /\ cmap = fat
<1> USE DEF Inductive
<1>1. PICK s \in Slots :
        /\ FirstMatch(tab[d], Prefix, n, s)
        /\ buf' = [tab[d] EXCEPT !.slot[s] = FreeSlot]
        /\ now' = tab[d].slot[s].first
        /\ pc' = IF tab[d].slot[s].dir THEN "rmdir_child" ELSE "free"
    BY DEF DropEntry
<1>2. d \in Words
    BY DirsType DEF TypeOK
<1>3. tab[d].slot[s].used
    BY <1>1, <1>2, NameAssumption DEF FirstMatch, Matching, CleanSlots
<1>4. tab[d].slot[s].dir => ~InUse(tab[tab[d].slot[s].first])
    BY <1>1 DEF DropEntry, DeleteError
<1>5. tab' = [tab EXCEPT ![d] = [tab[d] EXCEPT !.slot[s] = FreeSlot]]
      /\ UNCHANGED <<fat, cmap>> /\ cmap = fat
    BY <1>1 DEF DropEntry, CallInv
<1> QED
    BY <1>1, <1>2, <1>3, <1>4, <1>5 DEF Live, First, EntryAt

LEMMA DropEntryTree ==
    ASSUME Inductive, TreeInv, NEW d \in Dirs, NEW n \in Names, DropEntry(d, n)
    PROVE  TreeInv'
<1> USE DEF Inductive
<1> PICK s \in Slots :
        /\ <<d, s>> \in Live /\ d \in Words
        /\ EntryAt(<<d, s>>).dir => ~InUse(tab[First(<<d, s>>)])
        /\ tab' = [tab EXCEPT ![d] = [tab[d] EXCEPT !.slot[s] = FreeSlot]]
        /\ now' = First(<<d, s>>)
        /\ pc' = IF EntryAt(<<d, s>>).dir THEN "rmdir_child" ELSE "free"
        /\ UNCHANGED <<fat, cmap>> /\ cmap = fat
    BY DropFinds
<1> PICK c : c = First(<<d, s>>)
    OBVIOUS
<1>1. OneSlot(d, s, FreeSlot)
    BY WriteSlot
<1>2. Live' = Live \ {<<d, s>>} /\ \A e \in Live' : EntryAt(e)' = EntryAt(e) /\ First(e)' = First(e)
    BY <1>1, ClearSlot DEF FreeSlot, First
<1>3. \A e \in Live' : First(e) # c
    BY <1>2 DEF NoCrossLink
<1>4. EntryAt(<<d, s>>).dir => \A e \in Live : e[1] # c
    BY LiveType DEF InUse, Live
<1>5. c # Root /\ c \in Words
    BY DEF NoDangling, Taken, DataClusters
<1>6. EntriesInDirs'
    <2> SUFFICES ASSUME NEW e \in Live' PROVE e[1] \in Dirs' /\ tab'[e[1]].dir
        BY DEF EntriesInDirs
    <2>1. e \in Live /\ e[1] \in Dirs /\ tab[e[1]].dir /\ e[1] \in Words
        BY <1>2, LiveType DEF TreeInv, EntriesInDirs
    <2>2. e[1] \in Dirs'
        <3>1. CASE e[1] = Root
            BY <3>1 DEF Dirs
        <3>2. CASE e[1] # Root
            <4>1. PICK f \in Live : EntryAt(f).dir /\ First(f) = e[1]
                BY <2>1, <3>2 DEF Dirs
            <4>2. f # <<d, s>>
                BY <1>4, <2>1, <4>1
            <4>3. f \in Live' /\ EntryAt(f)'.dir /\ First(f)' = e[1]
                BY <1>2, <4>1, <4>2
            <4> QED
                BY <4>3 DEF Dirs
        <3> QED
            BY <3>1, <3>2
    <2> QED
        BY <1>1, <2>1, <2>2 DEF OneSlot
<1>7. \A e \in Live' : First(e) \in Words
    BY <1>2, LiveType DEF First, Slot
<1>8. ParentMatches'
    BY <1>1, <1>2, <1>7 DEF TreeInv, ParentMatches, OneSlot
<1>9. UnmarkedSlots'
    BY <1>1 DEF TreeInv, UnmarkedSlots, OneSlot, FreeSlot
<1>10. FatWords \subseteq Words /\ DataClusters \subseteq Words
    BY ConstantTypes DEF DataClusters
<1>11. UnmarkedClusters'
    BY <1>1, <1>2, <1>7, <1>10 DEF TreeInv, UnmarkedClusters, OneSlot
<1>12. TreeCallInv'
    <2>1. pc' = "free" => ~tab'[c].dir
        BY <1>1, <1>5 DEF TreeInv, UnmarkedClusters, OneSlot
    <2> QED
        BY <2>1 DEF TreeCallInv
<1> QED
    BY <1>6, <1>8, <1>9, <1>11, <1>12 DEF TreeInv

LEMMA RmdirChildTree ==
    ASSUME Inductive, TreeInv, RmdirChild
    PROVE  TreeInv' /\ Live' = Live /\ \A e \in Live : EntryAt(e)' = EntryAt(e)
<1> USE DEF Inductive
<1> PICK c, t : /\ c = now
                /\ t = [tab[c] EXCEPT !.dir = FALSE, !.up = 0, !.upName = NoName, !.word = Empty]
    OBVIOUS
<1>1. tab' = [tab EXCEPT ![c] = t] /\ UNCHANGED fat /\ now' = c /\ pc' = "rmdir_fat"
    BY DEF RmdirChild, locals
<1>2. Loose(c) /\ c \in Words /\ c # Root
    BY DEF RmdirChild, CallInv, Loose, Taken, DataClusters
<1>3. t.slot = tab[c].slot /\ t.dir = FALSE
    BY <1>2 DEF TypeOK, Cluster
<1>4. \A y \in Words : tab'[y] = IF y = c THEN t ELSE tab[y]
    BY <1>1 DEF TypeOK
<1>5. \A y \in Words : tab'[y].slot = tab[y].slot /\ (y # c => tab'[y] = tab[y])
                       /\ (tab'[y].dir => tab[y].dir)
    BY <1>3, <1>4
<1>6. Live' = Live /\ \A e \in Live : EntryAt(e)' = EntryAt(e) /\ First(e)' = First(e)
    BY <1>5 DEF Live, EntryAt, First
<1>7. Dirs' = Dirs /\ c \notin Dirs
    BY <1>2, <1>6 DEF Dirs, Loose
<1>8. EntriesInDirs'
    BY <1>5, <1>6, <1>7, LiveType DEF TreeInv, EntriesInDirs
<1>9. \A e \in Live : First(e) \in Words /\ First(e) # c
    BY <1>2, LiveType DEF First, Slot, Loose
<1>10. ParentMatches'
    BY <1>5, <1>6, <1>9 DEF TreeInv, ParentMatches
<1>11. UnmarkedSlots'
    BY <1>5 DEF TreeInv, UnmarkedSlots
<1>12. UnmarkedClusters'
    <2>1. FatWords \subseteq Words /\ DataClusters \subseteq Words
        BY ConstantTypes DEF DataClusters
    <2> QED
        BY <1>1, <1>5, <1>6, <1>9, <2>1 DEF TreeInv, UnmarkedClusters
<1>13. TreeCallInv'
    BY <1>1, <1>2, <1>3, <1>4 DEF TreeCallInv
<1> QED
    BY <1>6, <1>8, <1>10, <1>11, <1>12, <1>13 DEF TreeInv

-----------------------------------------------------------------------------
(* Steps that write the FAT *)

LEMMA RmdirFatTree ==
    ASSUME Inductive, TreeInv, RmdirFat
    PROVE  TreeInv'
<1> USE DEF Inductive
<1> PICK c : c = now
    OBVIOUS
<1>1. Loose(c) /\ cmap = fat /\ ~tab[c].dir /\ UNCHANGED tab /\ pc' = "idle"
    BY DEF RmdirFat, CallInv, Return, TreeInv, TreeCallInv
<1>2. c \in FatWords
    BY <1>1 DEF Loose, Taken
<1>3. fat' = [fat EXCEPT ![c] = Empty]
    BY <1>1, <1>2, AliasApart DEF RmdirFat
<1>4. \A y \in FatWords : fat'[y] = IF y = c THEN Empty ELSE fat[y]
    BY <1>3 DEF TypeOK
<1>5. Empty \notin DataClusters
    BY DEF DataClusters, Empty
<1>6. Live' = Live /\ \A e \in Live : EntryAt(e)' = EntryAt(e) /\ First(e)' = First(e)
    BY <1>1 DEF Live, EntryAt, First
<1>7. UnmarkedClusters'
    BY <1>1, <1>4, <1>5, <1>6 DEF TreeInv, UnmarkedClusters
<1> QED
    BY <1>1, <1>7, SameTablesTree, RestTree DEF TreeInv, OnTree

LEMMA FreeTree ==
    ASSUME Inductive, TreeInv, Free
    PROVE  TreeInv'
<1> USE DEF Inductive
<1>1. Freeing /\ UNCHANGED tab /\ now \in FatWords /\ now \in DataClusters
    BY DEF Free, CallInv, Freeing
<1>2. MapWith(now, Empty) = [cmap EXCEPT ![now] = Empty] /\ Word(now) = cmap[now]
    BY <1>1, AliasApart DEF Word
<1>3. \A c \in FatWords : [cmap EXCEPT ![now] = Empty][c] = IF c = now THEN Empty ELSE cmap[c]
    BY DEF TypeOK
<1>4. \A c \in FatWords : cmap[c] # fat[c] \/ c = now => ~tab[c].dir
    BY DEF Free, TreeInv, TreeCallInv
<1>5. Empty \notin DataClusters
    BY DEF DataClusters, Empty
<1>6. Live' = Live /\ \A e \in Live : EntryAt(e)' = EntryAt(e) /\ First(e)' = First(e)
    BY <1>1 DEF Live, EntryAt, First
<1>7. CASE cmap' = MapWith(now, Empty) /\ fat' = cmap' /\ Return(0)
    <2>1. \A c \in FatWords : fat'[c] = IF c = now THEN Empty ELSE cmap[c]
        BY <1>2, <1>3, <1>7
    <2>2. UnmarkedClusters'
        BY <1>1, <1>4, <1>5, <1>6, <2>1 DEF TreeInv, UnmarkedClusters, Freeing
    <2> QED
        BY <1>1, <1>7, <2>2, SameTablesTree, RestTree DEF TreeInv, OnTree, Return
<1>8. CASE /\ Word(now) \in Words /\ cmap' = MapWith(now, Empty)
           /\ now' = Word(now) /\ UNCHANGED <<fat, pc>>
    <2>1. OnTree'
        BY <1>1, <1>8, SameTree DEF disk, TreeInv, OnTree
    <2>2. cmap[now] # Empty /\ cmap[now] = fat[now] /\ cmap[now] \in DataClusters
        BY <1>1, <1>2, <1>8 DEF Freeing, NoDangling, Taken
    <2>3. ~tab[now'].dir
        BY <1>1, <1>2, <1>8, <2>2 DEF TreeInv, UnmarkedClusters
    <2>4. \A c \in FatWords : cmap'[c] # fat'[c] \/ c = now' => ~tab'[c].dir
        BY <1>1, <1>2, <1>3, <1>4, <1>8, <2>3
    <2>5. TreeCallInv'
        BY <1>8, <2>4 DEF Free, TreeCallInv
    <2> QED
        BY <2>1, <2>5 DEF TreeInv, OnTree
<1> QED
    BY <1>7, <1>8 DEF Free

(* The directory that a write has loaded: there is room for the new name.  *)
LEMMA RoomFound ==
    ASSUME Inductive, NEW d \in Dirs, NEW n \in Names, NEW s \in Slots,
           WriteError(tab[d], n) = 0, FirstUnused(tab[d], s)
    PROVE  /\ d \in Words /\ tab[d].dir /\ ~tab[d].slot[s].used
           /\ \A r \in Slots : tab[d].slot[r].name # n
    BY DirsType DEF Inductive, TypeOK, WriteError, Duplicate, FirstUnused

LEMMA MakeDirTree ==
    ASSUME Inductive, TreeInv, ~Overfull, NEW d \in Dirs, NEW n \in Names,
           NEW up \in NamesOf(d), MakeDir(d, n, up)
    PROVE  TreeInv'
<1> USE DEF Inductive
<1>1. cmap = fat /\ UNCHANGED tab
    BY DEF MakeDir, CallInv
<1>2. FreeClusters # {}
    BY FatSets, SMT DEF MakeDir, Fits, FreeClusters
<1> PICK s \in Slots, c \in Words :
        /\ FirstUnused(tab[d], s) /\ FirstFree(tab[d], c)
        /\ cmap' = MapWith(c, EndOfFile) /\ buf' = TableWith(tab[d], c, EndOfFile)
        /\ at' = s /\ now' = c
    BY DEF MakeDir
<1>3. c \in FatWords /\ fat[c] = Empty
    BY <1>1, <1>2, FirstFreeInFat DEF FreeClusters
<1>4. fat' = [fat EXCEPT ![c] = EndOfFile] /\ buf' = tab[d]
      /\ pc' = "mkdir_parent" /\ req'.dir = d /\ req'.name = n
    BY <1>1, <1>3, AliasApart DEF MakeDir
<1>5. \A y \in FatWords : fat'[y] = IF y = c THEN EndOfFile ELSE fat[y]
    BY <1>4 DEF TypeOK
<1>6. EndOfFile \notin DataClusters /\ EndOfFile # Empty
    BY SMT, SizeAssumption DEF DataClusters, Empty, EndOfFile, Words, FatWords, Alias
<1>7. Live' = Live /\ \A e \in Live : EntryAt(e)' = EntryAt(e) /\ First(e)' = First(e)
    BY <1>1 DEF Live, EntryAt, First
<1>8. UnmarkedClusters'
    BY <1>1, <1>5, <1>6, <1>7 DEF TreeInv, UnmarkedClusters
<1>9. OnTree' /\ Dirs' = Dirs
    BY <1>1, <1>8, SameTablesTree DEF TreeInv, OnTree
<1>10. ~tab[c].dir
    BY <1>3 DEF TreeInv, UnmarkedClusters
<1>11. RoomForEntry'
    BY <1>1, <1>4, <1>9, RoomFound DEF RoomForEntry, MakeDir
<1>12. TreeCallInv'
    BY <1>1, <1>4, <1>10, <1>11 DEF TreeCallInv
<1> QED
    BY <1>9, <1>12 DEF TreeInv, OnTree

LEMMA CommitFatTree ==
    ASSUME Inductive, TreeInv, CommitFat
    PROVE  TreeInv'
<1> USE DEF Inductive
<1>1. Building /\ prev \in FatWords /\ UNCHANGED <<tab, locals>>
      /\ fat' = [cmap EXCEPT ![prev] = EndOfFile] /\ buf' = buf /\ pc' = "create_parent"
    BY AliasApart DEF CommitFat, CallInv
<1>2. /\ \A c \in FatWords : fat[c] # Empty => fat'[c] = fat[c]
      /\ \A c \in FatWords : fat[c] = Empty /\ fat'[c] \in Words \ {Empty} =>
             fat'[c] \in FatWords /\ fat[fat'[c]] = Empty
      /\ start \in FatWords /\ fat[start] = Empty
    BY <1>1, NewChain DEF TakenIn
<1>3. Live' = Live /\ \A e \in Live : EntryAt(e)' = EntryAt(e) /\ First(e)' = First(e)
    BY <1>1 DEF Live, EntryAt, First
<1>4. DataClusters \subseteq Words \ {Empty}
    BY DEF DataClusters, Empty
<1>5. UnmarkedClusters'
    <2>1. ASSUME NEW c \in FatWords, fat'[c] = Empty PROVE ~tab[c].dir
        BY <1>2, <2>1 DEF TreeInv, UnmarkedClusters
    <2>2. ASSUME NEW c \in FatWords, fat'[c] \in DataClusters PROVE ~tab[fat'[c]].dir
        <3>1. CASE fat[c] # Empty
            BY <1>2, <2>2, <3>1 DEF TreeInv, UnmarkedClusters
        <3>2. CASE fat[c] = Empty
            BY <1>2, <1>4, <2>2, <3>2 DEF TreeInv, UnmarkedClusters
        <3> QED
            BY <3>1, <3>2
    <2>3. \A e \in Live : ~EntryAt(e).dir => ~tab[First(e)].dir
        BY DEF TreeInv, UnmarkedClusters
    <2> QED
        BY <1>1, <1>3, <2>1, <2>2, <2>3 DEF UnmarkedClusters
<1>6. OnTree' /\ Dirs' = Dirs
    BY <1>1, <1>5, SameTablesTree DEF TreeInv, OnTree
<1>7. ~tab[start].dir
    BY <1>2 DEF TreeInv, UnmarkedClusters
<1>8. RoomForEntry'
    BY <1>1, <1>6 DEF RoomForEntry, CommitFat, TreeInv, TreeCallInv, locals
<1>9. TreeCallInv'
    BY <1>1, <1>7, <1>8 DEF TreeCallInv, locals
<1> QED
    BY <1>6, <1>9 DEF TreeInv, OnTree

-----------------------------------------------------------------------------
(* Steps that leave the disk alone *)

LEMMA StartFileTree ==
    ASSUME Inductive, TreeInv, NEW d \in Dirs, NEW n \in Names, NEW k \in 1 .. MaxCount,
           StartFile(d, n, k)
    PROVE  TreeInv'
<1> USE DEF Inductive
<1>1. PICK s \in Slots : FirstUnused(tab[d], s) /\ at' = s
    BY DEF StartFile
<1>2. UNCHANGED disk /\ buf' = tab[d] /\ req'.dir = d /\ req'.name = n
      /\ pc' \in {"link", "commit", "rollback"}
    BY DEF StartFile
<1>3. OnTree' /\ Dirs' = Dirs
    BY <1>2, SameTree DEF TreeInv, OnTree
<1>4. RoomForEntry'
    BY <1>1, <1>2, <1>3, RoomFound DEF RoomForEntry, StartFile, disk
<1>5. TreeCallInv'
    BY <1>2, <1>4 DEF TreeCallInv
<1> QED
    BY <1>3, <1>5 DEF TreeInv, OnTree

LEMMA LinkTree ==
    ASSUME Inductive, TreeInv, Link
    PROVE  TreeInv'
<1> USE DEF Inductive
<1>1. prev \in FatWords /\ UNCHANGED <<fat, tab, req, at>>
      /\ pc' \in {"link", "commit", "rollback"}
    BY DEF Link, CallInv, Scanning, disk
<1>2. buf' = buf
    BY <1>1, AliasApart DEF Link
<1>3. OnTree' /\ Dirs' = Dirs
    BY <1>1, SameTree DEF TreeInv, OnTree, disk
<1>4. RoomForEntry'
    BY <1>1, <1>2, <1>3 DEF RoomForEntry, Link, TreeInv, TreeCallInv
<1>5. TreeCallInv'
    BY <1>1, <1>4 DEF TreeCallInv
<1> QED
    BY <1>3, <1>5 DEF TreeInv, OnTree

(* Refusals, reads, and the steps of a call that fails or is cut off. *)
LEMMA OtherTree ==
    ASSUME Inductive, TreeInv, UNCHANGED disk,
           pc' \in {"idle", "halted", "rollback", "copy", "copied"}
    PROVE  TreeInv'
<1>1. OnTree'
    BY SameTree DEF TreeInv, OnTree
<1> QED
    BY <1>1 DEF TreeInv, OnTree, TreeCallInv

-----------------------------------------------------------------------------
(* Every step *)

LEMMA InitTree == Init => TreeInv
<1> SUFFICES ASSUME Init PROVE TreeInv
    OBVIOUS
<1> USE SizeAssumption, NameAssumption
<1>1. Root \in Words /\ 2 \in Slots /\ 3 \in Words /\ Root # 3 /\ Root \in Dirs
    BY SMT DEF Words, FatWords, Root, Slots, Dirs
<1>2. \A c \in Words, s \in Slots :
          tab[c].slot[s] = IF c = Root /\ s = 2
                           THEN [used |-> TRUE, name |-> ShellName, dir |-> FALSE,
                                 first |-> 3, size |-> ShellLen]
                           ELSE FreeSlot
    BY <1>1 DEF Init, Blank, Contents, Root
<1>3. \A c \in Words : tab[c].dir <=> c = Root
    BY <1>1 DEF Init, Blank, Contents, Root
<1>4. Live = {<<Root, 2>>} /\ First(<<Root, 2>>) = 3 /\ EntryAt(<<Root, 2>>).dir = FALSE
    BY <1>1, <1>2 DEF Live, First, EntryAt, FreeSlot
<1>5. EntriesInDirs /\ ParentMatches
    BY <1>1, <1>3, <1>4 DEF EntriesInDirs, ParentMatches
<1>6. UnmarkedSlots
    BY <1>2 DEF UnmarkedSlots, FreeSlot
<1>7. \A c \in FatWords :
          fat[c] = IF c = 0 THEN -2 ELSE IF c \in {1, 2, ShellLen + 2} THEN -1
                   ELSE IF c < ShellLen + 2 THEN c + 1 ELSE 0
    BY DEF Init, Empty, EndOfFile, Reserved0, Root
<1>8. fat[Root] # Empty /\ \A c \in FatWords : fat[c] # Root
    BY <1>7, SMT DEF FatWords, Root, Empty
<1>9. UnmarkedClusters
    <2>1. FatWords \subseteq Words /\ DataClusters \subseteq Words
        BY ConstantTypes DEF DataClusters
    <2> QED
        BY <1>1, <1>3, <1>4, <1>8, <2>1 DEF UnmarkedClusters
<1> QED
    BY <1>5, <1>6, <1>9 DEF TreeInv, TreeCallInv, Init

LEMMA TreeStep ==
    ASSUME ~Overfull, Inductive, TreeInv, [Next]_vars
    PROVE  TreeInv'
<1>1. CASE Call
    <2>1. PICK d \in Dirs, n \in Names :
            \/ RefuseWrite(d, n)
            \/ \E up \in NamesOf(d) : MakeDir(d, n, up)
            \/ \E k \in 1 .. MaxCount : StartFile(d, n, k)
            \/ RefuseDelete(d, n)
            \/ DropEntry(d, n)
            \/ ReadPastTable(d, n)
            \/ \E k \in 1 .. MaxCount : RefuseRead(d, n, k) \/ StartRead(d, n, k)
        BY <1>1 DEF Call
    <2>2. ASSUME NEW up \in NamesOf(d), MakeDir(d, n, up) PROVE TreeInv'
        BY <2>2, MakeDirTree
    <2>3. ASSUME NEW k \in 1 .. MaxCount, StartFile(d, n, k) PROVE TreeInv'
        BY <2>3, StartFileTree
    <2>4. CASE DropEntry(d, n)
        BY <2>4, DropEntryTree
    <2>5. CASE RefuseWrite(d, n) \/ RefuseDelete(d, n) \/ ReadPastTable(d, n)
        BY <2>5, OtherTree DEF RefuseWrite, RefuseDelete, ReadPastTable, Return, Halt
    <2>6. ASSUME NEW k \in 1 .. MaxCount, RefuseRead(d, n, k) \/ StartRead(d, n, k)
          PROVE  TreeInv'
        BY <2>6, OtherTree DEF RefuseRead, StartRead, Return, disk
    <2> QED
        BY <2>1, <2>2, <2>3, <2>4, <2>5, <2>6
<1>2. CASE Continue
    <2>1. CASE Rollback \/ Copy \/ EndRead
        BY <2>1, OtherTree DEF Rollback, Copy, EndRead, Return, disk
    <2> QED
        BY <1>2, <2>1, MkdirParentTree, MkdirTableTree, LinkTree, CommitFatTree,
           CreateParentTree, WriteDataTree, RmdirChildTree, RmdirFatTree, FreeTree
        DEF Continue
<1>3. CASE Reboot
    BY <1>3, OtherTree DEF Reboot
<1>4. CASE UNCHANGED vars
    <2>1. UNCHANGED <<fat, tab, cmap, buf, pc, req, at, start, now>>
        BY <1>4 DEF vars
    <2>2. OnTree' /\ Live' = Live /\ Dirs' = Dirs
        BY <2>1, SameTree DEF TreeInv, OnTree, disk
    <2>3. \A e : EntryAt(e)' = EntryAt(e) /\ First(e)' = First(e)
        BY <2>1 DEF First, EntryAt
    <2>4. RoomForEntry => RoomForEntry'
        BY <2>1, <2>2 DEF RoomForEntry
    <2>5. /\ EntryMade(now, TRUE) => EntryMade(now, TRUE)'
          /\ EntryMade(start, FALSE) => EntryMade(start, FALSE)'
        BY <2>1, <2>2, <2>3 DEF EntryMade
    <2>6. TreeCallInv'
        BY <2>1, <2>4, <2>5 DEF TreeInv, TreeCallInv
    <2> QED
        BY <2>2, <2>6 DEF TreeInv, OnTree
<1> QED
    BY <1>1, <1>2, <1>3, <1>4 DEF Next

(* TreeInv holds at every step, power cuts included. *)
THEOREM TreeInvCorrect ==
    ASSUME ~Overfull
    PROVE  Spec => []TreeInv
<1>1. Inductive /\ TreeInv /\ [Next]_vars => TreeInv'
    BY TreeStep
<1> QED
    BY <1>1, InitTree, InductiveCorrect, PTL DEF Spec

(* Entries in use are only in tables of directories that the tree reaches, *)
(* at every instant: no removed or recycled directory keeps one.           *)
THEOREM EntriesInDirsCorrect ==
    ASSUME ~Overfull
    PROVE  Spec => []EntriesInDirs
<1>1. TreeInv => EntriesInDirs
    BY DEF TreeInv
<1> QED
    BY <1>1, TreeInvCorrect, PTL

(* At every instant a written table names the directory that leads to it   *)
(* as its parent, whatever the cluster held before.                        *)
THEOREM ParentMatchesCorrect ==
    ASSUME ~Overfull
    PROVE  Spec => []ParentMatches
<1>1. TreeInv => ParentMatches
    BY DEF TreeInv
<1> QED
    BY <1>1, TreeInvCorrect, PTL

-----------------------------------------------------------------------------
(* The calls implement the atomic tree: the step that writes the parent's  *)
(* table adds or removes one entry, and no other step shows.               *)

Record(e) == [in |-> e[1], name |-> EntryAt(e).name, to |-> First(e), dir |-> EntryAt(e).dir]

LEMMA EntriesAreRecords ==
    /\ DirEntries = {Record(e) : e \in Live}
    /\ Dirs = Tree!Directories
    /\ Tree!Targets = {First(e) : e \in Live}
<1>1. DirEntries = {Record(e) : e \in Live}
    BY DEF DirEntries, Record
<1>2. \A e : Record(e).in = e[1] /\ Record(e).to = First(e) /\ Record(e).dir = EntryAt(e).dir
    BY DEF Record
<1>3. Dirs = Tree!Directories
    BY <1>1, <1>2 DEF Dirs, Tree!Directories
<1>4. Tree!Targets = {First(e) : e \in Live}
    BY <1>1, <1>2 DEF Tree!Targets
<1> QED
    BY <1>1, <1>3, <1>4

LEMMA SameEntries ==
    ASSUME Live' = Live, \A e \in Live : EntryAt(e)' = EntryAt(e)
    PROVE  DirEntries' = DirEntries
    BY DEF DirEntries, First

LEMMA AddRefines ==
    ASSUME Inductive, NEW d \in Dirs, NEW a \in Slots, NEW x, OneSlot(d, a, x),
           x.used, ~tab[d].slot[a].used, Loose(x.first), x.dir \in BOOLEAN,
           x.name \in Names, \A s \in Slots : tab[d].slot[s].name # x.name
    PROVE  Tree!Next
<1>1. d \in Words /\ x.first # Root /\ x.first \in DataClusters
    BY DirsType DEF Inductive, TypeOK, Loose, Taken, DataClusters
<1>2. /\ Live' = Live \cup {<<d, a>>} /\ EntryAt(<<d, a>>)' = x
      /\ \A e \in Live : EntryAt(e)' = EntryAt(e)
    BY <1>1, AddSlot DEF Inductive
<1> DEFINE new == [in |-> d, name |-> x.name, to |-> x.first, dir |-> x.dir]
<1>3. DirEntries' = DirEntries \cup {new}
    <2>1. DirEntries' = {Record(e)' : e \in Live'}
        BY DEF DirEntries, Record
    <2>2. \A e \in Live : Record(e)' = Record(e)
        BY <1>2 DEF Record, First
    <2>3. Record(<<d, a>>)' = new
        BY <1>2 DEF Record, First
    <2> HIDE DEF new
    <2> QED
        BY <1>2, <2>1, <2>2, <2>3, EntriesAreRecords
<1>4. \A e \in Tree!Children(d) : e.name # x.name
    <2> SUFFICES ASSUME NEW e \in Live, Record(e).in = d, Record(e).name = x.name PROVE FALSE
        BY EntriesAreRecords DEF Tree!Children
    <2>1. e[1] = d /\ e[2] \in Slots /\ tab[d].slot[e[2]].name = x.name
        BY LiveType DEF Record, EntryAt, Inductive
    <2> QED
        BY <2>1
<1>5. x.first \notin Tree!Targets \cup {Root}
    BY <1>1, EntriesAreRecords DEF Loose
<1>6. Tree!Add(d, x.name, x.first, x.dir)
    BY <1>3, <1>4, <1>5, EntriesAreRecords DEF Tree!Add
<1> QED
    BY <1>1, <1>6, EntriesAreRecords DEF Tree!Next

LEMMA DropRefines ==
    ASSUME Inductive, TreeInv, NEW d \in Dirs, NEW n \in Names, DropEntry(d, n)
    PROVE  Tree!Next
<1> PICK s \in Slots :
        /\ <<d, s>> \in Live /\ d \in Words
        /\ EntryAt(<<d, s>>).dir => ~InUse(tab[First(<<d, s>>)])
        /\ tab' = [tab EXCEPT ![d] = [tab[d] EXCEPT !.slot[s] = FreeSlot]]
    BY DropFinds
<1> PICK a : a = <<d, s>>
    OBVIOUS
<1>0. OneSlot(d, s, FreeSlot) /\ ~FreeSlot.used
    BY WriteSlot DEF Inductive, FreeSlot
<1>1. Live' = Live \ {a} /\ \A e \in Live' : EntryAt(e)' = EntryAt(e)
    BY <1>0, ClearSlot DEF Inductive
<1>2. \A e \in Live : Record(e) = Record(a) => e = a
    BY DEF Record, Inductive, NoCrossLink
<1>3. DirEntries' = DirEntries \ {Record(a)}
    <2>1. DirEntries' = {Record(e)' : e \in Live'}
        BY DEF DirEntries, Record
    <2>2. \A e \in Live' : Record(e)' = Record(e)
        BY <1>1 DEF Record, First
    <2> QED
        BY <1>1, <1>2, <2>1, <2>2, EntriesAreRecords
<1>4. Record(a).dir => Tree!Children(Record(a).to) = {}
    <2> SUFFICES ASSUME EntryAt(a).dir, NEW e \in Live, Record(e).in = First(a) PROVE FALSE
        BY EntriesAreRecords DEF Tree!Children, Record
    <2>1. e[1] = First(a) /\ e[2] \in Slots /\ tab[First(a)].slot[e[2]].used
        BY LiveType DEF Record, EntryAt, Inductive, Live
    <2> QED
        BY <2>1 DEF InUse
<1>5. Tree!Remove(Record(a)) /\ Record(a) \in DirEntries
    BY <1>3, <1>4, EntriesAreRecords DEF Tree!Remove
<1> QED
    BY <1>5 DEF Tree!Next

LEMMA InitRefines == Init => Tree!Init
<1> SUFFICES ASSUME Init PROVE Tree!Init
    OBVIOUS
<1> USE SizeAssumption, NameAssumption
<1>1. Root \in Words /\ 2 \in Slots /\ 3 \in DataClusters /\ Root # 3
    BY SMT DEF Words, FatWords, Root, Slots, DataClusters
<1>2. \A c \in Words, s \in Slots :
          tab[c].slot[s] = IF c = Root /\ s = 2
                           THEN [used |-> TRUE, name |-> ShellName, dir |-> FALSE,
                                 first |-> 3, size |-> ShellLen]
                           ELSE FreeSlot
    BY <1>1 DEF Init, Blank, Contents, Root
<1>3. Live = {<<Root, 2>>}
    BY <1>1, <1>2 DEF Live, FreeSlot
<1>4. Record(<<Root, 2>>) = [in |-> Root, name |-> ShellName, to |-> 3, dir |-> FALSE]
    <2>1. EntryAt(<<Root, 2>>) = [used |-> TRUE, name |-> ShellName, dir |-> FALSE,
                                  first |-> 3, size |-> ShellLen]
        BY <1>1, <1>2 DEF EntryAt
    <2>2. <<Root, 2>>[1] = Root /\ EntryAt(<<Root, 2>>).name = ShellName
          /\ First(<<Root, 2>>) = 3 /\ EntryAt(<<Root, 2>>).dir = FALSE
        BY <2>1 DEF First
    <2> QED
        BY <2>2, Zenon DEF Record
<1>5. DirEntries = {[in |-> Root, name |-> ShellName, to |-> 3, dir |-> FALSE]}
    BY <1>3, <1>4, EntriesAreRecords
<1> QED
    BY <1>1, <1>5 DEF Tree!Init

LEMMA StepRefines ==
    ASSUME ~Overfull, Inductive, TreeInv, [Next]_vars
    PROVE  DirEntries' = DirEntries \/ Tree!Next
<1>1. ASSUME UNCHANGED tab PROVE DirEntries' = DirEntries
    BY <1>1 DEF DirEntries, Live, First, EntryAt
<1>2. CASE Call
    <2>1. PICK d \in Dirs, n \in Names :
            \/ RefuseWrite(d, n)
            \/ \E up \in NamesOf(d) : MakeDir(d, n, up)
            \/ \E k \in 1 .. MaxCount : StartFile(d, n, k)
            \/ RefuseDelete(d, n)
            \/ DropEntry(d, n)
            \/ ReadPastTable(d, n)
            \/ \E k \in 1 .. MaxCount : RefuseRead(d, n, k) \/ StartRead(d, n, k)
        BY <1>2 DEF Call
    <2>2. DropEntry(d, n) \/ UNCHANGED tab
        BY <2>1 DEF RefuseWrite, MakeDir, StartFile, RefuseDelete, ReadPastTable, RefuseRead,
                    StartRead, disk
    <2> QED
        BY <1>1, <2>2, DropRefines
<1>3. CASE MkdirParent
    <2> PICK c, d, a, x :
            /\ c = now /\ d = req.dir /\ a = at
            /\ x = [used |-> TRUE, name |-> req.name, dir |-> TRUE, first |-> now, size |-> 0]
        OBVIOUS
    <2>1. d \in Dirs /\ d \in Words /\ a \in Slots /\ buf = tab[d] /\ ~tab[d].slot[a].used
          /\ Loose(c) /\ req.name \in Names /\ \A s \in Slots : tab[d].slot[s].name # req.name
        BY <1>3, DirsType DEF MkdirParent, TreeInv, TreeCallInv, RoomForEntry, Inductive,
                              CallInv, Loaded, TypeOK
    <2>2. OneSlot(d, a, x)
        BY <1>3, <2>1, WriteSlot DEF MkdirParent, Inductive
    <2>3. x.used /\ x.first = c /\ x.dir /\ x.name = req.name
        OBVIOUS
    <2> QED
        BY <2>1, <2>2, <2>3, AddRefines
<1>4. CASE CreateParent
    <2>0. PICK c, d, a, x :
            /\ c = start /\ d = req.dir /\ a = at
            /\ x = [buf.slot[at] EXCEPT !.used = TRUE, !.name = req.name,
                                        !.first = start, !.size = req.size]
        OBVIOUS
    <2>1. d \in Dirs /\ d \in Words /\ a \in Slots /\ buf = tab[d] /\ ~tab[d].slot[a].used
          /\ Loose(c) /\ req.name \in Names /\ \A s \in Slots : tab[d].slot[s].name # req.name
          /\ buf.slot[a] \in Slot
        BY <1>4, <2>0, DirsType DEF CreateParent, TreeInv, TreeCallInv, RoomForEntry, Inductive,
                              CallInv, Loaded, TypeOK, Cluster
    <2>2. OneSlot(d, a, x)
        BY <1>4, <2>0, <2>1, WriteSlot DEF CreateParent, Inductive
    <2>3. x.used /\ x.first = c /\ x.dir \in BOOLEAN /\ x.name = req.name
        BY <2>0, <2>1 DEF Slot
    <2> QED
        BY <2>1, <2>2, <2>3, AddRefines
<1>5. CASE Continue /\ ~MkdirParent /\ ~CreateParent
    <2>1. MkdirTable \/ WriteData \/ RmdirChild => DirEntries' = DirEntries
        BY MkdirTableTree, WriteDataTree, RmdirChildTree, SameEntries
    <2>2. Link \/ CommitFat \/ Rollback \/ RmdirFat \/ Free \/ Copy \/ EndRead => UNCHANGED tab
        BY DEF Link, CommitFat, Rollback, RmdirFat, Free, Copy, EndRead, disk
    <2> QED
        BY <1>1, <1>5, <2>1, <2>2 DEF Continue
<1>6. CASE Reboot \/ UNCHANGED vars
    BY <1>1, <1>6 DEF Reboot, disk, vars
<1> QED
    BY <1>2, <1>3, <1>4, <1>5, <1>6 DEF Next

(* The entries in use behave as the atomic tree of DirTree, whatever is    *)
(* refused, runs out of room or is cut off.                                *)
THEOREM ImplementsTreeCorrect ==
    ASSUME ~Overfull
    PROVE  Spec => ImplementsTree
<1>1. Inductive /\ TreeInv /\ [Next]_vars => (DirEntries' # DirEntries => Tree!Next)
    BY StepRefines
<1> QED
    BY <1>1, InitRefines, InductiveCorrect, TreeInvCorrect, PTL DEF Spec, ImplementsTree

(* The same as a refinement of DirTree's own specification. *)
THEOREM TreeRefinement ==
    ASSUME ~Overfull
    PROVE  Spec => Tree!Spec
<1>1. Inductive /\ TreeInv /\ [Next]_vars => [Tree!Next]_DirEntries
    BY StepRefines
<1> QED
    BY <1>1, InitRefines, InductiveCorrect, TreeInvCorrect, PTL DEF Spec, Tree!Spec

-----------------------------------------------------------------------------
(* What a call writes on *)

(* OthersUntouched, of one cluster. *)
UntouchedBy(c) ==
    tab'[c] # tab[c] /\ c \notin {req.dir, req'.dir} =>
        \A e \in Live : c \in Chain(fat, First(e)) => e = <<req.dir, at>>

LEMMA StepUntouched ==
    ASSUME Inductive, TreeInv, [Next]_vars, NEW c \in Words
    PROVE  UntouchedBy(c)
<1> USE DEF UntouchedBy
<1>1. CASE Call
    <2>1. PICK d \in Dirs, n \in Names :
            \/ RefuseWrite(d, n)
            \/ \E up \in NamesOf(d) : MakeDir(d, n, up)
            \/ \E k \in 1 .. MaxCount : StartFile(d, n, k)
            \/ RefuseDelete(d, n)
            \/ DropEntry(d, n)
            \/ ReadPastTable(d, n)
            \/ \E k \in 1 .. MaxCount : RefuseRead(d, n, k) \/ StartRead(d, n, k)
        BY <1>1 DEF Call
    <2>2. CASE DropEntry(d, n)
        <3>1. req'.dir = d /\ (c # d => tab'[c] = tab[c])
            BY <2>2, DropFinds DEF DropEntry, Inductive, TypeOK
        <3> QED
            BY <3>1
    <2>3. CASE ~DropEntry(d, n)
        BY <2>1, <2>3 DEF RefuseWrite, MakeDir, StartFile, RefuseDelete, ReadPastTable,
                          RefuseRead, StartRead, disk
    <2> QED
        BY <2>2, <2>3
<1>2. CASE MkdirParent \/ CreateParent
    <2>1. c # req.dir => tab'[c] = tab[c]
        BY <1>2 DEF MkdirParent, CreateParent, Inductive, TypeOK
    <2> QED
        BY <2>1
<1>3. CASE MkdirTable \/ WriteData
    <2>1. c # now => tab'[c] = tab[c]
        BY <1>3 DEF MkdirTable, WriteData, Inductive, TypeOK
    <2>2. \A e \in Live : now \in Chain(fat, First(e)) => e = <<req.dir, at>>
        BY <1>3, OwnCluster DEF MkdirTable, WriteData
    <2> QED
        BY <2>1, <2>2
<1>4. CASE RmdirChild
    <2>1. Loose(now) /\ (c # now => tab'[c] = tab[c])
        BY <1>4 DEF RmdirChild, Inductive, TypeOK, CallInv
    <2> QED
        BY <2>1, LooseApart
<1>5. CASE Link \/ CommitFat \/ Rollback \/ RmdirFat \/ Free \/ Copy \/ EndRead
    BY <1>5 DEF Link, CommitFat, Rollback, RmdirFat, Free, Copy, EndRead, disk
<1>6. CASE Reboot \/ UNCHANGED vars
    BY <1>6 DEF Reboot, disk, vars
<1> QED
    BY <1>1, <1>2, <1>3, <1>4, <1>5, <1>6 DEF Next, Continue

(* A call writes only on its own directory and on the entry it makes, over *)
(* the whole chain, also where an earlier call was cut off.                *)
THEOREM OthersUntouchedCorrect ==
    ASSUME ~Overfull
    PROVE  Spec => OthersUntouched
<1>1. Inductive /\ TreeInv /\ [Next]_vars =>
          [\A c \in Words : tab'[c] # tab[c] /\ c \notin {req.dir, req'.dir} =>
               \A e \in Live : c \in Chain(fat, First(e)) => e = <<req.dir, at>>]_vars
    BY StepUntouched DEF UntouchedBy
<1> QED
    BY <1>1, InductiveCorrect, TreeInvCorrect, PTL DEF Spec, OthersUntouched

(* The theorem about DirTree, for the entries and clusters of Fat32. *)
Kept == INSTANCE DirTreeProofs WITH entries <- DirEntries, Nodes <- DataClusters \cup {Root}

(* What holds in DirTree holds on the disk, at every instant, power cuts   *)
(* included: names of a directory differ, no two entries stand for one     *)
(* cluster, and every entry is in a directory of the tree.                 *)
THEOREM WellFormedTree ==
    ASSUME ~Overfull
    PROVE  Spec => []Tree!Tree
<1>1. Tree!Init => Kept!Init
    BY DEF Tree!Init, Kept!Init
<1>2. [Tree!Next]_DirEntries => [Kept!Next]_DirEntries
    BY DEF Tree!Next, Kept!Next, Tree!Add, Kept!Add, Tree!Remove, Kept!Remove,
           Tree!Directories, Kept!Directories, Tree!Targets, Kept!Targets,
           Tree!Children, Kept!Children
<1>3. Kept!Tree => Tree!Tree
    BY DEF Tree!Tree, Kept!Tree, Tree!TypeOK, Kept!TypeOK, Tree!Entry, Kept!Entry,
           Tree!NamesDiffer, Kept!NamesDiffer, Tree!NodesDiffer, Kept!NodesDiffer,
           Tree!NoOrphan, Kept!NoOrphan, Tree!Directories, Kept!Directories,
           Tree!Targets, Kept!Targets
<1>4. Root \in DataClusters \cup {Root}
    OBVIOUS
<1>5. Kept!Spec => []Kept!Tree
    BY <1>4, Kept!TreeCorrect
<1> QED
    BY <1>1, <1>2, <1>3, <1>5, TreeRefinement, PTL DEF Tree!Spec, Kept!Spec
=============================================================================
