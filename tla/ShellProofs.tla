------------------------------ MODULE ShellProofs ------------------------------
(***************************************************************************)
(* Theorems about Shell, for every number of clusters and entries and all  *)
(* names: types; that no command frees the directory the shell stands in   *)
(* or removes one with entries; and, while no command makes a second link, *)
(* that the prompt's path leads to the shell's directory and that find     *)
(* neither misses an entry nor makes one up.                               *)
(***************************************************************************)
EXTENDS ShellInvariant, WellFoundedInduction, TLAPS

-----------------------------------------------------------------------------
(* Numbers and names *)

LEMMA LeastIs ==
    ASSUME NEW S, S \subseteq Nat, S # {}
    PROVE  Min(S) \in S /\ \A x \in S : Min(S) <= x
<1>1. PICK x \in S : \A y \in S : <<y, x>> \notin OpToRel(<, Nat)
    BY NatLessThanWellFounded, WFMin
<1>2. ASSUME NEW y \in S PROVE x <= y
    <2>1. x \in Nat /\ y \in Nat
        OBVIOUS
    <2>2. ~(y < x)
        BY <1>1, <2>1 DEF OpToRel
    <2> QED
        BY <2>1, <2>2
<1> QED
    BY <1>2 DEF Min

LEMMA NatInduct ==
    ASSUME NEW S, 0 \in S, \A n \in Nat : n \in S => n + 1 \in S
    PROVE  Nat \subseteq S
<1> DEFINE T == Nat \ S
<1> SUFFICES ASSUME T # {} PROVE FALSE
    OBVIOUS
<1>1. Min(T) \in T /\ \A y \in T : Min(T) <= y
    BY LeastIs
<1> PICK k : k = Min(T)
    OBVIOUS
<1>2. k # 0 /\ k - 1 \in Nat /\ k = (k - 1) + 1
    BY <1>1
<1>3. k - 1 \in S
    BY <1>1, <1>2
<1> QED
    BY <1>1, <1>2, <1>3

LEMMA Sizes ==
    /\ LastCluster \in Nat /\ LastCluster >= 4 /\ TableSize \in Nat /\ TableSize >= 4
    /\ Clusters \subseteq Nat /\ Root \in Clusters /\ {0, 3, 4} \subseteq Clusters
    /\ Root = 2
    /\ Index \subseteq Nat /\ Slots \subseteq Index
    /\ 0 \in Index /\ 1 \in Index /\ 2 \in Slots /\ 3 \in Slots
    /\ 0 \notin Slots /\ 1 \notin Slots /\ \A i \in Index : i \in Slots \/ i = 0 \/ i = 1
    BY VolumeAssumption DEF Clusters, Root, Index, Slots

LEMMA NamesDiffer ==
    /\ NoName \notin Names /\ RootName \notin Names /\ Junk \notin Names
    /\ NoName # RootName /\ NoName # Junk /\ RootName # Junk
    /\ Names \subseteq AnyName /\ NoName \in AnyName /\ RootName \in AnyName /\ Junk \in AnyName
    /\ Prefix \subseteq Names \X Names
    /\ Typed \subseteq Names /\ ShellName \in Names /\ Program \in Names
    BY VolumeAssumption, ShellAssumption DEF AnyName

-----------------------------------------------------------------------------
(* Entries and tables *)

(* What a file's contents are, read as an entry. *)
Byte == [Cleared EXCEPT !.name = Junk]

LEMMA EntryType ==
    /\ Entry = [used : BOOLEAN, name : AnyName, ext : BOOLEAN, dir : BOOLEAN, first : Clusters]
    /\ Cleared \in Entry
    /\ \A n \in AnyName, c \in Clusters : Folder(n, c) \in Entry
    /\ \A n \in AnyName, e \in BOOLEAN, c \in Clusters : File(n, e, c) \in Entry
    /\ ZeroTable \in Table /\ Bytes \in Table
<1>1. Entry = [used : BOOLEAN, name : AnyName, ext : BOOLEAN, dir : BOOLEAN, first : Clusters]
    <2>1. Names \cup {NoName, RootName, Junk} = AnyName
        BY DEF AnyName
    <2> QED
        BY <2>1 DEF Entry
<1>2. Cleared \in Entry /\ Byte \in Entry
    BY <1>1, Sizes, NamesDiffer DEF Cleared, Byte
<1>3. \A n \in AnyName, c \in Clusters : Folder(n, c) \in Entry
    BY <1>1 DEF Folder
<1>4. \A n \in AnyName, e \in BOOLEAN, c \in Clusters : File(n, e, c) \in Entry
    BY <1>1 DEF File
<1> QED
    BY <1>1, <1>2, <1>3, <1>4 DEF ZeroTable, Bytes, Byte, Table

LEMMA VolumeTypes ==
    ASSUME NEW v \in VolumeType
    PROVE  /\ v.tab \in [Clusters -> Table] /\ v.free \subseteq Clusters
           /\ \A d \in Clusters, i \in Index :
                  /\ v.tab[d][i] \in Entry /\ v.tab[d][i].first \in Clusters
                  /\ v.tab[d][i].name \in AnyName
                  /\ v.tab[d][i].dir \in BOOLEAN /\ v.tab[d][i].used \in BOOLEAN
                  /\ v.tab[d][i].ext \in BOOLEAN
<1>1. v.tab \in [Clusters -> Table] /\ v.free \subseteq Clusters
    BY DEF VolumeType
<1>2. ASSUME NEW x \in Entry
      PROVE  x.first \in Clusters /\ x.name \in AnyName /\ x.dir \in BOOLEAN
             /\ x.used \in BOOLEAN /\ x.ext \in BOOLEAN
    BY EntryType
<1>3. \A d \in Clusters, i \in Index : v.tab[d][i] \in Entry
    BY <1>1 DEF Table
<1> QED
    BY <1>1, <1>2, <1>3

(* One entry of one table is new. *)
Put(t, d, i, x) == [t EXCEPT ![d][i] = x]

Tables == [Clusters -> Table]

LEMMA PutType ==
    ASSUME NEW t \in Tables, NEW d \in Clusters, NEW i \in Index, NEW x \in Entry
    PROVE  Put(t, d, i, x) \in Tables
    BY DEF Put, Tables, Table

LEMMA PutAt ==
    ASSUME NEW t \in Tables, NEW d \in Clusters, NEW i \in Index, NEW x
    PROVE  \A e \in Clusters, j \in Index :
               Put(t, d, i, x)[e][j] = IF e = d /\ j = i THEN x ELSE t[e][j]
    BY DEF Put, Tables, Table

-----------------------------------------------------------------------------
(* What each system call does, entry by entry *)

LEMMA WriteAllowed ==
    ASSUME NEW v, NEW d, NEW n, NEW e, WriteError(v, d, n, e) = 0
    PROVE  /\ v.tab[d][0].dir /\ Unused(v.tab[d]) # {}
           /\ HasRoom(v, d, n, e) => v.free # {}
           /\ \A i \in Index \ {0} : ~(v.tab[d][i].name = n /\ v.tab[d][i].ext = e)
    BY DEF WriteError, HasRoom

(* mkdir: a directory c in a slot that is not used, and its own first two. *)
FolderMade(v, w, d, n, up, i, c) ==
    /\ ~v.tab[d][i].used /\ w.free = v.free \ {c}
    /\ \A e \in Clusters, j \in Index :
           w.tab[e][j] = IF e = c /\ j = 1 THEN Folder(up, d)
                         ELSE IF (e = c /\ j = 0) \/ (e = d /\ j = i) THEN Folder(n, c)
                         ELSE v.tab[e][j]

LEMMA WriteFolderEffect ==
    ASSUME NEW v \in VolumeType, NEW d \in Clusters, NEW n \in Names, NEW up \in AnyName,
           NEW w, w = WriteFolder(v, d, n, up).vol, HasRoom(v, d, n, FALSE)
    PROVE  /\ w \in VolumeType
           /\ \/ w = v
              \/ /\ WriteError(v, d, n, FALSE) = 0
                 /\ \E i \in Index, c \in v.free : FolderMade(v, w, d, n, up, i, c)
<1>1. CASE WriteError(v, d, n, FALSE) # 0
    BY <1>1 DEF WriteFolder, Refused
<1>2. CASE WriteError(v, d, n, FALSE) = 0
    <2> PICK c, i : c = Min(v.free) /\ i = Min(Unused(v.tab[d]))
        OBVIOUS
    <2>1. v.tab \in Tables /\ v.free \subseteq Clusters /\ v.free \subseteq Nat
        BY Sizes DEF VolumeType, Tables
    <2>2. c \in v.free
        BY <1>2, <2>1, WriteAllowed, LeastIs
    <2>3. i \in Unused(v.tab[d])
        <3>1. Unused(v.tab[d]) \subseteq Nat
            BY Sizes DEF Unused
        <3> QED
            BY <1>2, <3>1, WriteAllowed, LeastIs
    <2>4. i \in Index /\ ~v.tab[d][i].used
        BY <2>3 DEF Unused
    <2>5. Folder(n, c) \in Entry /\ Folder(up, d) \in Entry
          /\ c \in Clusters /\ 0 \in Index /\ 1 \in Index
        BY <2>1, <2>2, EntryType, NamesDiffer, Sizes
    <2> DEFINE t1 == Put(v.tab, d, i, Folder(n, c))
               t2 == Put(t1, c, 0, Folder(n, c))
               t3 == Put(t2, c, 1, Folder(up, d))
    <2>6. w = [tab |-> t3, free |-> v.free \ {c}]
        BY <1>2 DEF WriteFolder, Done, Put
    <2>7. t1 \in Tables /\ \A e \in Clusters, j \in Index :
              t1[e][j] = IF e = d /\ j = i THEN Folder(n, c) ELSE v.tab[e][j]
        BY <2>1, <2>4, <2>5, PutType, PutAt
    <2> HIDE DEF t1
    <2>8. t2 \in Tables /\ \A e \in Clusters, j \in Index :
              t2[e][j] = IF e = c /\ j = 0 THEN Folder(n, c) ELSE t1[e][j]
        BY <2>5, <2>7, PutType, PutAt
    <2> HIDE DEF t2
    <2>9. t3 \in Tables /\ \A e \in Clusters, j \in Index :
              t3[e][j] = IF e = c /\ j = 1 THEN Folder(up, d) ELSE t2[e][j]
        BY <2>5, <2>8, PutType, PutAt
    <2> HIDE DEF t3
    <2>10. w \in VolumeType
        BY <2>1, <2>6, <2>9 DEF VolumeType, Tables
    <2>11. FolderMade(v, w, d, n, up, i, c)
        <3>1. w.tab = t3 /\ w.free = v.free \ {c}
            BY <2>6
        <3>2. ASSUME NEW e \in Clusters, NEW j \in Index
              PROVE  t3[e][j] = IF e = c /\ j = 1 THEN Folder(up, d)
                                ELSE IF (e = c /\ j = 0) \/ (e = d /\ j = i) THEN Folder(n, c)
                                ELSE v.tab[e][j]
            BY <2>7, <2>8, <2>9
        <3> QED
            BY <2>4, <3>1, <3>2 DEF FolderMade
    <2> QED
        BY <1>2, <2>2, <2>4, <2>10, <2>11
<1> QED
    BY <1>1, <1>2

(* A file in a slot that is not used, and its contents in cluster c. *)
FileMade(v, w, d, n, x, i, c) ==
    /\ ~v.tab[d][i].used /\ w.free = v.free \ {c}
    /\ \A e \in Clusters, j \in Index :
           w.tab[e][j] = IF e = c THEN Byte
                         ELSE IF e = d /\ j = i THEN File(n, x, c)
                         ELSE v.tab[e][j]

LEMMA WriteFileEffect ==
    ASSUME NEW v \in VolumeType, NEW d \in Clusters, NEW n \in Names, NEW x \in BOOLEAN,
           NEW w, w = WriteFile(v, d, n, x).vol, HasRoom(v, d, n, x)
    PROVE  /\ w \in VolumeType
           /\ \/ w = v
              \/ /\ WriteError(v, d, n, x) = 0
                 /\ \E i \in Index, c \in v.free : FileMade(v, w, d, n, x, i, c)
<1>1. CASE WriteError(v, d, n, x) # 0
    BY <1>1 DEF WriteFile, Refused
<1>2. CASE WriteError(v, d, n, x) = 0
    <2> PICK c, i : c = Min(v.free) /\ i = Min(Unused(v.tab[d]))
        OBVIOUS
    <2>1. v.tab \in Tables /\ v.free \subseteq Clusters /\ v.free \subseteq Nat
        BY Sizes DEF VolumeType, Tables
    <2>2. c \in v.free
        BY <1>2, <2>1, WriteAllowed, LeastIs
    <2>3. i \in Unused(v.tab[d])
        <3>1. Unused(v.tab[d]) \subseteq Nat
            BY Sizes DEF Unused
        <3> QED
            BY <1>2, <3>1, WriteAllowed, LeastIs
    <2>4. i \in Index /\ ~v.tab[d][i].used
        BY <2>3 DEF Unused
    <2>5. File(n, x, c) \in Entry /\ Bytes \in Table
        BY <2>1, <2>2, EntryType, NamesDiffer
    <2> DEFINE t1 == Put(v.tab, d, i, File(n, x, c))
               t2 == [t1 EXCEPT ![c] = Bytes]
    <2>6. w = [tab |-> t2, free |-> v.free \ {c}]
        BY <1>2 DEF WriteFile, Done, Put
    <2>7. t1 \in Tables /\ \A e \in Clusters, j \in Index :
              t1[e][j] = IF e = d /\ j = i THEN File(n, x, c) ELSE v.tab[e][j]
        BY <2>1, <2>4, <2>5, PutType, PutAt
    <2> HIDE DEF t1
    <2>8. t2 \in Tables /\ \A e \in Clusters : t2[e] = IF e = c THEN Bytes ELSE t1[e]
        BY <2>5, <2>7 DEF Tables
    <2>9. \A j \in Index : Bytes[j] = Byte
        BY DEF Bytes, Byte
    <2> HIDE DEF t2
    <2>10. w \in VolumeType
        BY <2>1, <2>6, <2>8 DEF VolumeType, Tables
    <2>11. FileMade(v, w, d, n, x, i, c)
        BY <2>4, <2>6, <2>7, <2>8, <2>9 DEF FileMade
    <2> QED
        BY <1>2, <2>2, <2>4, <2>10, <2>11
<1> QED
    BY <1>1, <1>2

(* rm and mv: the entry in slot i of d, and the first two of its directory. *)
Removed(v, w, d, i) ==
    LET x == v.tab[d][i]
    IN \A e \in Clusters, j \in Index :
           w.tab[e][j] = IF e = d /\ j = i THEN Cleared
                         ELSE IF x.dir /\ e = x.first /\ j \in {0, 1} THEN Emptied(v.tab[e][j])
                         ELSE v.tab[e][j]

LEMMA EmptiedIs ==
    ASSUME NEW x \in Entry
    PROVE  /\ Emptied(x) \in Entry
           /\ ~Emptied(x).used /\ ~Emptied(x).ext /\ ~Emptied(x).dir
           /\ Emptied(x).name = NoName /\ Emptied(x).first = x.first
    BY EntryType, NamesDiffer DEF Emptied

(* One entry of one table differs. *)
Changed(t, u, d, i, x) ==
    /\ u \in Tables
    /\ \A e \in Clusters, j \in Index : u[e][j] = IF e = d /\ j = i THEN x ELSE t[e][j]

LEMMA PutChanges ==
    ASSUME NEW t \in Tables, NEW d \in Clusters, NEW i \in Index, NEW x \in Entry,
           NEW u, u = Put(t, d, i, x)
    PROVE  Changed(t, u, d, i, x) /\ u \in Tables
    BY PutType, PutAt DEF Changed

LEMMA DroppedEffect ==
    ASSUME NEW v \in VolumeType, NEW d \in Clusters, NEW i \in Slots
    PROVE  /\ Dropped(v, d, i) \in Tables
           /\ \A w : w.tab = Dropped(v, d, i) => Removed(v, w, d, i)
<1>1. PICK t : t = v.tab
    OBVIOUS
<1>2. PICK c : c = v.tab[d][i].first
    OBVIOUS
<1>3. t \in Tables /\ i \in Index /\ i # 0 /\ i # 1 /\ 0 \in Index /\ 1 \in Index
    BY <1>1, Sizes DEF VolumeType, Tables
<1>4. c \in Clusters /\ Cleared \in Entry
    BY <1>2, <1>3, VolumeTypes, EntryType
<1>5. PICK y \in Entry, z \in Entry : y = Emptied(t[c][0]) /\ z = Emptied(t[c][1])
    <2>1. t[c][0] \in Entry /\ t[c][1] \in Entry
        BY <1>1, <1>3, <1>4, VolumeTypes
    <2> QED
        BY <2>1, EmptiedIs
<1>6. y \in Entry /\ z \in Entry
    OBVIOUS
<1>7. PICK t1, t2, t3 : t1 = Put(t, d, i, Cleared) /\ t2 = Put(t1, c, 0, y) /\ t3 = Put(t2, c, 1, z)
    OBVIOUS
<1>8. /\ t1 \in Tables /\ t3 \in Tables
      /\ t1[c][0] = t[c][0] /\ t1[c][1] = t[c][1]
      /\ \A e \in Clusters, j \in Index :
             /\ t1[e][j] = IF e = d /\ j = i THEN Cleared ELSE t[e][j]
             /\ t3[e][j] = IF e = c /\ j = 0 THEN y ELSE IF e = c /\ j = 1 THEN z ELSE t1[e][j]
    <2>1. Changed(t, t1, d, i, Cleared) /\ t1 \in Tables
        BY <1>3, <1>4, <1>7, PutChanges
    <2>2. Changed(t1, t2, c, 0, y) /\ t2 \in Tables
        BY <1>3, <1>4, <1>6, <1>7, <2>1, PutChanges
    <2>3. Changed(t2, t3, c, 1, z) /\ t3 \in Tables
        BY <1>3, <1>4, <1>6, <1>7, <2>2, PutChanges
    <2>4. t1[c][0] = t[c][0] /\ t1[c][1] = t[c][1]
        BY <1>3, <1>4, <2>1 DEF Changed
    <2>5. ASSUME NEW e \in Clusters, NEW j \in Index
          PROVE  /\ t1[e][j] = IF e = d /\ j = i THEN Cleared ELSE t[e][j]
                 /\ t3[e][j] = IF e = c /\ j = 0 THEN y ELSE IF e = c /\ j = 1 THEN z
                               ELSE t1[e][j]
        BY <2>1, <2>2, <2>3 DEF Changed
    <2> QED
        BY <2>1, <2>3, <2>4, <2>5
<1>9. Dropped(v, d, i) = IF v.tab[d][i].dir THEN t3 ELSE t1
    <2>1. t1 = [v.tab EXCEPT ![d][i] = Cleared]
        BY <1>1, <1>7 DEF Put
    <2>2. y = Emptied(t1[c][0]) /\ z = Emptied(t1[c][1])
        BY <1>5, <1>8
    <2>3. t3 = [t1 EXCEPT ![c][0] = Emptied(@), ![c][1] = Emptied(@)]
        BY <1>7, <2>2 DEF Put
    <2> QED
        BY <1>2, <2>1, <2>3 DEF Dropped
<1>10. ASSUME NEW w, w.tab = Dropped(v, d, i), NEW e \in Clusters, NEW j \in Index
       PROVE  w.tab[e][j] = IF e = d /\ j = i THEN Cleared
                            ELSE IF v.tab[d][i].dir /\ e = c /\ j \in {0, 1} THEN Emptied(t[e][j])
                            ELSE t[e][j]
    <2>1. CASE v.tab[d][i].dir
        <3>1. w.tab = t3
            BY <1>9, <1>10, <2>1
        <3>2. CASE e = c /\ j = 0
            <4>1. w.tab[e][j] = y
                BY <1>8, <3>1, <3>2
            <4> QED
                BY <1>3, <1>5, <2>1, <3>2, <4>1
        <3>3. CASE e = c /\ j = 1
            <4>1. w.tab[e][j] = z
                BY <1>8, <3>1, <3>3
            <4> QED
                BY <1>3, <1>5, <2>1, <3>3, <4>1
        <3>4. CASE ~(e = c /\ j \in {0, 1})
            <4>1. w.tab[e][j] = t1[e][j]
                BY <1>8, <3>1, <3>4
            <4> QED
                BY <1>8, <3>4, <4>1
        <3> QED
            BY <3>2, <3>3, <3>4
    <2>2. CASE ~v.tab[d][i].dir
        <3>1. w.tab = t1
            BY <1>9, <1>10, <2>2
        <3> QED
            BY <1>8, <2>2, <3>1
    <2> QED
        BY <2>1, <2>2
<1>11. Dropped(v, d, i) \in Tables
    BY <1>8, <1>9
<1>12. ASSUME NEW w, w.tab = Dropped(v, d, i) PROVE Removed(v, w, d, i)
    BY <1>1, <1>2, <1>10, <1>12 DEF Removed
<1> QED
    BY <1>11, <1>12

LEMMA HitsAre ==
    ASSUME NEW t, NEW n, NEW e, Hits(t, n, e) # {}, NEW i, i = Min(Hits(t, n, e))
    PROVE  i \in Slots /\ StartsWith(t[i].name, n) /\ t[i].ext = e
<1>1. Hits(t, n, e) \subseteq Nat
    BY Sizes DEF Hits
<1>2. i \in Hits(t, n, e)
    BY <1>1, LeastIs
<1> QED
    BY <1>2 DEF Hits

LEMMA DeleteAllowed ==
    ASSUME NEW v, NEW d, NEW n, NEW e, DeleteError(v, d, n, e) = 0,
           NEW i, i = Min(Hits(v.tab[d], n, e))
    PROVE  /\ v.tab[d][0].dir /\ i \in Slots
           /\ StartsWith(v.tab[d][i].name, n) /\ v.tab[d][i].ext = e
           /\ v.tab[d][i].dir => ~InUse(v.tab[v.tab[d][i].first])
<1>1. /\ v.tab[d][0].dir /\ Hits(v.tab[d], n, e) # {}
      /\ v.tab[d][i].dir => ~InUse(v.tab[v.tab[d][i].first])
    BY DEF DeleteError
<1> QED
    BY <1>1, HitsAre

(* What delete_something and delete_something2 do to the volume. *)
Deleted(v, w, d, i) ==
    /\ v.tab[d][0].dir
    /\ v.tab[d][i].dir => ~InUse(v.tab[v.tab[d][i].first])
    /\ Removed(v, w, d, i)
    /\ v.free \subseteq w.free /\ w.free \subseteq v.free \cup {v.tab[d][i].first}

LEMMA DeleteEffect ==
    ASSUME NEW v \in VolumeType, NEW d \in Clusters, NEW n, NEW e,
           NEW w, w = Delete(v, d, n, e).vol
    PROVE  /\ w \in VolumeType
           /\ \/ w = v
              \/ \E i \in Slots : /\ Deleted(v, w, d, i)
                                  /\ StartsWith(v.tab[d][i].name, n)
                                  /\ w.free = v.free \cup {v.tab[d][i].first}
<1>1. CASE DeleteError(v, d, n, e) # 0
    BY <1>1 DEF Delete, Refused
<1>2. CASE DeleteError(v, d, n, e) = 0
    <2> PICK i : i = Min(Hits(v.tab[d], n, e))
        OBVIOUS
    <2> PICK t : t = Dropped(v, d, i)
        OBVIOUS
    <2>1. w = [tab |-> t, free |-> v.free \cup {v.tab[d][i].first}]
        <3>1. CASE Lost(v, v.tab[d][i])
            <4>1. v.free \cup {v.tab[d][i].first} = v.free
                BY <3>1 DEF Lost
            <4>2. w = [v EXCEPT !.tab = t]
                BY <1>2, <3>1 DEF Delete
            <4> QED
                BY <4>1, <4>2 DEF VolumeType
        <3>2. CASE ~Lost(v, v.tab[d][i])
            BY <1>2, <3>2 DEF Delete, Done
        <3> QED
            BY <3>1, <3>2
    <2>2. i \in Slots /\ v.tab[d][0].dir /\ StartsWith(v.tab[d][i].name, n)
          /\ (v.tab[d][i].dir => ~InUse(v.tab[v.tab[d][i].first]))
        BY <1>2, DeleteAllowed
    <2>3. i \in Index
        BY <2>2, Sizes
    <2>4. t \in Tables /\ Removed(v, w, d, i)
        BY <2>1, <2>2, DroppedEffect
    <2>5. v.tab[d][i].first \in Clusters /\ v.free \subseteq Clusters
        BY <2>3, VolumeTypes
    <2>6. w \in VolumeType
        BY <2>1, <2>4, <2>5 DEF VolumeType, Tables
    <2>7. w.free = v.free \cup {v.tab[d][i].first}
        BY <2>1
    <2>8. Deleted(v, w, d, i)
        BY <2>2, <2>4, <2>7 DEF Deleted
    <2> QED
        BY <2>2, <2>6, <2>7, <2>8
<1> QED
    BY <1>1, <1>2

LEMMA Delete2Effect ==
    ASSUME NEW v \in VolumeType, NEW d \in Clusters, NEW n,
           NEW w, w = Delete2(v, d, n).vol
    PROVE  /\ w \in VolumeType
           /\ \/ w = v
              \/ \E i \in Slots : Deleted(v, w, d, i) /\ StartsWith(v.tab[d][i].name, n)
<1>1. CASE DeleteError(v, d, n, FALSE) # 0
    BY <1>1 DEF Delete2, Refused
<1>2. CASE DeleteError(v, d, n, FALSE) = 0
    <2> PICK e : e = FALSE
        OBVIOUS
    <2> PICK i : i = Min(Hits(v.tab[d], n, e))
        OBVIOUS
    <2> PICK t : t = Dropped(v, d, i)
        OBVIOUS
    <2>1. w = [tab |-> t,
               free |-> IF v.tab[d][i].dir THEN v.free ELSE v.free \cup {v.tab[d][i].first}]
        <3>1. CASE Lost(v, v.tab[d][i])
            <4>1. ~v.tab[d][i].dir /\ v.free \cup {v.tab[d][i].first} = v.free
                BY <3>1 DEF Lost
            <4>2. w = [v EXCEPT !.tab = t]
                BY <1>2, <3>1 DEF Delete2
            <4> QED
                BY <4>1, <4>2 DEF VolumeType
        <3>2. CASE ~Lost(v, v.tab[d][i])
            BY <1>2, <3>2 DEF Delete2, Done
        <3> QED
            BY <3>1, <3>2
    <2>2. i \in Slots /\ v.tab[d][0].dir /\ StartsWith(v.tab[d][i].name, n)
          /\ (v.tab[d][i].dir => ~InUse(v.tab[v.tab[d][i].first]))
        <3>1. DeleteError(v, d, n, e) = 0
            BY <1>2, Zenon
        <3> QED
            BY <3>1, DeleteAllowed
    <2>3. i \in Index
        BY <2>2, Sizes
    <2>4. t \in Tables /\ Removed(v, w, d, i)
        BY <2>1, <2>2, DroppedEffect
    <2>5. v.tab[d][i].first \in Clusters /\ v.free \subseteq Clusters
        BY <2>3, VolumeTypes
    <2>6. w \in VolumeType
        <3>1. w.tab \in [Clusters -> Table] /\ w.free \in SUBSET Clusters
              /\ w = [tab |-> w.tab, free |-> w.free]
            BY <2>1, <2>4, <2>5 DEF Tables
        <3> QED
            BY <3>1 DEF VolumeType
    <2>7. v.free \subseteq w.free /\ w.free \subseteq v.free \cup {v.tab[d][i].first}
        BY <2>1
    <2>8. Deleted(v, w, d, i)
        BY <2>2, <2>4, <2>7 DEF Deleted
    <2> QED
        BY <2>2, <2>6, <2>8
<1> QED
    BY <1>1, <1>2

(* cp and mv: a directory c in a slot that is not used. *)
LinkMade(v, w, d, n, c, i) ==
    /\ ~v.tab[d][i].used /\ w.free = v.free
    /\ \A e \in Clusters, j \in Index :
           w.tab[e][j] = IF e = d /\ j = i THEN Folder(n, c) ELSE v.tab[e][j]

LEMMA UpdateEffect ==
    ASSUME NEW v \in VolumeType, NEW d \in Clusters, NEW n \in Names, NEW c \in Clusters,
           NEW w, w = Update(v, d, n, c).vol
    PROVE  w \in VolumeType /\ (w = v \/ \E i \in Index : LinkMade(v, w, d, n, c, i))
<1>1. CASE \/ ~v.tab[d][0].dir \/ Unused(v.tab[d]) = {}
           \/ \E i \in Slots : v.tab[d][i].name = n
    BY <1>1 DEF Update, Refused
<1>2. CASE ~(\/ ~v.tab[d][0].dir \/ Unused(v.tab[d]) = {}
             \/ \E i \in Slots : v.tab[d][i].name = n)
    <2> PICK i : i = Min(Unused(v.tab[d]))
        OBVIOUS
    <2>1. i \in Index /\ ~v.tab[d][i].used
        <3>1. Unused(v.tab[d]) \subseteq Nat
            BY Sizes DEF Unused
        <3>2. i \in Unused(v.tab[d])
            BY <1>2, <3>1, LeastIs
        <3> QED
            BY <3>2 DEF Unused
    <2>2. w = [v EXCEPT !.tab[d][i] = Folder(n, c)]
        BY <1>2 DEF Update, Done
    <2>3. w = [tab |-> Put(v.tab, d, i, Folder(n, c)), free |-> v.free]
        BY <2>2 DEF Put, VolumeType
    <2>4. v.tab \in Tables /\ Folder(n, c) \in Entry
        BY EntryType, NamesDiffer DEF VolumeType, Tables
    <2>5. Put(v.tab, d, i, Folder(n, c)) \in Tables
          /\ \A e \in Clusters, j \in Index : Put(v.tab, d, i, Folder(n, c))[e][j] =
                 IF e = d /\ j = i THEN Folder(n, c) ELSE v.tab[e][j]
        BY <2>1, <2>4, PutType, PutAt
    <2>6. w \in VolumeType
        BY <2>3, <2>5 DEF VolumeType, Tables
    <2> QED
        BY <2>1, <2>3, <2>5, <2>6 DEF LinkMade
<1> QED
    BY <1>1, <1>2

LEMMA ReadType ==
    ASSUME NEW v \in VolumeType, NEW d \in Clusters, NEW n
    PROVE  ReadDirectory(v, d, n).table \in Table
<1> DEFINE hits == {i \in Index : StartsWith(v.tab[d][i].name, n)}
<1>1. hits # {} => Min(hits) \in Index
    <2>1. hits \subseteq Nat
        BY Sizes
    <2> HIDE DEF hits
    <2>2. hits # {} => Min(hits) \in hits
        BY <2>1, LeastIs
    <2> QED
        BY <2>2 DEF hits
<1>2. ReadDirectory(v, d, n) =
          IF ~v.tab[d][0].dir THEN [rc |-> -1, table |-> ZeroTable]
          ELSE IF hits = {} THEN [rc |-> 2, table |-> ZeroTable]
          ELSE IF ~v.tab[d][Min(hits)].dir THEN [rc |-> 1, table |-> ZeroTable]
          ELSE [rc |-> 0, table |-> v.tab[v.tab[d][Min(hits)].first]]
    BY DEF ReadDirectory
<1> HIDE DEF hits
<1>3. hits # {} => v.tab[d][Min(hits)].first \in Clusters
    BY <1>1, VolumeTypes
<1>4. hits # {} => v.tab[v.tab[d][Min(hits)].first] \in Table
    BY <1>3, VolumeTypes
<1> QED
    BY <1>2, <1>4, EntryType

-----------------------------------------------------------------------------
(* Paths.  A function that is defined by recursion over 0 .. n exists.     *)

Computes(f, S, b, G, n) ==
    f \in [0 .. n -> S] /\ f[0] = b /\ \A i \in 1 .. n : f[i] = G[<<i, f[i - 1]>>]

LEMMA Recursion ==
    ASSUME NEW S, NEW b \in S, NEW G \in [Nat \X S -> S], NEW n \in Nat
    PROVE  \E f : Computes(f, S, b, G, n)
<1> DEFINE T == {k \in Nat : \E f : Computes(f, S, b, G, k)}
<1>1. 0 \in T
    <2> DEFINE f == [i \in 0 .. 0 |-> b]
    <2>1. f \in [0 .. 0 -> S] /\ f[0] = b /\ 1 .. 0 = {}
        OBVIOUS
    <2> QED
        BY <2>1 DEF Computes
<1>2. ASSUME NEW k \in Nat, k \in T PROVE k + 1 \in T
    <2>1. PICK f : Computes(f, S, b, G, k)
        BY <1>2
    <2>2. f \in [0 .. k -> S] /\ f[k] \in S
        BY <2>1 DEF Computes
    <2>3. G[<<k + 1, f[k]>>] \in S
        BY <2>2
    <2> DEFINE g == [i \in 0 .. k + 1 |-> IF i <= k THEN f[i] ELSE G[<<k + 1, f[k]>>]]
    <2>4. g \in [0 .. k + 1 -> S]
        BY <2>2, <2>3
    <2>5. g[0] = b
        BY <2>1 DEF Computes
    <2>6. ASSUME NEW i \in 1 .. k + 1 PROVE g[i] = G[<<i, g[i - 1]>>]
        <3>1. i \in 0 .. k + 1 /\ i - 1 \in 0 .. k + 1 /\ i - 1 <= k
            OBVIOUS
        <3>2. g[i - 1] = f[i - 1] /\ g[i] = IF i <= k THEN f[i] ELSE G[<<k + 1, f[k]>>]
            BY <3>1
        <3>3. CASE i <= k
            <4>1. i \in 1 .. k
                BY <3>3
            <4>2. f[i] = G[<<i, f[i - 1]>>]
                BY <2>1, <4>1 DEF Computes
            <4> HIDE DEF g
            <4> QED
                BY <3>2, <3>3, <4>2
        <3>4. CASE i = k + 1
            <4>1. i - 1 = k /\ ~(i <= k)
                BY <3>4
            <4> HIDE DEF g
            <4> QED
                BY <3>2, <3>4, <4>1
        <3> QED
            BY <3>3, <3>4
    <2> HIDE DEF g
    <2>7. Computes(g, S, b, G, k + 1)
        BY <2>4, <2>5, <2>6 DEF Computes
    <2> QED
        BY <2>7
<1>3. Nat \subseteq T
    <2> HIDE DEF T
    <2> QED
        BY <1>1, <1>2, NatInduct
<1> QED
    BY <1>3

LEMMA ReverseSteps ==
    ASSUME NEW path \in Seq(AnyName)
    PROVE  \E r \in [0 .. Len(path) -> Seq(AnyName)] :
               /\ ReversePath(path) = r[Len(path)] /\ r[0] = <<>>
               /\ \A k \in 1 .. Len(path) :
                      r[k] = IF path[k] = NoName THEN r[k - 1] ELSE <<path[k]>> \o r[k - 1]
<1> PICK n : n = Len(path)
    OBVIOUS
<1>1. n \in Nat
    OBVIOUS
<1> DEFINE S == Seq(AnyName)
           G == [p \in Nat \X S |-> IF p[1] \in 1 .. n
                                    THEN IF path[p[1]] = NoName THEN p[2]
                                         ELSE <<path[p[1]]>> \o p[2]
                                    ELSE p[2]]
           F(f) == [k \in 0 .. n |->
                       IF k = 0 THEN <<>>
                       ELSE IF path[k] = NoName THEN f[k - 1] ELSE <<path[k]>> \o f[k - 1]]
<1>2. G \in [Nat \X S -> S] /\ <<>> \in S
    OBVIOUS
<1>3. ASSUME NEW i \in 1 .. n, NEW s \in S
      PROVE  G[<<i, s>>] = IF path[i] = NoName THEN s ELSE <<path[i]>> \o s
    BY <1>1
<1> HIDE DEF G
<1>4. PICK f : Computes(f, S, <<>>, G, n)
    BY <1>1, <1>2, Recursion
<1>5. ASSUME NEW i \in 1 .. n
      PROVE  f[i] = IF path[i] = NoName THEN f[i - 1] ELSE <<path[i]>> \o f[i - 1]
    <2>1. f[i - 1] \in S
        BY <1>1, <1>4 DEF Computes
    <2>2. f[i] = G[<<i, f[i - 1]>>]
        BY <1>4 DEF Computes
    <2> QED
        BY <1>3, <2>1, <2>2
<1>6. f = F(f)
    <2>1. f \in [0 .. n -> S] /\ f[0] = <<>>
        BY <1>4 DEF Computes
    <2>2. ASSUME NEW i \in 0 .. n PROVE f[i] = F(f)[i]
        <3>1. F(f)[i] = IF i = 0 THEN <<>>
                        ELSE IF path[i] = NoName THEN f[i - 1] ELSE <<path[i]>> \o f[i - 1]
            OBVIOUS
        <3>2. i # 0 => i \in 1 .. n
            BY <1>1
        <3> HIDE DEF F
        <3> QED
            BY <1>5, <2>1, <3>1, <3>2
    <2>3. DOMAIN F(f) = 0 .. n /\ F(f) = [i \in 0 .. n |-> F(f)[i]]
        OBVIOUS
    <2>4. f = [i \in 0 .. n |-> f[i]]
        BY <2>1
    <2> HIDE DEF F
    <2> QED
        BY <2>2, <2>3, <2>4
<1>7. ReversePath(path) = (CHOOSE g : g = F(g))[n]
    BY DEF ReversePath
<1> DEFINE r == CHOOSE g : g = F(g)
<1>8. r = F(r)
    <2> HIDE DEF F
    <2> QED
        BY <1>6
<1> HIDE DEF r
<1>9. r[0] = <<>> /\ r = [k \in 0 .. n |-> r[k]]
    BY <1>1, <1>8
<1>10. ASSUME NEW k \in 1 .. n
       PROVE  r[k] = IF path[k] = NoName THEN r[k - 1] ELSE <<path[k]>> \o r[k - 1]
    <2>1. k \in 0 .. n /\ k # 0
        BY <1>1
    <2>2. F(r)[k] = IF k = 0 THEN <<>>
                    ELSE IF path[k] = NoName THEN r[k - 1] ELSE <<path[k]>> \o r[k - 1]
        BY <2>1
    <2> HIDE DEF F
    <2>3. r[k] = F(r)[k]
        BY <1>8
    <2> QED
        BY <2>1, <2>2, <2>3
<1> DEFINE T == {k \in Nat : k <= n => r[k] \in S}
<1>11. 0 \in T
    BY <1>2, <1>9
<1>12. ASSUME NEW k \in Nat, k \in T PROVE k + 1 \in T
    <2> SUFFICES ASSUME k + 1 <= n PROVE r[k + 1] \in S
        OBVIOUS
    <2>1. k + 1 \in 1 .. n /\ (k + 1) - 1 = k /\ r[k] \in S
        BY <1>1, <1>12
    <2>2. r[k + 1] = IF path[k + 1] = NoName THEN r[k] ELSE <<path[k + 1]>> \o r[k]
        BY <1>10, <2>1
    <2>3. path[k + 1] \in AnyName
        BY <2>1
    <2> QED
        BY <2>1, <2>2, <2>3
<1>13. Nat \subseteq T
    <2> HIDE DEF T
    <2> QED
        BY <1>11, <1>12, NatInduct
<1>14. r \in [0 .. n -> S]
    BY <1>1, <1>9, <1>13
<1> QED
    BY <1>7, <1>9, <1>10, <1>14 DEF r

(* The reversed path is no longer; without a cleared name in it, it is the *)
(* path from its end to its beginning.                                     *)
LEMMA ReverseIs ==
    ASSUME NEW path \in Seq(AnyName)
    PROVE  /\ ReversePath(path) \in Seq(AnyName) /\ Len(ReversePath(path)) <= Len(path)
           /\ (\A k \in 1 .. Len(path) : path[k] # NoName) =>
                  /\ Len(ReversePath(path)) = Len(path)
                  /\ \A k \in 1 .. Len(path) : ReversePath(path)[k] = path[Len(path) + 1 - k]
<1> PICK n : n = Len(path)
    OBVIOUS
<1>1. n \in Nat
    OBVIOUS
<1>2. PICK r \in [0 .. n -> Seq(AnyName)] :
          /\ ReversePath(path) = r[n] /\ r[0] = <<>>
          /\ \A k \in 1 .. n :
                 r[k] = IF path[k] = NoName THEN r[k - 1] ELSE <<path[k]>> \o r[k - 1]
    BY ReverseSteps
<1> DEFINE AllNamed == \A k \in 1 .. n : path[k] # NoName
           P(k) == /\ Len(r[k]) <= k
                   /\ AllNamed => Len(r[k]) = k /\ \A j \in 1 .. k : r[k][j] = path[k + 1 - j]
           T == {k \in Nat : k <= n => P(k)}
<1>3. 0 \in T
    BY <1>2
<1>4. ASSUME NEW k \in Nat, k \in T PROVE k + 1 \in T
    <2> SUFFICES ASSUME k + 1 <= n PROVE P(k + 1)
        <3> HIDE DEF P
        <3> QED
            OBVIOUS
    <2>1. k + 1 \in 1 .. n /\ (k + 1) - 1 = k /\ k \in 0 .. n
        BY <1>1
    <2> PICK s : s = r[k]
        OBVIOUS
    <2>2. s \in Seq(AnyName) /\ Len(s) <= k
          /\ (AllNamed => Len(s) = k /\ \A j \in 1 .. k : s[j] = path[k + 1 - j])
        <3>1. P(k)
            <4> HIDE DEF P
            <4> QED
                BY <1>4, <2>1
        <3> QED
            BY <2>1, <3>1
    <2>3. r[k + 1] = IF path[k + 1] = NoName THEN s ELSE <<path[k + 1]>> \o s
        BY <1>2, <2>1
    <2> PICK x : x = path[k + 1]
        OBVIOUS
    <2>4. <<x>> \in Seq({x} \cup AnyName) /\ s \in Seq({x} \cup AnyName)
          /\ Len(<<x>> \o s) = 1 + Len(s)
          /\ \A j \in 1 .. 1 + Len(s) : (<<x>> \o s)[j] = IF j = 1 THEN x ELSE s[j - 1]
        BY <2>2
    <2>5. Len(r[k + 1]) <= k + 1
        BY <2>2, <2>3, <2>4
    <2>6. ASSUME AllNamed
          PROVE  Len(r[k + 1]) = k + 1 /\ \A j \in 1 .. k + 1 : r[k + 1][j] = path[k + 1 + 1 - j]
        <3>1. r[k + 1] = <<x>> \o s /\ Len(s) = k
            BY <2>1, <2>2, <2>3, <2>6
        <3>2. ASSUME NEW j \in 1 .. k + 1 PROVE (<<x>> \o s)[j] = path[k + 1 + 1 - j]
            <4>1. CASE j = 1
                BY <2>4, <3>1, <4>1
            <4>2. CASE j # 1
                <5>1. j - 1 \in 1 .. k /\ k + 1 - (j - 1) = k + 1 + 1 - j
                    BY <4>2
                <5> QED
                    BY <2>2, <2>4, <2>6, <3>1, <4>2, <5>1
            <4> QED
                BY <4>1, <4>2
        <3> QED
            BY <2>4, <3>1, <3>2
    <2> QED
        BY <2>5, <2>6
<1>5. Nat \subseteq T
    <2> HIDE DEF T
    <2> QED
        BY <1>3, <1>4, NatInduct
<1>6. n \in T
    BY <1>1, <1>5
<1>7. r[n] \in Seq(AnyName)
    BY <1>1
<1> QED
    BY <1>1, <1>2, <1>6, <1>7

-----------------------------------------------------------------------------
(* Types *)

LEMMA NoLocals ==
    /\ NoWalk \in Walk /\ Len(NoWalk.path) = 0 /\ NoWalk.path = <<>> /\ NoHunt \in Hunt
    /\ <<>> \in Seq(Frame) /\ PathMax \in Nat
<1>1. ZeroTable \in Table /\ Root \in Clusters /\ NoName \in AnyName /\ PathMax \in Nat
    BY EntryType, Sizes, NamesDiffer, ShellAssumption
<1>2. NoWalk \in Walk /\ Len(NoWalk.path) = 0 /\ NoWalk.path = <<>>
    BY <1>1 DEF NoWalk, Walk
<1>3. NoHunt \in Hunt
    BY <1>1 DEF NoHunt, Hunt
<1> QED
    BY <1>1, <1>2, <1>3

(* The locals of a command that is over. *)
LEMMA OverFinish ==
    ASSUME Finish \/ Stop("halted") \/ Stop("crashed") \/ Stop("no_shell"),
           vol' \in VolumeType, cwd' \in Clusters, cwdName' \in AnyName
    PROVE  ShellType'
<1>1. pc' \in Pcs /\ pc' # "scan" /\ pc' # "moving" /\ walk' = NoWalk /\ hunt' = NoHunt /\ stack' = <<>>
      /\ victim' = NoName
    BY DEF Finish, Stop, Pcs
<1> QED
    BY <1>1, NoLocals DEF ShellType

LEMMA ShellInitType == Init => ShellType
<1> SUFFICES ASSUME Init PROVE ShellType
    OBVIOUS
<1>1. vol \in VolumeType
    <2> DEFINE rootTable == [ZeroTable EXCEPT ![0] = Folder(RootName, Root),
                                 ![1] = Folder(RootName, Root), ![2] = File(ShellName, FALSE, 3),
                                 ![3] = File(Program, TRUE, 4)]
               tab == [c \in Clusters |-> IF c = Root THEN rootTable
                                          ELSE IF c \in {0, 3, 4} THEN Bytes ELSE ZeroTable]
    <2>1. Folder(RootName, Root) \in Entry /\ File(ShellName, FALSE, 3) \in Entry
          /\ File(Program, TRUE, 4) \in Entry
        BY EntryType, Sizes, NamesDiffer
    <2>2. rootTable \in Table
        BY <2>1, EntryType DEF Table
    <2>3. tab \in [Clusters -> Table]
        BY <2>2, EntryType
    <2>4. 5 .. LastCluster \subseteq Clusters
        BY Sizes DEF Clusters
    <2>5. vol = [tab |-> tab, free |-> 5 .. LastCluster]
        BY DEF Init
    <2> HIDE DEF tab
    <2> QED
        BY <2>3, <2>4, <2>5 DEF VolumeType
<1> QED
    BY <1>1, NoLocals, Sizes, NamesDiffer DEF Init, ShellType, Pcs

LEMMA TableEntry ==
    ASSUME NEW t \in Table, NEW i \in Index
    PROVE  t[i] \in Entry /\ t[i].first \in Clusters /\ t[i].name \in AnyName
<1>1. t[i] \in Entry
    BY DEF Table
<1> QED
    BY <1>1, EntryType

LEMMA ClimbedType ==
    ASSUME ShellType, Len(walk.path) < PathMax
    PROVE  Climbed(walk) \in Walk /\ Len(Climbed(walk).path) <= PathMax
<1> PICK t : t = IF ReadDirectory(vol, walk.cur, walk.name).rc = 0
                 THEN ReadDirectory(vol, walk.cur, walk.name).table ELSE walk.table
    OBVIOUS
<1>1. walk.cur \in Clusters /\ walk.name \in AnyName /\ walk.table \in Table
      /\ walk.path \in Seq(AnyName) /\ vol \in VolumeType
    BY DEF ShellType, Walk
<1>2. t \in Table
    BY <1>1, ReadType
<1>3. t[1].first \in Clusters /\ t[1].name \in AnyName
    BY <1>2, TableEntry, Sizes
<1>4. Climbed(walk) = [cur |-> t[1].first, name |-> t[1].name, table |-> t,
                       path |-> Append(walk.path, walk.name)]
    BY DEF Climbed
<1>5. Append(walk.path, walk.name) \in Seq(AnyName)
      /\ Len(Append(walk.path, walk.name)) = Len(walk.path) + 1
    BY <1>1
<1> QED
    BY <1>1, <1>2, <1>3, <1>4, <1>5, NoLocals DEF Walk

LEMMA PromptType ==
    ASSUME ShellType, Prompt \/ ClimbCwd \/ ShowCwd \/ ClimbFind \/ ShowFind \/ Answer
    PROVE  ShellType'
<1> USE DEF ShellType
<1> DEFINE Begin(c, n) == [cur |-> c, name |-> n, table |-> ZeroTable, path |-> <<>>]
<1>1. ASSUME NEW c \in Clusters, NEW n \in AnyName
      PROVE  Begin(c, n) \in Walk /\ Len(Begin(c, n).path) <= PathMax
    BY EntryType, NoLocals DEF Walk
<1>2. CASE Prompt
    <2>1. CASE cwd = Root
        BY <1>2, <2>1 DEF Prompt, Pcs
    <2>2. CASE cwd # Root
        <3>1. walk' = Begin(cwd, cwdName) /\ pc' = "climb"
              /\ UNCHANGED <<vol, cwd, cwdName, hunt, stack, victim>>
            BY <1>2, <2>2 DEF Prompt
        <3> QED
            BY <1>1, <3>1 DEF Pcs
    <2> QED
        BY <2>1, <2>2
<1>3. CASE ClimbCwd \/ ClimbFind
    <2>1. CASE Len(walk.path) < PathMax
        <3>1. walk' = Climbed(walk) /\ UNCHANGED <<vol, cwd, cwdName, pc, hunt, stack, victim>>
            BY <1>3, <2>1 DEF ClimbCwd, ClimbFind
        <3> QED
            BY <2>1, <3>1, ClimbedType
    <2>2. CASE ~(Len(walk.path) < PathMax)
        BY <1>3, <2>2, OverFinish DEF ClimbCwd, ClimbFind
    <2> QED
        BY <2>1, <2>2
<1>4. CASE ShowCwd
    <2>1. walk.path \in Seq(AnyName)
        BY DEF Walk
    <2>2. walk' = [NoWalk EXCEPT !.path = ReversePath(walk.path)] /\ pc' = "line"
          /\ UNCHANGED <<vol, cwd, cwdName, hunt, stack, victim>>
        BY <1>4 DEF ShowCwd
    <2>3. ReversePath(walk.path) \in Seq(AnyName) /\ Len(ReversePath(walk.path)) <= PathMax
        BY <2>1, ReverseIs, NoLocals
    <2>4. walk' \in Walk /\ Len(walk'.path) <= PathMax
        BY <2>2, <2>3, NoLocals DEF Walk
    <2> QED
        BY <2>2, <2>4 DEF Pcs
<1>5. CASE ShowFind
    BY <1>5, OverFinish DEF ShowFind
<1>6. CASE Answer
    <2>1. CASE hunt.code = 1 \/ ~hunt.check \/ hunt.at = Root
        BY <1>6, <2>1, OverFinish DEF Answer
    <2>2. CASE ~(hunt.code = 1 \/ ~hunt.check \/ hunt.at = Root)
        <3>1. walk' = Begin(hunt.at, hunt.atName) /\ pc' = "climb_find"
              /\ UNCHANGED <<vol, cwd, cwdName, hunt, stack, victim>>
            BY <1>6, <2>2 DEF Answer
        <3>2. hunt.at \in Clusters /\ hunt.atName \in AnyName
            BY DEF Hunt
        <3> QED
            BY <1>1, <3>1, <3>2 DEF Pcs
    <2> QED
        BY <2>1, <2>2
<1> QED
    BY <1>2, <1>3, <1>4, <1>5, <1>6

LEMMA CommandType ==
    ASSUME ShellType, Line \/ MvRemove \/ Boot
    PROVE  ShellType'
<1>1. vol \in VolumeType /\ cwd \in Clusters /\ cwdName \in AnyName
    BY DEF ShellType
<1>2. Here.table \in Table
    BY <1>1, ReadType DEF Here
<1>3. ASSUME NEW i \in Index, GoTo(Here.table[i])
      PROVE  cwd' \in Clusters /\ cwdName' \in AnyName
    BY <1>2, <1>3, TableEntry DEF GoTo
<1>4. CASE CdParent
    <2>1. cwd' \in Clusters /\ cwdName' \in AnyName
        BY <1>1, <1>3, <1>4, Sizes DEF CdParent
    <2> QED
        BY <1>1, <1>4, <2>1, OverFinish DEF CdParent
<1>5. ASSUME NEW n \in Typed, Cd(n) PROVE ShellType'
    <2> PICK hits : hits = {i \in Index : Here.table[i].name = n}
        OBVIOUS
    <2>1. hits # {} => Min(hits) \in Index
        <3>1. hits \subseteq Nat
            BY Sizes
        <3> QED
            BY <3>1, LeastIs
    <2>2. cwd' \in Clusters /\ cwdName' \in AnyName
        <3>1. CASE Here.rc = 0 /\ hits # {} /\ Here.table[Min(hits)].dir
            <4>1. GoTo(Here.table[Min(hits)])
                BY <1>5, <3>1 DEF Cd
            <4> QED
                BY <1>3, <2>1, <3>1, <4>1
        <3>2. CASE ~(Here.rc = 0 /\ hits # {} /\ Here.table[Min(hits)].dir)
            BY <1>1, <1>5, <3>2 DEF Cd
        <3> QED
            BY <3>1, <3>2
    <2> QED
        BY <1>1, <1>5, <2>2, OverFinish DEF Cd
<1>6. ASSUME NEW n \in Typed, Mkdir(n) PROVE ShellType'
    <2>1. WriteFolder(vol, cwd, n, cwdName).vol \in VolumeType
        <3>1. HasRoom(vol, cwd, n, FALSE)
            BY <1>6 DEF Mkdir
        <3> QED
            BY <1>1, <3>1, WriteFolderEffect, NamesDiffer
    <2> QED
        BY <1>1, <1>6, <2>1, OverFinish DEF Mkdir
<1>7. CASE Ls
    BY <1>1, <1>7, OverFinish DEF Ls
<1>8. ASSUME NEW n \in Typed, NEW e \in BOOLEAN, Rm(n, e) \/ Cat(n, e) PROVE ShellType'
    <2>1. Delete(vol, cwd, n, e).vol \in VolumeType
        BY <1>1, DeleteEffect
    <2>2. vol' \in VolumeType /\ cwd' = cwd /\ cwdName' = cwdName
          /\ (Finish \/ Stop("halted"))
        BY <1>1, <1>8, <2>1 DEF Rm, Cat
    <2> QED
        BY <1>1, <2>2, OverFinish
<1>9. ASSUME NEW n, NEW e, <<n, e>> \in Sought, Find(n, e) PROVE ShellType'
    <2>1. n \in Names /\ e \in BOOLEAN
        BY <1>9, ShellAssumption
    <2>2. hunt' = [NoHunt EXCEPT !.name = n, !.ext = e, !.atName = RootName] /\ pc' = "dfs"
          /\ UNCHANGED <<vol, cwd, cwdName, walk, stack, victim>>
        BY <1>9 DEF Find
    <2>3. hunt' \in Hunt
        BY <2>1, <2>2, NoLocals, NamesDiffer DEF Hunt
    <2> QED
        BY <2>2, <2>3 DEF ShellType, Pcs
<1>10. ASSUME NEW n \in Typed, NEW m \in Typed, Cp(n, m) \/ Mv(n, m) PROVE ShellType'
    <2>1. n \in Names /\ m \in Names
        BY NamesDiffer
    <2>2. vol' \in VolumeType
        <3>1. CASE NoTarget(m)
            BY <1>1, <1>10, <3>1 DEF Cp, Mv
        <3>2. CASE ~NoTarget(m)
            <4>1. PICK c \in Source(Here.table, n) : vol' = Update(vol, Target(m), n, c).vol
                BY <1>10, <3>2 DEF Cp, Mv
            <4>2. ASSUME NEW k \in Names, Named(Here.table, k) # {}
                  PROVE  Here.table[Min(Named(Here.table, k))].first \in Clusters
                <5>1. Named(Here.table, k) \subseteq Nat
                    BY Sizes DEF Named
                <5>2. Min(Named(Here.table, k)) \in Index
                    BY <4>2, <5>1, LeastIs, Sizes DEF Named
                <5> QED
                    BY <1>2, <5>2, TableEntry
            <4>3. Target(m) \in Clusters
                BY <2>1, <3>2, <4>2 DEF NoTarget, Target
            <4>4. c \in Clusters
                BY <2>1, <4>1, <4>2, ShellAssumption DEF Source
            <4> QED
                BY <1>1, <2>1, <4>1, <4>3, <4>4, UpdateEffect
        <3> QED
            BY <3>1, <3>2
    <2>3. cwd' = cwd /\ cwdName' = cwdName
        BY <1>10 DEF Cp, Mv
    <2>4. \/ Finish
          \/ pc' = "moving" /\ victim' = n /\ UNCHANGED <<walk, hunt, stack>>
        BY <1>10 DEF Cp, Mv
    <2>5. CASE Finish
        BY <1>1, <2>2, <2>3, <2>5, OverFinish
    <2>6. CASE pc' = "moving" /\ victim' = n /\ UNCHANGED <<walk, hunt, stack>>
        BY <2>2, <2>3, <2>6 DEF ShellType, Pcs
    <2> QED
        BY <2>4, <2>5, <2>6
<1>11. CASE MvRemove
    <2>1. Delete2(vol, cwd, victim).vol \in VolumeType
        BY <1>1, Delete2Effect
    <2>2. vol' \in VolumeType /\ cwd' = cwd /\ cwdName' = cwdName
          /\ (Finish \/ Stop("halted"))
        BY <1>11, <2>1 DEF MvRemove
    <2> QED
        BY <1>1, <2>2, OverFinish
<1>12. CASE Boot
    <2>1. WriteFile(vol, Root, Program, TRUE).vol \in VolumeType
        <3>1. HasRoom(vol, Root, Program, TRUE)
            BY <1>12 DEF Boot
        <3> QED
            BY <1>1, <3>1, WriteFileEffect, Sizes, NamesDiffer
    <2>2. vol' \in VolumeType /\ cwd' = Root /\ cwdName' = RootName
          /\ (Finish \/ Stop("no_shell"))
        BY <1>1, <1>12, <2>1 DEF Boot
    <2> QED
        BY <2>2, OverFinish, Sizes, NamesDiffer
<1> QED
    BY <1>4, <1>5, <1>6, <1>7, <1>8, <1>9, <1>10, <1>11, <1>12 DEF Line

LEMMA LeaveType ==
    ASSUME ShellType, NEW h \in Hunt, Leave(h)
    PROVE  hunt' \in Hunt /\ stack' \in Seq(Frame) /\ pc' \in Pcs /\ (pc' = "scan" => stack' # <<>>)
<1> PICK n : n = Len(stack)
    OBVIOUS
<1>1. stack \in Seq(Frame) /\ n \in Nat
    BY DEF ShellType
<1>2. CASE n <= 1 \/ h.check \/ h.code = 1
    BY <1>2, NoLocals DEF Leave, Pcs
<1>3. CASE ~(n <= 1 \/ h.check \/ h.code = 1)
    <2>1. hunt' = h /\ stack' = SubSeq(stack, 1, n - 1) /\ pc' = "scan"
        BY <1>3 DEF Leave, Front
    <2>2. SubSeq(stack, 1, n - 1) \in Seq(Frame) /\ Len(SubSeq(stack, 1, n - 1)) = n - 1
        BY <1>1, <1>3
    <2>3. n - 1 # 0
        BY <1>1, <1>3
    <2> QED
        BY <2>1, <2>2, <2>3 DEF Pcs
<1> QED
    BY <1>2, <1>3

LEMMA TopType ==
    ASSUME ShellType, pc = "scan"
    PROVE  /\ Len(stack) \in Nat /\ Len(stack) >= 1 /\ Top \in Frame
           /\ Top.table \in Table /\ Top.next \in 2 .. TableSize
<1>1. stack \in Seq(Frame) /\ stack # <<>>
    BY DEF ShellType
<1>2. Len(stack) \in Nat /\ Len(stack) >= 1
    BY <1>1
<1>3. Top \in Frame
    BY <1>1, <1>2 DEF Top
<1> QED
    BY <1>2, <1>3 DEF Frame

(* The entry that the loop of dfs comes to: the first in use from next on. *)
LEMMA NextIs ==
    ASSUME NEW f \in Frame, Rest(f) # {}, NEW i, i = Min(Rest(f))
    PROVE  /\ i \in Slots /\ i >= f.next /\ f.table[i].name # NoName
           /\ \A j \in f.next .. i - 1 : f.table[j].name = NoName
           /\ Passed(f) = [table |-> f.table, next |-> i + 1] /\ Passed(f) \in Frame
<1>1. f.next \in 2 .. TableSize /\ f.table \in Table
    BY DEF Frame
<1>2. Rest(f) \subseteq Nat
    BY <1>1, Sizes DEF Rest
<1>3. i \in Rest(f) /\ \A j \in Rest(f) : i <= j
    BY <1>2, LeastIs
<1>4. i \in f.next .. TableSize - 1 /\ f.table[i].name # NoName
    BY <1>3 DEF Rest
<1>5. i \in Slots /\ i >= f.next /\ i + 1 \in 2 .. TableSize
    BY <1>1, <1>4, Sizes DEF Slots
<1>6. ASSUME NEW j \in f.next .. i - 1, f.table[j].name # NoName PROVE FALSE
    <2>1. j \in f.next .. TableSize - 1 /\ ~(i <= j)
        BY <1>1, <1>4, Sizes
    <2>2. j \in Rest(f)
        BY <1>6, <2>1 DEF Rest
    <2> QED
        BY <1>3, <2>1, <2>2
<1>7. Passed(f) = [table |-> f.table, next |-> i + 1]
    BY DEF Passed, Frame
<1> QED
    BY <1>1, <1>4, <1>5, <1>6, <1>7 DEF Frame

LEMMA DfsType ==
    ASSUME ShellType, DfsEnter \/ DfsScan \/ DfsScanned
    PROVE  ShellType'
<1>1. vol' \in VolumeType /\ cwd' \in Clusters /\ cwdName' \in AnyName /\ walk' \in Walk
      /\ Len(walk'.path) <= PathMax /\ victim' \in Typed \cup {NoName}
    BY DEF ShellType, DfsEnter, DfsScan, DfsScanned
<1>2. hunt \in Hunt /\ stack \in Seq(Frame) /\ pc \in Pcs /\ vol \in VolumeType
    BY DEF ShellType
<1>3. pc' # "moving"
    BY DEF DfsEnter, DfsScan, DfsScanned, Leave
<1> SUFFICES hunt' \in Hunt /\ stack' \in Seq(Frame) /\ pc' \in Pcs
             /\ (pc' = "scan" => stack' # <<>>)
    BY <1>1, <1>3 DEF ShellType
<1>4. CASE DfsEnter
    <2> PICK same : same = StartsWith(hunt.name, hunt.atName)
        OBVIOUS
    <2> PICK seen : seen = [hunt EXCEPT !.check = @ \/ same, !.kind = IF same THEN "dir" ELSE @]
        OBVIOUS
    <2> PICK r : r = ReadDirectory(vol, hunt.at, hunt.atName)
        OBVIOUS
    <2>1. seen \in Hunt /\ [seen EXCEPT !.code = 1] \in Hunt
        <3>1. (hunt.check \/ same) \in BOOLEAN
            BY DEF StartsWith
        <3> QED
            BY <1>2, <3>1 DEF Hunt
    <2>2. r.table \in Table
        BY <1>2, ReadType DEF Hunt
    <2>3. \/ Leave([seen EXCEPT !.code = 1])
          \/ hunt' = seen /\ pc' = "scan" /\ stack' = Append(stack, [table |-> r.table, next |-> 2])
        BY <1>4 DEF DfsEnter
    <2>4. CASE hunt' = seen /\ pc' = "scan" /\ stack' = Append(stack, [table |-> r.table, next |-> 2])
        <3>1. [table |-> r.table, next |-> 2] \in Frame
            BY <2>2, Sizes DEF Frame
        <3>2. stack' \in Seq(Frame) /\ stack' # <<>>
            BY <1>2, <2>4, <3>1
        <3> QED
            BY <2>1, <2>4, <3>2 DEF Pcs
    <2> QED
        BY <2>1, <2>3, <2>4, LeaveType
<1>5. CASE DfsScan
    <2> PICK f : f = Top
        OBVIOUS
    <2> PICK i : i = Min(Rest(f))
        OBVIOUS
    <2> PICK x : x = f.table[i]
        OBVIOUS
    <2>1. pc = "scan" /\ Rest(f) # {}
        BY <1>5 DEF DfsScan
    <2>2. Len(stack) \in Nat /\ Len(stack) >= 1 /\ f \in Frame /\ f.table \in Table
        BY <2>1, TopType
    <2>3. i \in Slots /\ Passed(f) \in Frame
        BY <2>1, <2>2, NextIs
    <2>4. x.first \in Clusters /\ x.name \in AnyName
        BY <2>2, <2>3, TableEntry, Sizes
    <2> PICK on : on = [stack EXCEPT ![Len(stack)] = Passed(f)]
        OBVIOUS
    <2>5. on \in Seq(Frame) /\ on # <<>>
        BY <1>2, <2>2, <2>3
    <2>6. \/ hunt' = [hunt EXCEPT !.at = x.first, !.atName = x.name] /\ pc' = "dfs" /\ stack' = on
          \/ Leave(InTable(f.table))
          \/ Leave(hunt)
          \/ stack' = on /\ UNCHANGED <<hunt, pc>>
        BY <1>5 DEF DfsScan
    <2>7. CASE hunt' = [hunt EXCEPT !.at = x.first, !.atName = x.name] /\ pc' = "dfs" /\ stack' = on
        BY <1>2, <2>4, <2>5, <2>7 DEF Hunt, Pcs
    <2>8. CASE Leave(InTable(f.table))
        <3>1. f.table[0].first \in Clusters /\ f.table[0].name \in AnyName
            BY <2>2, TableEntry, Sizes
        <3>2. InTable(f.table) \in Hunt
            BY <1>2, <3>1 DEF InTable, Hunt
        <3> QED
            BY <2>8, <3>2, LeaveType
    <2>9. CASE stack' = on /\ UNCHANGED <<hunt, pc>>
        BY <1>2, <2>5, <2>9
    <2> QED
        BY <1>2, <2>6, <2>7, <2>8, <2>9, LeaveType
<1>6. CASE DfsScanned
    BY <1>2, <1>6, LeaveType DEF DfsScanned
<1> QED
    BY <1>4, <1>5, <1>6

LEMMA ShellTypeHolds == Spec => []ShellType
<1>1. ShellType /\ [Next]_vars => ShellType'
    <2> SUFFICES ASSUME ShellType, [Next]_vars PROVE ShellType'
        OBVIOUS
    <2>1. CASE UNCHANGED vars
        BY <2>1 DEF vars, ShellType
    <2>2. CASE Next
        BY <2>2, PromptType, DfsType, CommandType DEF Next, Continue
    <2> QED
        BY <2>1, <2>2
<1> QED
    BY <1>1, ShellInitType, PTL DEF Spec

(* Whatever the user types, and whatever links cp and mv have made, every  *)
(* variable of the shell holds a value of its C type: the tables that cwd  *)
(* and dfs walk over are tables, a path never has more names than the      *)
(* array has room for, and dfs never stands past its table.                *)
THEOREM ShellTypeCorrect == Spec => []TypeOK
<1>1. ShellType => TypeOK
    <2> SUFFICES ASSUME ShellType PROVE TypeOK
        OBVIOUS
    <2>1. walk.cur \in Clusters /\ walk.table \in Table
        BY DEF ShellType, Walk
    <2>2. hunt.at \in Clusters /\ hunt.check \in BOOLEAN /\ hunt.kind \in {"none", "dir", "file"}
        BY DEF ShellType, Hunt
    <2>3. ASSUME NEW k \in 1 .. Len(stack)
          PROVE  stack[k].table \in Table /\ stack[k].next \in 2 .. TableSize
        <3>1. stack[k] \in Frame
            BY DEF ShellType
        <3> QED
            BY <3>1 DEF Frame
    <2>4. cwdName \in Names \cup {RootName, NoName, Junk}
        BY DEF ShellType, AnyName
    <2> QED
        BY <2>1, <2>2, <2>3, <2>4 DEF ShellType, TypeOK
<1> QED
    BY <1>1, ShellTypeHolds, PTL

-----------------------------------------------------------------------------
(* What a command does to the volume *)

Links == \E x \in {"cp", "mv"} : x \in Commands

Unlinked(n, w) ==
    \E i \in Slots : /\ Deleted(vol, w, cwd, i) /\ StartsWith(vol.tab[cwd][i].name, n)
                     /\ pc # "moving" => w.free = vol.free \cup {vol.tab[cwd][i].first}

LEMMA VolumeSteps ==
    ASSUME ShellType, Line \/ Continue
    PROVE  \/ vol' = vol
           \/ /\ cwd' = cwd /\ cwdName' = cwdName
              /\ \/ \E n \in Typed, i \in Index, c \in vol.free :
                        /\ WriteError(vol, cwd, n, FALSE) = 0
                        /\ FolderMade(vol, vol', cwd, n, cwdName, i, c)
                 \/ \E n \in Typed : Unlinked(n, vol')
                 \/ Links /\ \E d \in Clusters, n \in Typed, c \in Clusters, i \in Index :
                                 LinkMade(vol, vol', d, n, c, i)
<1> PICK w : w = vol'
    OBVIOUS
<1>1. vol \in VolumeType /\ cwd \in Clusters /\ cwdName \in AnyName
    BY DEF ShellType
<1>2. Here.table \in Table
    BY <1>1, ReadType DEF Here
<1>3. ASSUME NEW n \in Typed, Mkdir(n)
      PROVE  /\ cwd' = cwd /\ cwdName' = cwdName
             /\ \/ w = vol
                \/ \E i \in Index, c \in vol.free : /\ WriteError(vol, cwd, n, FALSE) = 0
                                                    /\ FolderMade(vol, w, cwd, n, cwdName, i, c)
    <2>1. /\ w = WriteFolder(vol, cwd, n, cwdName).vol /\ HasRoom(vol, cwd, n, FALSE)
          /\ cwd' = cwd /\ cwdName' = cwdName
        BY <1>3 DEF Mkdir
    <2> QED
        BY <1>1, <2>1, WriteFolderEffect, NamesDiffer
<1>4. ASSUME NEW n \in Typed, NEW e \in BOOLEAN, Rm(n, e)
      PROVE  cwd' = cwd /\ cwdName' = cwdName /\ (w = vol \/ Unlinked(n, w))
    <2>1. cwd' = cwd /\ cwdName' = cwdName /\ (w = vol \/ w = Delete(vol, cwd, n, e).vol)
        BY <1>4 DEF Rm
    <2> QED
        BY <1>1, <2>1, DeleteEffect DEF Unlinked
<1>5. ASSUME NEW n \in Typed, NEW m \in Typed, Cp(n, m) \/ Mv(n, m)
      PROVE  /\ cwd' = cwd /\ cwdName' = cwdName
             /\ \/ w = vol
                \/ \E d \in Clusters, c \in Clusters, i \in Index : LinkMade(vol, w, d, n, c, i)
    <2>1. n \in Names /\ m \in Names
        BY NamesDiffer
    <2>2. cwd' = cwd /\ cwdName' = cwdName
        BY <1>5 DEF Cp, Mv
    <2>3. CASE NoTarget(m)
        BY <1>5, <2>2, <2>3 DEF Cp, Mv
    <2>4. CASE ~NoTarget(m)
        <3>1. PICK c \in Source(Here.table, n) : w = Update(vol, Target(m), n, c).vol
            BY <1>5, <2>4 DEF Cp, Mv
        <3>2. ASSUME NEW k \in Names, Named(Here.table, k) # {}
              PROVE  Here.table[Min(Named(Here.table, k))].first \in Clusters
            <4>1. Named(Here.table, k) \subseteq Nat
                BY Sizes DEF Named
            <4>2. Min(Named(Here.table, k)) \in Index
                BY <3>2, <4>1, LeastIs, Sizes DEF Named
            <4> QED
                BY <1>2, <4>2, TableEntry
        <3>3. Target(m) \in Clusters
            BY <2>1, <2>4, <3>2 DEF NoTarget, Target
        <3>4. c \in Clusters
            BY <2>1, <3>1, <3>2, ShellAssumption DEF Source
        <3> QED
            BY <1>1, <2>1, <2>2, <3>1, <3>3, <3>4, UpdateEffect
    <2> QED
        BY <2>3, <2>4
<1>6. ASSUME MvRemove
      PROVE  cwd' = cwd /\ cwdName' = cwdName /\ (w = vol \/ \E n \in Typed : Unlinked(n, w))
    <2>1. pc = "moving" /\ w = Delete2(vol, cwd, victim).vol /\ cwd' = cwd /\ cwdName' = cwdName
        BY <1>6 DEF MvRemove
    <2>2. victim \in Typed
        BY <2>1 DEF ShellType
    <2> QED
        BY <1>1, <2>1, <2>2, Delete2Effect DEF Unlinked
<1>7. CASE Line
    <2>1. ASSUME CdParent \/ Ls \/ (\E n \in Typed : Cd(n))
                 \/ \E n \in Names, e \in BOOLEAN : Cat(n, e) \/ Find(n, e)
          PROVE  w = vol
        BY <2>1 DEF CdParent, Ls, Cd, Cat, Find
    <2>2. \/ CdParent \/ Ls \/ (\E n \in Typed : Cd(n))
          \/ \E n \in Names, e \in BOOLEAN : Cat(n, e) \/ Find(n, e)
          \/ \E n \in Typed : Mkdir(n)
          \/ \E n \in Typed, e \in BOOLEAN : Rm(n, e)
          \/ Links /\ \E n, m \in Typed : Cp(n, m) \/ Mv(n, m)
        BY <1>7, NamesDiffer DEF Line, Links
    <2> QED
        BY <1>3, <1>4, <1>5, <2>1, <2>2
<1>8. CASE Continue
    <2>1. CASE ~MvRemove
        BY <1>8, <2>1 DEF Continue, Prompt, ClimbCwd, ShowCwd, DfsEnter, DfsScan, DfsScanned,
                          Answer, ClimbFind, ShowFind
    <2>2. CASE MvRemove
        BY <1>6, <2>2
    <2> QED
        BY <2>1, <2>2
<1> QED
    BY <1>7, <1>8

LEMMA CommandKeepsFull ==
    ASSUME ShellType, Line \/ Continue
    PROVE  FullFolderStays
<1> SUFFICES ASSUME NEW d \in Clusters, NEW i \in Slots,
                    vol.tab[d][i].used, vol.tab[d][i].dir,
                    InUse(vol.tab[vol.tab[d][i].first])
             PROVE  vol'.tab[d][i] = vol.tab[d][i]
    BY DEF FullFolderStays
<1>1. i \in Index /\ i # 0 /\ i # 1
    BY Sizes
<1>2. CASE vol' = vol
    BY <1>2
<1>3. ASSUME NEW n, NEW j \in Index, NEW c, FolderMade(vol, vol', cwd, n, cwdName, j, c)
      PROVE  vol'.tab[d][i] = vol.tab[d][i]
    BY <1>1, <1>3 DEF FolderMade
<1>4. ASSUME NEW n, Unlinked(n, vol') PROVE vol'.tab[d][i] = vol.tab[d][i]
    BY <1>1, <1>4 DEF Unlinked, Deleted, Removed
<1>5. ASSUME NEW e, NEW n, NEW c, NEW j, LinkMade(vol, vol', e, n, c, j)
      PROVE  vol'.tab[d][i] = vol.tab[d][i]
    BY <1>1, <1>5 DEF LinkMade
<1> QED
    BY <1>2, <1>3, <1>4, <1>5, VolumeSteps

(* No command - not rm, not mv, not a mv whose copy failed - removes the   *)
(* entry of a directory that has entries, whatever links cp and mv have    *)
(* made, in any directory and under any name.                              *)
THEOREM CommandsKeepFullCorrect == Spec => CommandsKeepFull
<1>1. ASSUME ShellType PROVE [Line \/ Continue => FullFolderStays]_vars
    BY <1>1, CommandKeepsFull
<1> QED
    BY <1>1, ShellTypeHolds, PTL DEF CommandsKeepFull

-----------------------------------------------------------------------------
(* What every sequence of commands keeps *)

SlotsIn(v) ==
    \A d \in Clusters, i \in Slots :
        /\ v.tab[d][i].used => v.tab[d][i].name \in Names
        /\ ~v.tab[d][i].used => v.tab[d][i].name \in {NoName, Junk} /\ ~v.tab[d][i].dir
        /\ v.tab[d][i].used /\ ~v.tab[d][i].dir => d = Root /\ v.tab[d][i].first # Root

RootIn(v, d) ==
    /\ Root \notin v.free
    /\ v.tab[Root][0] = Folder(RootName, Root) /\ v.tab[Root][1] = Folder(RootName, Root)
    /\ (\E i \in Slots : v.tab[Root][i].used) \/ d = Root

LEMMA SlotsIs == SlotsInv <=> SlotsIn(vol) /\ RootIn(vol, cwd)
    BY DEF SlotsInv, CleanSlots, FilesInRoot, RootStays, SlotsIn, RootIn, InUse

LEMMA SlotsIsNext == SlotsInv' <=> SlotsIn(vol') /\ RootIn(vol', cwd')
    BY DEF SlotsInv, CleanSlots, FilesInRoot, RootStays, SlotsIn, RootIn, InUse

(* The entries of the two files. *)
ShellFile == File(ShellName, FALSE, 3)
ProgramFile(c) == File(Program, TRUE, c)

LEMMA MadeIs ==
    /\ \A n, c : /\ Folder(n, c).used /\ Folder(n, c).dir /\ Folder(n, c).name = n
                 /\ Folder(n, c).first = c /\ Folder(n, c).ext = FALSE
    /\ \A c : /\ ProgramFile(c).used /\ ~ProgramFile(c).dir
              /\ ProgramFile(c).name = Program /\ ProgramFile(c).first = c
    /\ ShellFile.used /\ ~ShellFile.dir /\ ShellFile.name = ShellName /\ ShellFile.first = 3
    /\ ~Cleared.used /\ ~Cleared.dir /\ Cleared.name = NoName
    /\ ~Byte.used /\ ~Byte.dir /\ Byte.name = Junk
    BY DEF Folder, File, Cleared, Byte, ProgramFile, ShellFile

(* An entry that mkdir, cp or mv writes. *)
LEMMA SlotsAfterFolder ==
    ASSUME SlotsIn(vol), RootIn(vol, cwd), vol \in VolumeType,
           NEW w, NEW d \in Clusters, NEW i \in Index, NEW c \in Clusters, NEW n \in Typed,
           NEW up,
           \/ c \in vol.free /\ FolderMade(vol, w, d, n, up, i, c)
           \/ LinkMade(vol, w, d, n, c, i)
    PROVE  SlotsIn(w) /\ RootIn(w, cwd)
<1>1. n \in Names
    BY NamesDiffer
<1>2. /\ Slots \subseteq Index /\ 0 \notin Slots /\ 1 \notin Slots
      /\ Root \in Clusters /\ 0 \in Index /\ 1 \in Index
    BY Sizes
<1>3. w.free \subseteq vol.free
    BY DEF FolderMade, LinkMade
<1>4. \A e \in Clusters, j \in Slots :
          w.tab[e][j] = IF e = d /\ j = i THEN Folder(n, c) ELSE vol.tab[e][j]
    BY <1>2 DEF FolderMade, LinkMade
<1>5. ~vol.tab[d][i].used
    BY DEF FolderMade, LinkMade
<1>6. SlotsIn(w)
    BY <1>1, <1>4, MadeIs DEF SlotsIn
<1>7. \A j \in {0, 1} : w.tab[Root][j] = Folder(RootName, Root)
    <2>1. vol.tab[Root][0].used /\ vol.tab[Root][1].used
        BY MadeIs DEF RootIn
    <2>2. ~(d = Root /\ i \in {0, 1})
        BY <1>5, <2>1
    <2>3. c \in vol.free => c # Root
        BY DEF RootIn
    <2>4. \A j \in {0, 1} : w.tab[Root][j] = vol.tab[Root][j]
        BY <1>2, <2>2, <2>3 DEF FolderMade, LinkMade
    <2> QED
        BY <2>4 DEF RootIn
<1>8. (\E j \in Slots : vol.tab[Root][j].used) => \E j \in Slots : w.tab[Root][j].used
    BY <1>2, <1>4, MadeIs
<1> QED
    BY <1>3, <1>6, <1>7, <1>8 DEF RootIn

(* rm and mv remove an entry in use, and never the root's. *)
LEMMA UnlinkedIs ==
    ASSUME SlotsIn(vol), RootIn(vol, cwd), ShellType,
           NEW w, NEW n \in Typed, NEW i \in Slots,
           Deleted(vol, w, cwd, i), StartsWith(vol.tab[cwd][i].name, n)
    PROVE  /\ vol.tab[cwd][i].used
           /\ vol.tab[cwd][i].first # Root /\ vol.tab[cwd][i].first # cwd
<1> PICK x : x = vol.tab[cwd][i]
    OBVIOUS
<1>1. x.name \in Names
    BY NamesDiffer DEF StartsWith
<1>2. cwd \in Clusters
    BY DEF ShellType
<1>3. x.used
    BY <1>1, <1>2, NamesDiffer DEF SlotsIn
<1>4. ASSUME x.dir, NEW d \in Clusters, d = x.first, \E j \in Slots : vol.tab[d][j].used
      PROVE  FALSE
    BY <1>4 DEF Deleted, InUse
<1>5. CASE x.dir
    <2>1. x.first # cwd
        BY <1>2, <1>3, <1>4, <1>5
    <2>2. x.first # Root
        BY <1>2, <1>3, <1>4, <1>5, <2>1, Sizes DEF RootIn
    <2> QED
        BY <1>3, <2>1, <2>2
<1>6. CASE ~x.dir
    <2>1. cwd = Root /\ x.first # Root
        BY <1>2, <1>3, <1>6 DEF SlotsIn
    <2> QED
        BY <1>3, <2>1
<1> QED
    BY <1>5, <1>6

LEMMA SlotsAfterRemoval ==
    ASSUME SlotsIn(vol), RootIn(vol, cwd), ShellType, NEW n \in Typed, NEW w, Unlinked(n, w)
    PROVE  SlotsIn(w) /\ RootIn(w, cwd)
<1>1. PICK i \in Slots : Deleted(vol, w, cwd, i) /\ StartsWith(vol.tab[cwd][i].name, n)
    BY DEF Unlinked
<1> PICK x : x = vol.tab[cwd][i]
    OBVIOUS
<1>2. x.used /\ x.first # Root /\ x.first # cwd
    BY <1>1, UnlinkedIs
<1>3. /\ cwd \in Clusters /\ Slots \subseteq Index /\ 0 \notin Slots /\ 1 \notin Slots
      /\ Root \in Clusters /\ 0 \in Index /\ 1 \in Index
    BY Sizes DEF ShellType
<1>4. \A e \in Clusters, j \in Slots :
          w.tab[e][j] = IF e = cwd /\ j = i THEN Cleared ELSE vol.tab[e][j]
    BY <1>1, <1>3 DEF Deleted, Removed
<1>5. SlotsIn(w)
    BY <1>4, MadeIs DEF SlotsIn
<1>6. \A j \in {0, 1} : w.tab[Root][j] = vol.tab[Root][j]
    BY <1>1, <1>2, <1>3 DEF Deleted, Removed
<1>7. Root \notin w.free
    BY <1>1, <1>2 DEF Deleted, RootIn
<1>8. (\E j \in Slots : w.tab[Root][j].used) \/ cwd = Root
    <2> SUFFICES ASSUME cwd # Root PROVE \E j \in Slots : w.tab[Root][j].used
        OBVIOUS
    <2>1. PICK j \in Slots : vol.tab[Root][j].used
        BY DEF RootIn
    <2> QED
        BY <1>3, <1>4, <2>1
<1> QED
    BY <1>5, <1>6, <1>7, <1>8 DEF RootIn

LEMMA ReadIs ==
    ASSUME NEW v, NEW d, NEW n, ReadDirectory(v, d, n).rc = 0
    PROVE  \E i \in Index :
               /\ StartsWith(v.tab[d][i].name, n) /\ v.tab[d][i].dir /\ v.tab[d][0].dir
               /\ \A j \in Index : j < i => ~StartsWith(v.tab[d][j].name, n)
               /\ ReadDirectory(v, d, n).table = v.tab[v.tab[d][i].first]
<1> PICK hits : hits = {i \in Index : StartsWith(v.tab[d][i].name, n)}
    OBVIOUS
<1> PICK i : i = Min(hits)
    OBVIOUS
<1>1. /\ hits # {} /\ v.tab[d][i].dir /\ v.tab[d][0].dir
      /\ ReadDirectory(v, d, n).table = v.tab[v.tab[d][i].first]
    BY DEF ReadDirectory
<1>2. hits \subseteq Nat /\ Index \subseteq Nat
    BY Sizes
<1>3. i \in hits /\ \A j \in hits : i <= j
    BY <1>1, <1>2, LeastIs
<1>4. i \in Index /\ StartsWith(v.tab[d][i].name, n)
    BY <1>3
<1>5. ASSUME NEW j \in Index, j < i PROVE ~StartsWith(v.tab[d][j].name, n)
    <2>1. ~(i <= j)
        BY <1>2, <1>4, <1>5
    <2> QED
        BY <1>3, <2>1
<1> QED
    BY <1>1, <1>4, <1>5

(* In an empty root, cd stays where it is. *)
LEMMA CdInEmptyRoot ==
    ASSUME SlotsIn(vol), RootIn(vol, cwd), \A i \in Slots : ~vol.tab[Root][i].used,
           CdParent \/ \E n \in Typed : Cd(n)
    PROVE  cwd' = Root
<1>1. cwd = Root
    BY DEF RootIn
<1>2. \A i \in Slots : vol.tab[Root][i].name \in {NoName, Junk} /\ ~vol.tab[Root][i].dir
    BY Sizes DEF SlotsIn
<1>3. CASE Here.rc = 0
    <2>1. PICK i \in Index : vol.tab[Root][i].dir /\ Here.table = vol.tab[vol.tab[Root][i].first]
        BY <1>1, <1>3, ReadIs DEF Here
    <2>2. i = 0 \/ i = 1
        BY <1>2, <2>1, Sizes
    <2>3. vol.tab[Root][i].first = Root
        BY <2>2, MadeIs DEF RootIn
    <2>4. Here.table = vol.tab[Root]
        BY <2>1, <2>3
    <2>5. vol.tab[Root][1].first = Root
        BY MadeIs DEF RootIn
    <2>6. ASSUME NEW n \in Typed, NEW j \in Index PROVE vol.tab[Root][j].name # n
        <3>1. vol.tab[Root][0].name = RootName /\ vol.tab[Root][1].name = RootName
            BY MadeIs DEF RootIn
        <3>2. n \in Names /\ n # RootName /\ n # NoName /\ n # Junk
            BY NamesDiffer
        <3> QED
            BY <1>2, <3>1, <3>2, Sizes
    <2>7. CASE CdParent
        BY <1>3, <2>4, <2>5, <2>7 DEF CdParent, GoTo
    <2>8. ASSUME NEW n \in Typed, Cd(n) PROVE cwd' = Root
        <3>1. {j \in Index : Here.table[j].name = n} = {}
            BY <2>4, <2>6
        <3> QED
            BY <1>1, <2>8, <3>1 DEF Cd
    <2> QED
        BY <2>7, <2>8
<1>4. CASE Here.rc # 0
    BY <1>1, <1>4 DEF CdParent, Cd
<1> QED
    BY <1>3, <1>4

LEMMA SlotsAfterBoot ==
    ASSUME SlotsIn(vol), RootIn(vol, cwd), vol \in VolumeType, Boot
    PROVE  SlotsIn(vol') /\ RootIn(vol', Root)
<1> PICK w : w = vol'
    OBVIOUS
<1> SUFFICES SlotsIn(w) /\ RootIn(w, Root)
    OBVIOUS
<1>1. \/ w = vol
      \/ w = WriteFile(vol, Root, Program, TRUE).vol /\ HasRoom(vol, Root, Program, TRUE)
    BY DEF Boot
<1>2. CASE w = vol
    BY <1>2 DEF RootIn
<1>3. CASE w # vol
    <2>1. PICK i \in Index, c \in vol.free : FileMade(vol, w, Root, Program, TRUE, i, c)
        BY <1>1, <1>3, WriteFileEffect, Sizes, NamesDiffer
    <2>2. /\ c \in Clusters /\ c # Root /\ Program \in Names
          /\ Slots \subseteq Index /\ Root \in Clusters /\ 0 \in Index /\ 1 \in Index
        BY <2>1, VolumeTypes, Sizes, NamesDiffer DEF RootIn
    <2>3. ~vol.tab[Root][i].used /\ vol.tab[Root][0].used /\ vol.tab[Root][1].used
        BY <2>1, MadeIs DEF FileMade, RootIn
    <2>4. w.tab[Root][0] = vol.tab[Root][0] /\ w.tab[Root][1] = vol.tab[Root][1]
        BY <2>1, <2>2, <2>3 DEF FileMade
    <2>5. Root \notin w.free
        BY <2>1 DEF FileMade, RootIn
    <2>6. \A e \in Clusters, j \in Slots :
              w.tab[e][j] = IF e = c THEN Byte
                            ELSE IF e = Root /\ j = i THEN ProgramFile(c)
                            ELSE vol.tab[e][j]
        BY <2>1, <2>2 DEF FileMade, ProgramFile
    <2>7. ASSUME NEW d \in Clusters, NEW j \in Slots, NEW x, x = w.tab[d][j]
          PROVE  /\ x.used => x.name \in Names
                 /\ ~x.used => x.name \in {NoName, Junk} /\ ~x.dir
                 /\ x.used /\ ~x.dir => d = Root /\ x.first # Root
        <3>1. CASE d = c
            <4>1. x = Byte
                BY <2>6, <2>7, <3>1
            <4> QED
                BY <4>1, MadeIs
        <3>2. CASE d # c /\ d = Root /\ j = i
            <4>1. x = ProgramFile(c)
                BY <2>6, <2>7, <3>2
            <4> QED
                BY <2>2, <3>2, <4>1, MadeIs
        <3>3. CASE d # c /\ ~(d = Root /\ j = i)
            <4>1. x = vol.tab[d][j]
                BY <2>6, <2>7, <3>3
            <4> QED
                BY <4>1 DEF SlotsIn
        <3> QED
            BY <3>1, <3>2, <3>3
    <2>8. SlotsIn(w)
        BY <2>7 DEF SlotsIn
    <2> QED
        BY <2>4, <2>5, <2>8 DEF RootIn
<1> QED
    BY <1>2, <1>3

LEMMA InitTables ==
    ASSUME Init
    PROVE  /\ \A d \in Clusters, i \in Index :
                  \/ d = Root /\ i \in {0, 1} /\ vol.tab[d][i] = Folder(RootName, Root)
                  \/ d = Root /\ i = 2 /\ vol.tab[d][i] = ShellFile
                  \/ d = Root /\ i = 3 /\ vol.tab[d][i] = ProgramFile(4)
                  \/ d = Root /\ i \notin {0, 1, 2, 3} /\ vol.tab[d][i] = Cleared
                  \/ d \in {0, 3, 4} /\ vol.tab[d][i] = Byte
                  \/ d \notin {Root, 0, 3, 4} /\ vol.tab[d][i] = Cleared
           /\ vol.free = 5 .. LastCluster /\ cwd = Root /\ cwdName = RootName
<1>1. ASSUME NEW d \in Clusters
      PROVE  vol.tab[d] = IF d = Root
                          THEN [ZeroTable EXCEPT ![0] = Folder(RootName, Root),
                                    ![1] = Folder(RootName, Root),
                                    ![2] = ShellFile,
                                    ![3] = ProgramFile(4)]
                          ELSE IF d \in {0, 3, 4} THEN Bytes ELSE ZeroTable
    BY DEF Init, ShellFile, ProgramFile
<1>2. ASSUME NEW i \in Index
      PROVE  ZeroTable[i] = Cleared /\ Bytes[i] = Byte
    BY DEF ZeroTable, Bytes, Byte
<1>3. ASSUME NEW i \in Index
      PROVE  vol.tab[Root][i] = IF i \in {0, 1} THEN Folder(RootName, Root)
                                ELSE IF i = 2 THEN ShellFile
                                ELSE IF i = 3 THEN ProgramFile(4) ELSE Cleared
    <2> PICK a, b, e : a = Folder(RootName, Root) /\ b = ShellFile
                       /\ e = ProgramFile(4)
        OBVIOUS
    <2>1. vol.tab[Root] = [ZeroTable EXCEPT ![0] = a, ![1] = a, ![2] = b, ![3] = e]
        BY <1>1, Sizes
    <2>2. vol.tab[Root][i] = IF i = 3 THEN e ELSE IF i = 2 THEN b ELSE IF i = 1 THEN a
                             ELSE IF i = 0 THEN a ELSE Cleared
        BY <2>1 DEF ZeroTable
    <2> QED
        BY <2>2
<1>4. ASSUME NEW d \in Clusters, NEW i \in Index, d # Root
      PROVE  vol.tab[d][i] = IF d \in {0, 3, 4} THEN Byte ELSE Cleared
    BY <1>1, <1>2, <1>4
<1>5. vol.free = 5 .. LastCluster /\ cwd = Root /\ cwdName = RootName
    BY DEF Init
<1>6. ASSUME NEW i \in Index
      PROVE  \/ i \in {0, 1} /\ vol.tab[Root][i] = Folder(RootName, Root)
             \/ i = 2 /\ vol.tab[Root][i] = ShellFile
             \/ i = 3 /\ vol.tab[Root][i] = ProgramFile(4)
             \/ i \notin {0, 1, 2, 3} /\ vol.tab[Root][i] = Cleared
    BY <1>3
<1> QED
    BY <1>4, <1>5, <1>6

LEMMA SlotsInit == Init => SlotsInv
<1> SUFFICES ASSUME Init PROVE SlotsIn(vol) /\ RootIn(vol, cwd)
    BY SlotsIs
<1>1. /\ Slots \subseteq Index /\ 0 \notin Slots /\ 1 \notin Slots /\ 2 \in Slots /\ Root = 2
      /\ Root \in Clusters /\ 0 \in Index /\ 1 \in Index
      /\ ShellName \in Names /\ Program \in Names
    BY Sizes, NamesDiffer
<1>2. ASSUME NEW d \in Clusters, NEW i \in Slots, NEW x, x = vol.tab[d][i]
      PROVE  /\ x.used => x.name \in Names
             /\ ~x.used => x.name \in {NoName, Junk} /\ ~x.dir
             /\ x.used /\ ~x.dir => d = Root /\ x.first # Root
    <2>1. \/ d = Root /\ (x = ShellFile \/ x = ProgramFile(4))
          \/ x = Byte \/ x = Cleared
        BY <1>1, <1>2, InitTables
    <2> QED
        BY <1>1, <2>1, MadeIs
<1>3. RootIn(vol, cwd)
    <2>1. Root \notin vol.free /\ cwd = Root
        BY <1>1, InitTables, Sizes
    <2>2. vol.tab[Root][0] = Folder(RootName, Root) /\ vol.tab[Root][1] = Folder(RootName, Root)
        BY <1>1, InitTables
    <2> QED
        BY <2>1, <2>2 DEF RootIn
<1> QED
    BY <1>2, <1>3 DEF SlotsIn

LEMMA CwdMoves ==
    ASSUME Line \/ Continue, cwd' # cwd \/ cwdName' # cwdName
    PROVE  vol' = vol /\ (CdParent \/ \E n \in Typed : Cd(n))
<1>1. ASSUME NEW n, NEW m, NEW e, Mkdir(n) \/ Rm(n, e) \/ Ls \/ Cat(n, e) \/ Find(n, e) \/ Cp(n, m)
                                  \/ Mv(n, m)
      PROVE  FALSE
    BY <1>1 DEF Mkdir, Rm, Ls, Cat, Find, Cp, Mv
<1>2. ~Continue
    BY DEF Continue, Prompt, ClimbCwd, ShowCwd, DfsEnter, DfsScan, DfsScanned, Answer, ClimbFind,
           ShowFind, MvRemove
<1>3. CdParent \/ \E n \in Typed : Cd(n)
    BY <1>1, <1>2 DEF Line
<1> QED
    BY <1>3 DEF CdParent, Cd

LEMMA SlotsStep ==
    ASSUME ShellType, SlotsInv, [Next]_vars
    PROVE  SlotsInv'
<1>1. SlotsIn(vol) /\ RootIn(vol, cwd) /\ vol \in VolumeType /\ cwd \in Clusters
    BY SlotsIs DEF ShellType
<1> SUFFICES SlotsIn(vol') /\ RootIn(vol', cwd')
    BY SlotsIsNext
<1>2. CASE UNCHANGED vars
    BY <1>1, <1>2 DEF vars
<1>3. CASE Boot
    <2>1. cwd' = Root
        BY <1>3 DEF Boot
    <2> QED
        BY <1>1, <1>3, <2>1, SlotsAfterBoot
<1>4. CASE (Line \/ Continue) /\ cwd' # cwd
    <2>1. vol' = vol /\ (CdParent \/ \E n \in Typed : Cd(n))
        BY <1>4, CwdMoves
    <2>2. (\E i \in Slots : vol.tab[Root][i].used) \/ cwd' = Root
        BY <1>1, <2>1, CdInEmptyRoot
    <2> QED
        BY <1>1, <2>1, <2>2 DEF RootIn
<1>5. CASE (Line \/ Continue) /\ cwd' = cwd
    <2> PICK w : w = vol'
        OBVIOUS
    <2>1. ASSUME NEW n \in Typed, NEW i \in Index, NEW c \in vol.free,
                 FolderMade(vol, w, cwd, n, cwdName, i, c)
          PROVE  SlotsIn(w) /\ RootIn(w, cwd)
        <3>1. c \in Clusters
            BY <1>1, VolumeTypes
        <3> QED
            BY <1>1, <2>1, <3>1, SlotsAfterFolder
    <2>2. ASSUME NEW n \in Typed, Unlinked(n, w) PROVE SlotsIn(w) /\ RootIn(w, cwd)
        BY <1>1, <2>2, SlotsAfterRemoval
    <2>3. ASSUME NEW d \in Clusters, NEW n \in Typed, NEW c \in Clusters, NEW i \in Index,
                 LinkMade(vol, w, d, n, c, i)
          PROVE  SlotsIn(w) /\ RootIn(w, cwd)
        BY <1>1, <2>3, SlotsAfterFolder
    <2>4. SlotsIn(w) /\ RootIn(w, cwd)
        BY <1>1, <1>5, <2>1, <2>2, <2>3, VolumeSteps
    <2> QED
        BY <1>5, <2>4
<1> QED
    BY <1>2, <1>3, <1>4, <1>5 DEF Next

(* Whatever links cp and mv have made, a slot that is not in use cannot be  *)
(* taken for an entry, no file is outside the root, and the root stays a   *)
(* directory whose cluster is taken.                                       *)
THEOREM SlotsInvCorrect == Spec => []SlotsInv
    BY ShellTypeHolds, SlotsInit, SlotsStep, PTL DEF Spec

(* No command and no boot frees the directory that the shell stands in:    *)
(* also with links that make a directory its own child, with the root      *)
(* linked into its own tree, or with two entries for one cluster.          *)
THEOREM StandingKeptCorrect == Spec => StandingKept
<1>1. ASSUME ShellType, SlotsInv, Next, cwd' = cwd, cwd \notin vol.free
      PROVE  cwd \notin vol'.free
    <2>1. SlotsIn(vol) /\ RootIn(vol, cwd) /\ vol \in VolumeType /\ cwd \in Clusters
        BY <1>1, SlotsIs DEF ShellType
    <2>2. CASE Boot
        <3>1. \/ vol' = vol
              \/ /\ vol' = WriteFile(vol, Root, Program, TRUE).vol
                 /\ HasRoom(vol, Root, Program, TRUE)
            BY <2>2 DEF Boot
        <3> PICK w : w = vol'
            OBVIOUS
        <3>2. w = vol \/ \E i \in Index, c \in vol.free : FileMade(vol, w, Root, Program, TRUE, i, c)
            BY <2>1, <3>1, WriteFileEffect, Sizes, NamesDiffer
        <3>3. w.free \subseteq vol.free
            BY <3>2 DEF FileMade
        <3> QED
            BY <1>1, <3>3
    <2>3. CASE Line \/ Continue
        <3>1. ASSUME NEW n \in Typed, NEW i \in Index, NEW c \in vol.free,
                     FolderMade(vol, vol', cwd, n, cwdName, i, c)
              PROVE  cwd \notin vol'.free
            BY <1>1, <3>1 DEF FolderMade
        <3>2. ASSUME NEW n \in Typed, Unlinked(n, vol') PROVE cwd \notin vol'.free
            <4> PICK w : w = vol'
                OBVIOUS
            <4>1. PICK i \in Slots : Deleted(vol, w, cwd, i)
                                     /\ StartsWith(vol.tab[cwd][i].name, n)
                BY <3>2 DEF Unlinked
            <4>2. vol.tab[cwd][i].first # cwd
                BY <1>1, <2>1, <4>1, UnlinkedIs
            <4>3. cwd \notin w.free
                BY <1>1, <4>1, <4>2 DEF Deleted
            <4> QED
                BY <4>3
        <3>3. ASSUME NEW d, NEW n, NEW c, NEW i, LinkMade(vol, vol', d, n, c, i)
              PROVE  cwd \notin vol'.free
            BY <1>1, <3>3 DEF LinkMade
        <3> QED
            BY <1>1, <2>3, <3>1, <3>2, <3>3, VolumeSteps
    <2> QED
        BY <1>1, <2>2, <2>3 DEF Next
<1>2. ASSUME ShellType, SlotsInv
      PROVE  [Next]_vars => [cwd' = cwd /\ cwd \notin vol.free => cwd \notin vol'.free]_vars
    BY <1>1, <1>2
<1> QED
    BY <1>2, ShellTypeHolds, SlotsInvCorrect, PTL DEF StandingKept, Spec

-----------------------------------------------------------------------------
(* The tree, while no command makes a second link *)

OwnIn(v) ==
    /\ \A d \in Clusters, i \in Slots : v.tab[d][i].used =>
           v.tab[d][0].dir /\ v.tab[d][i].first \notin v.free /\ v.tab[d][i].first # Root
    /\ \A d, f \in Clusters, i, j \in Slots :
           v.tab[d][i].used /\ v.tab[f][j].used /\ v.tab[f][j].first = v.tab[d][i].first
           => f = d /\ j = i
    /\ \A d \in Clusters, i, j \in Slots :
           /\ v.tab[d][i].used /\ v.tab[d][j].used
           /\ v.tab[d][j].name = v.tab[d][i].name /\ v.tab[d][j].ext = v.tab[d][i].ext
           => j = i

MatchIn(v) ==
    \A d \in Clusters, i \in Slots : v.tab[d][i].used =>
        /\ v.tab[d][i].dir =>
               /\ v.tab[d][i] = Folder(v.tab[d][i].name, v.tab[d][i].first)
               /\ v.tab[v.tab[d][i].first][0] = v.tab[d][i]
               /\ v.tab[v.tab[d][i].first][1] = v.tab[d][0]
        /\ ~v.tab[d][i].dir => ~v.tab[v.tab[d][i].first][0].dir

MarkedIn(v) ==
    \A c \in Clusters : c # Root /\ v.tab[c][0].dir =>
        /\ c \notin v.free
        /\ \E d \in Clusters, i \in Slots :
               v.tab[d][i] = v.tab[c][0] /\ v.tab[d][i].used /\ v.tab[d][i].first = c

VolumeIn(v) == OwnIn(v) /\ MatchIn(v) /\ MarkedIn(v)

LEMMA VolumeIs == VolumeInv <=> VolumeIn(vol)
<1>1. EntriesOwn <=> OwnIn(vol)
    <2>1. EntriesOwn => OwnIn(vol)
        BY DEF EntriesOwn, OwnIn
    <2>2. OwnIn(vol) => EntriesOwn
        BY DEF EntriesOwn, OwnIn
    <2> QED
        BY <2>1, <2>2
<1>2. TablesMatch <=> MatchIn(vol)
    BY DEF TablesMatch, MatchIn
<1>3. FoldersHaveEntry <=> MarkedIn(vol)
    BY DEF FoldersHaveEntry, MarkedIn
<1> QED
    BY <1>1, <1>2, <1>3 DEF VolumeInv, VolumeIn

LEMMA VolumeIsNext == VolumeInv' <=> VolumeIn(vol')
<1>1. EntriesOwn' <=> OwnIn(vol')
    <2>1. EntriesOwn' => OwnIn(vol')
        BY DEF EntriesOwn, OwnIn
    <2>2. OwnIn(vol') => EntriesOwn'
        BY DEF EntriesOwn, OwnIn
    <2> QED
        BY <2>1, <2>2
<1>2. TablesMatch' <=> MatchIn(vol')
    BY DEF TablesMatch, MatchIn
<1>3. FoldersHaveEntry' <=> MarkedIn(vol')
    BY DEF FoldersHaveEntry, MarkedIn
<1> QED
    BY <1>1, <1>2, <1>3 DEF VolumeInv, VolumeIn

(* All that is known of a volume. *)
Tree(v, d) == v \in VolumeType /\ SlotsIn(v) /\ RootIn(v, d) /\ VolumeIn(v)

(* A directory's first two entries, and its own entry in its parent. *)
LEMMA FolderIs ==
    ASSUME NEW v, NEW e, Tree(v, e), NEW d \in Clusters, v.tab[d][0].dir
    PROVE  \E n \in AnyName, p \in Clusters, m \in AnyName :
               /\ v.tab[d][0] = Folder(n, d) /\ v.tab[d][1] = Folder(m, p)
               /\ v.tab[p][0] = Folder(m, p)
               /\ d = Root => p = Root
               /\ d # Root => n \in Names /\ \E i \in Slots : v.tab[p][i] = Folder(n, d)
<1>1. CASE d = Root
    BY <1>1, Sizes, NamesDiffer DEF Tree, RootIn
<1>2. CASE d # Root
    <2>1. PICK p \in Clusters, i \in Slots :
              v.tab[p][i] = v.tab[d][0] /\ v.tab[p][i].used /\ v.tab[p][i].first = d
        BY <1>2 DEF Tree, VolumeIn, MarkedIn
    <2> PICK n : n = v.tab[p][i].name
        OBVIOUS
    <2>2. v.tab[p][i] = Folder(n, d) /\ v.tab[d][1] = v.tab[p][0] /\ n \in Names /\ n \in AnyName
        BY <2>1, NamesDiffer DEF Tree, VolumeIn, MatchIn, SlotsIn
    <2>3. v.tab[p][0].dir
        BY <2>1 DEF Tree, VolumeIn, OwnIn
    <2>4. PICK m \in AnyName : v.tab[p][0] = Folder(m, p)
        <3>1. CASE p = Root
            BY <3>1, NamesDiffer DEF Tree, RootIn
        <3>2. CASE p # Root
            <4>1. PICK q \in Clusters, j \in Slots :
                      v.tab[q][j] = v.tab[p][0] /\ v.tab[q][j].used /\ v.tab[q][j].first = p
                BY <2>3, <3>2 DEF Tree, VolumeIn, MarkedIn
            <4>2. v.tab[q][j] = Folder(v.tab[q][j].name, p) /\ v.tab[q][j].name \in AnyName
                BY <2>3, <4>1, NamesDiffer DEF Tree, VolumeIn, MatchIn, SlotsIn
            <4> QED
                BY <4>1, <4>2
        <3> QED
            BY <3>1, <3>2
    <2> QED
        BY <1>2, <2>1, <2>2, <2>4
<1> QED
    BY <1>1, <1>2

(* Every entry of a directory that is one itself, "." and ".." too, is the *)
(* first entry of its own table.                                           *)
LEMMA EntryOpens ==
    ASSUME NEW v, NEW e, Tree(v, e), NEW d \in Clusters, v.tab[d][0].dir,
           NEW i \in Index, v.tab[d][i].dir
    PROVE  /\ v.tab[d][i].first \in Clusters /\ v.tab[d][i].name \in AnyName
           /\ v.tab[d][i] = Folder(v.tab[d][i].name, v.tab[d][i].first)
           /\ v.tab[v.tab[d][i].first][0] = v.tab[d][i]
<1>1. v.tab[d][i].first \in Clusters /\ v.tab[d][i].name \in AnyName
    BY VolumeTypes DEF Tree
<1>2. CASE i = 0 \/ i = 1
    <2>1. PICK n \in AnyName, p \in Clusters, m \in AnyName :
              /\ v.tab[d][0] = Folder(n, d) /\ v.tab[d][1] = Folder(m, p)
              /\ v.tab[p][0] = Folder(m, p)
        BY FolderIs
    <2> QED
        BY <1>1, <1>2, <2>1, MadeIs
<1>3. CASE i \in Slots
    <2>1. v.tab[d][i].used
        BY <1>3 DEF Tree, SlotsIn
    <2> QED
        BY <1>1, <1>3, <2>1 DEF Tree, VolumeIn, MatchIn
<1> QED
    BY <1>2, <1>3, Sizes

(* A table that is not a directory's has nothing in it. *)
LEMMA FreeIsEmpty ==
    ASSUME NEW v, NEW e, Tree(v, e), NEW c \in v.free
    PROVE  /\ c \in Clusters /\ c # Root /\ ~v.tab[c][0].dir
           /\ \A i \in Slots : ~v.tab[c][i].used
<1>1. c \in Clusters /\ c # Root
    BY VolumeTypes DEF Tree, RootIn
<1>2. ~v.tab[c][0].dir
    BY <1>1 DEF Tree, VolumeIn, MarkedIn
<1> QED
    BY <1>1, <1>2 DEF Tree, VolumeIn, OwnIn

(* An entry x for a free cluster c is put in directory d; c's own table is *)
(* that of a new directory, or it is no directory's.                       *)
EntryMade(v, w, d, i, c, x) ==
    /\ x.used /\ x.first = c /\ w.free = v.free \ {c}
    /\ \A j \in Slots : v.tab[d][j].used => ~(v.tab[d][j].name = x.name /\ v.tab[d][j].ext = x.ext)
    /\ \A e \in Clusters, j \in Slots : w.tab[e][j].used => \/ v.tab[e][j].used /\ w.tab[e][j] = v.tab[e][j]
                                                            \/ e = d /\ j = i /\ w.tab[e][j] = x
    /\ \A e \in Clusters, j \in Slots : v.tab[e][j].used => w.tab[e][j] = v.tab[e][j]
    /\ w.tab[d][i] = x
    /\ \A e \in Clusters \ {c}, j \in {0, 1} : w.tab[e][j] = v.tab[e][j]
    /\ x.dir => x = Folder(x.name, c) /\ w.tab[c][0] = x /\ w.tab[c][1] = v.tab[d][0]
    /\ ~x.dir => ~w.tab[c][0].dir

LEMMA TreeAfterEntry ==
    ASSUME NEW v, NEW h, Tree(v, h), NEW w, NEW d \in Clusters, v.tab[d][0].dir, NEW i \in Slots,
           NEW c \in v.free, NEW x, EntryMade(v, w, d, i, c, x)
    PROVE  VolumeIn(w)
<1>1. c \in Clusters /\ c # Root /\ c # d
    BY FreeIsEmpty
<1>2. OwnIn(w)
    <2>1. ASSUME NEW e \in Clusters, NEW j \in Slots, w.tab[e][j].used
          PROVE  w.tab[e][0].dir /\ w.tab[e][j].first \notin w.free /\ w.tab[e][j].first # Root
        <3>1. CASE v.tab[e][j].used /\ w.tab[e][j] = v.tab[e][j]
            <4>1. v.tab[e][0].dir /\ v.tab[e][j].first \notin v.free /\ v.tab[e][j].first # Root
                BY <3>1 DEF Tree, VolumeIn, OwnIn
            <4>2. e # c
                BY <4>1, FreeIsEmpty
            <4> QED
                BY <3>1, <4>1, <4>2 DEF EntryMade
        <3>2. CASE e = d /\ j = i /\ w.tab[e][j] = x
            BY <1>1, <3>2 DEF EntryMade
        <3> QED
            BY <2>1, <3>1, <3>2 DEF EntryMade
    <2>2. ASSUME NEW e \in Clusters, NEW f \in Clusters, NEW j \in Slots, NEW k \in Slots,
                 w.tab[e][j].used, w.tab[f][k].used, w.tab[f][k].first = w.tab[e][j].first
          PROVE  f = e /\ k = j
        <3>1. ASSUME NEW g \in Clusters, NEW l \in Slots, v.tab[g][l].used
              PROVE  v.tab[g][l].first # c
            BY <3>1 DEF Tree, VolumeIn, OwnIn
        <3>2. ASSUME NEW g \in Clusters, NEW l \in Slots, w.tab[g][l].used
              PROVE  \/ v.tab[g][l].used /\ w.tab[g][l] = v.tab[g][l] /\ w.tab[g][l].first # c
                     \/ g = d /\ l = i /\ w.tab[g][l].first = c
            BY <3>1, <3>2 DEF EntryMade
        <3> QED
            BY <2>2, <3>2 DEF Tree, VolumeIn, OwnIn
    <2>3. ASSUME NEW e \in Clusters, NEW j \in Slots, NEW k \in Slots,
                 w.tab[e][j].used, w.tab[e][k].used,
                 w.tab[e][k].name = w.tab[e][j].name, w.tab[e][k].ext = w.tab[e][j].ext
          PROVE  k = j
        <3>1. ASSUME NEW l \in Slots, w.tab[e][l].used
              PROVE  \/ v.tab[e][l].used /\ w.tab[e][l] = v.tab[e][l]
                     \/ e = d /\ l = i /\ w.tab[e][l] = x
            BY <3>1 DEF EntryMade
        <3>2. ASSUME v.tab[e][j].used, v.tab[e][k].used,
                     v.tab[e][k].name = v.tab[e][j].name, v.tab[e][k].ext = v.tab[e][j].ext
              PROVE  k = j
            BY <3>2 DEF Tree, VolumeIn, OwnIn
        <3>3. ASSUME NEW l \in Slots, e = d, v.tab[e][l].used
              PROVE  ~(v.tab[e][l].name = x.name /\ v.tab[e][l].ext = x.ext)
            BY <3>3 DEF EntryMade
        <3>4. CASE v.tab[e][j].used /\ w.tab[e][j] = v.tab[e][j]
            <4>1. CASE v.tab[e][k].used /\ w.tab[e][k] = v.tab[e][k]
                BY <2>3, <3>2, <3>4, <4>1
            <4>2. CASE e = d /\ k = i /\ w.tab[e][k] = x
                BY <2>3, <3>3, <3>4, <4>2
            <4> QED
                BY <2>3, <3>1, <4>1, <4>2
        <3>5. CASE e = d /\ j = i /\ w.tab[e][j] = x
            <4>1. CASE v.tab[e][k].used /\ w.tab[e][k] = v.tab[e][k]
                BY <2>3, <3>3, <3>5, <4>1
            <4>2. CASE e = d /\ k = i
                BY <3>5, <4>2
            <4> QED
                BY <2>3, <3>1, <4>1, <4>2
        <3> QED
            BY <2>3, <3>1, <3>4, <3>5
    <2> QED
        BY <2>1, <2>2, <2>3 DEF OwnIn
<1>3. MatchIn(w)
    <2> SUFFICES ASSUME NEW e \in Clusters, NEW j \in Slots, NEW y, y = w.tab[e][j], y.used
                 PROVE  /\ y.dir => y = Folder(y.name, y.first) /\ w.tab[y.first][0] = y
                                    /\ w.tab[y.first][1] = w.tab[e][0]
                        /\ ~y.dir => ~w.tab[y.first][0].dir
        BY DEF MatchIn
    <2>1. CASE v.tab[e][j].used /\ y = v.tab[e][j]
        <3>1. v.tab[e][0].dir /\ y.first \notin v.free /\ y.first \in Clusters
            BY <2>1, VolumeTypes, Sizes DEF Tree, VolumeIn, OwnIn
        <3>2. e # c /\ y.first # c
            BY <3>1, FreeIsEmpty
        <3>3. /\ w.tab[y.first][0] = v.tab[y.first][0] /\ w.tab[y.first][1] = v.tab[y.first][1]
              /\ w.tab[e][0] = v.tab[e][0]
            BY <3>1, <3>2 DEF EntryMade
        <3>4. /\ y.dir => y = Folder(y.name, y.first) /\ v.tab[y.first][0] = y
                                    /\ v.tab[y.first][1] = v.tab[e][0]
              /\ ~y.dir => ~v.tab[y.first][0].dir
            BY <2>1 DEF Tree, VolumeIn, MatchIn
        <3> QED
            BY <3>3, <3>4
    <2>2. CASE e = d /\ j = i /\ y = x
        BY <1>1, <2>2 DEF EntryMade
    <2> QED
        BY <2>1, <2>2 DEF EntryMade
<1>4. MarkedIn(w)
    <2> SUFFICES ASSUME NEW e \in Clusters, e # Root, w.tab[e][0].dir
                 PROVE  /\ e \notin w.free
                        /\ \E f \in Clusters, j \in Slots :
                               w.tab[f][j] = w.tab[e][0] /\ w.tab[f][j].used /\ w.tab[f][j].first = e
        BY DEF MarkedIn
    <2>1. CASE e = c
        <3>1. x.dir
            BY <2>1 DEF EntryMade
        <3> QED
            BY <2>1, <3>1 DEF EntryMade
    <2>2. CASE e # c
        <3>1. w.tab[e][0] = v.tab[e][0]
            BY <2>2 DEF EntryMade
        <3>2. PICK f \in Clusters, j \in Slots :
                  v.tab[f][j] = v.tab[e][0] /\ v.tab[f][j].used /\ v.tab[f][j].first = e
            BY <3>1 DEF Tree, VolumeIn, MarkedIn
        <3>3. e \notin v.free
            BY <3>1 DEF Tree, VolumeIn, MarkedIn
        <3> QED
            BY <3>1, <3>2, <3>3 DEF EntryMade
    <2> QED
        BY <2>1, <2>2
<1> QED
    BY <1>2, <1>3, <1>4 DEF VolumeIn

(* A slot that is not used is none of the first two. *)
LEMMA FreeSlot ==
    ASSUME NEW v, NEW h, Tree(v, h), NEW d \in Clusters, v.tab[d][0].dir,
           NEW i \in Index, ~v.tab[d][i].used
    PROVE  i \in Slots
<1>1. v.tab[d][0].used /\ v.tab[d][1].used
    <2>1. PICK n \in AnyName, p \in Clusters, m \in AnyName :
              v.tab[d][0] = Folder(n, d) /\ v.tab[d][1] = Folder(m, p)
        BY FolderIs
    <2> QED
        BY <2>1, MadeIs
<1> QED
    BY <1>1, Sizes

LEMMA TreeAfterFolder ==
    ASSUME NEW v, NEW h, Tree(v, h), NEW w, NEW d \in Clusters, NEW n \in Names, NEW up,
           v.tab[d][0] = Folder(up, d), NEW i \in Index, NEW c \in v.free,
           WriteError(v, d, n, FALSE) = 0, FolderMade(v, w, d, n, up, i, c)
    PROVE  VolumeIn(w)
<1> PICK x : x = Folder(n, c)
    OBVIOUS
<1>1. x.used /\ x.dir /\ x.first = c /\ x.name = n /\ x.ext = FALSE /\ v.tab[d][0].dir
    BY MadeIs
<1>2. i \in Slots
    BY <1>1, FreeSlot DEF FolderMade
<1>3. \A j \in Slots : v.tab[d][j].used => ~(v.tab[d][j].name = x.name /\ v.tab[d][j].ext = x.ext)
    <2> PICK e : e = FALSE
        OBVIOUS
    <2>1. WriteError(v, d, n, e) = 0
        BY Zenon
    <2>2. \A j \in Index \ {0} : ~(v.tab[d][j].name = n /\ v.tab[d][j].ext = e)
        BY <2>1, WriteAllowed
    <2>3. x.ext = e
        BY <1>1
    <2> QED
        BY <1>1, <2>2, <2>3, Sizes
<1>4. c \in Clusters /\ c # Root /\ c # d /\ \A j \in Slots : ~v.tab[c][j].used
    BY <1>1, FreeIsEmpty
<1>5. \A e \in Clusters, j \in Slots : w.tab[e][j] = IF e = d /\ j = i THEN x ELSE v.tab[e][j]
    BY Sizes DEF FolderMade
<1>6. ~v.tab[d][i].used /\ w.free = v.free \ {c}
    BY DEF FolderMade
<1>7. \A e \in Clusters \ {c}, j \in {0, 1} : w.tab[e][j] = v.tab[e][j]
    BY <1>2, Sizes DEF FolderMade
<1>8. w.tab[c][0] = x /\ w.tab[c][1] = v.tab[d][0]
    BY <1>4, Sizes DEF FolderMade
<1>9. EntryMade(v, w, d, i, c, x)
    BY <1>1, <1>2, <1>3, <1>5, <1>6, <1>7, <1>8 DEF EntryMade
<1> QED
    BY <1>1, <1>2, <1>9, TreeAfterEntry

LEMMA TreeAfterFile ==
    ASSUME NEW v, NEW h, Tree(v, h), NEW w, NEW i \in Index, NEW c \in v.free,
           WriteError(v, Root, Program, TRUE) = 0, FileMade(v, w, Root, Program, TRUE, i, c)
    PROVE  VolumeIn(w)
<1> PICK x : x = ProgramFile(c)
    OBVIOUS
<1>1. x.used /\ ~x.dir /\ x.first = c /\ x.name = Program /\ v.tab[Root][0].dir /\ Root \in Clusters
    BY MadeIs, Sizes DEF Tree, RootIn
<1>2. i \in Slots
    BY <1>1, FreeSlot DEF FileMade
<1>3. \A j \in Slots : v.tab[Root][j].used
                       => ~(v.tab[Root][j].name = x.name /\ v.tab[Root][j].ext = x.ext)
    <2> PICK e : e = TRUE
        OBVIOUS
    <2>1. WriteError(v, Root, Program, e) = 0
        BY Zenon
    <2>2. \A j \in Index \ {0} : ~(v.tab[Root][j].name = Program /\ v.tab[Root][j].ext = e)
        BY <2>1, WriteAllowed
    <2>3. x.ext = e
        BY DEF ProgramFile, File
    <2> QED
        BY <1>1, <2>2, <2>3, Sizes
<1>4. c \in Clusters /\ c # Root /\ \A j \in Slots : ~v.tab[c][j].used
    BY FreeIsEmpty
<1>5. \A e \in Clusters, j \in Index :
          w.tab[e][j] = IF e = c THEN Byte ELSE IF e = Root /\ j = i THEN x ELSE v.tab[e][j]
    BY DEF FileMade, ProgramFile
<1>6. ~v.tab[Root][i].used /\ w.free = v.free \ {c}
    BY DEF FileMade
<1>7. \A e \in Clusters \ {c}, j \in {0, 1} : w.tab[e][j] = v.tab[e][j]
    <2>1. \A j \in {0, 1} : j \in Index /\ j # i
        BY <1>2, Sizes
    <2> QED
        BY <1>5, <2>1
<1>8. ~w.tab[c][0].dir
    BY <1>4, <1>5, MadeIs, Sizes
<1>9. EntryMade(v, w, Root, i, c, x)
    <2>1. \A e \in Clusters, j \in Slots :
              w.tab[e][j] = IF e = c THEN Byte ELSE IF e = Root /\ j = i THEN x ELSE v.tab[e][j]
        BY <1>5, Sizes
    <2> QED
        BY <1>1, <1>2, <1>3, <1>4, <1>6, <1>7, <1>8, <2>1, MadeIs DEF EntryMade
<1> QED
    BY <1>1, <1>2, <1>9, TreeAfterEntry

LEMMA TreeAfterRemoval ==
    ASSUME NEW v, NEW d \in Clusters, Tree(v, d), NEW w, NEW i \in Slots, v.tab[d][i].used,
           Deleted(v, w, d, i), w.free = v.free \cup {v.tab[d][i].first}
    PROVE  VolumeIn(w)
<1> PICK x : x = v.tab[d][i]
    OBVIOUS
<1>1. /\ x.first \in Clusters /\ Slots \subseteq Index /\ 0 \in Index /\ 1 \in Index
      /\ 0 \notin Slots /\ 1 \notin Slots
    BY VolumeTypes, Sizes DEF Tree
<1>2. x.dir => \A j \in Slots : ~v.tab[x.first][j].used
    BY DEF Deleted, InUse
<1>3. x.dir => x.first # d
    BY <1>2
<1>4. \A e \in Clusters, j \in Slots :
          w.tab[e][j] = IF e = d /\ j = i THEN Cleared ELSE v.tab[e][j]
    BY <1>1 DEF Deleted, Removed
<1>5. \A e \in Clusters, j \in {0, 1} :
          w.tab[e][j] = IF x.dir /\ e = x.first THEN Emptied(v.tab[e][j]) ELSE v.tab[e][j]
    BY <1>1 DEF Deleted, Removed
<1>6. ASSUME NEW e \in Clusters, NEW j \in Slots, w.tab[e][j].used
      PROVE  /\ v.tab[e][j].used /\ w.tab[e][j] = v.tab[e][j]
             /\ w.tab[e][j].first # x.first
             /\ ~(x.dir /\ e = x.first)
    BY <1>2, <1>4, <1>6, MadeIs DEF Tree, VolumeIn, OwnIn
<1>7. OwnIn(w)
    <2>1. ASSUME NEW e \in Clusters, NEW j \in Slots, w.tab[e][j].used
          PROVE  w.tab[e][0].dir /\ w.tab[e][j].first \notin w.free /\ w.tab[e][j].first # Root
        <3>1. v.tab[e][0].dir /\ v.tab[e][j].first \notin v.free /\ v.tab[e][j].first # Root
            BY <1>6, <2>1 DEF Tree, VolumeIn, OwnIn
        <3>2. w.tab[e][0] = v.tab[e][0]
            BY <1>5, <1>6, <2>1
        <3> QED
            BY <1>6, <2>1, <3>1, <3>2
    <2>2. \A e, f \in Clusters, j, k \in Slots :
              w.tab[e][j].used /\ w.tab[f][k].used /\ w.tab[f][k].first = w.tab[e][j].first
              => f = e /\ k = j
        BY <1>6 DEF Tree, VolumeIn, OwnIn
    <2>3. \A e \in Clusters, j, k \in Slots :
              /\ w.tab[e][j].used /\ w.tab[e][k].used
              /\ w.tab[e][k].name = w.tab[e][j].name /\ w.tab[e][k].ext = w.tab[e][j].ext
              => k = j
        BY <1>6 DEF Tree, VolumeIn, OwnIn
    <2> QED
        BY <2>1, <2>2, <2>3 DEF OwnIn
<1>8. MatchIn(w)
    <2> SUFFICES ASSUME NEW e \in Clusters, NEW j \in Slots, NEW y, y = w.tab[e][j], y.used
                 PROVE  /\ y.dir => y = Folder(y.name, y.first) /\ w.tab[y.first][0] = y
                                    /\ w.tab[y.first][1] = w.tab[e][0]
                        /\ ~y.dir => ~w.tab[y.first][0].dir
        BY DEF MatchIn
    <2>1. y = v.tab[e][j] /\ y.first # x.first /\ ~(x.dir /\ e = x.first)
        BY <1>6
    <2>2. y.first \in Clusters
        BY <2>1, VolumeTypes, Sizes DEF Tree
    <2>3. /\ w.tab[y.first][0] = v.tab[y.first][0] /\ w.tab[y.first][1] = v.tab[y.first][1]
          /\ w.tab[e][0] = v.tab[e][0]
        BY <1>5, <2>1, <2>2
    <2>4. /\ y.dir => y = Folder(y.name, y.first) /\ v.tab[y.first][0] = y
                                /\ v.tab[y.first][1] = v.tab[e][0]
          /\ ~y.dir => ~v.tab[y.first][0].dir
        BY <2>1 DEF Tree, VolumeIn, MatchIn
    <2> QED
        BY <2>3, <2>4
<1>9. MarkedIn(w)
    <2> SUFFICES ASSUME NEW e \in Clusters, e # Root, w.tab[e][0].dir
                 PROVE  /\ e \notin w.free
                        /\ \E f \in Clusters, j \in Slots :
                               w.tab[f][j] = w.tab[e][0] /\ w.tab[f][j].used /\ w.tab[f][j].first = e
        BY DEF MarkedIn
    <2>1. w.tab[e][0] = v.tab[e][0] /\ ~(x.dir /\ e = x.first)
        <3>1. v.tab[e][0] \in Entry
            BY <1>1, VolumeTypes DEF Tree
        <3>2. ~Emptied(v.tab[e][0]).dir
            BY <3>1, EmptiedIs
        <3> QED
            BY <1>5, <3>2
    <2>2. e # x.first
        <3>1. ~x.dir => ~v.tab[x.first][0].dir
            BY DEF Tree, VolumeIn, MatchIn
        <3> QED
            BY <2>1, <3>1
    <2>3. e \notin v.free
        BY <2>1 DEF Tree, VolumeIn, MarkedIn
    <2>4. PICK f \in Clusters, j \in Slots :
              v.tab[f][j] = v.tab[e][0] /\ v.tab[f][j].used /\ v.tab[f][j].first = e
        BY <2>1 DEF Tree, VolumeIn, MarkedIn
    <2>5. w.tab[f][j] = v.tab[f][j]
        BY <1>4, <2>2, <2>4
    <2> QED
        BY <2>1, <2>2, <2>3, <2>4, <2>5
<1> QED
    BY <1>7, <1>8, <1>9 DEF VolumeIn

LEMMA TreeInit == Init => VolumeIn(vol)
<1> SUFFICES ASSUME Init PROVE VolumeIn(vol)
    OBVIOUS
<1>1. /\ Slots \subseteq Index /\ 0 \notin Slots /\ 1 \notin Slots /\ 0 \in Index /\ Root \in Clusters
      /\ Root = 2 /\ 3 \in Clusters /\ 4 \in Clusters /\ LastCluster \in Nat
    BY Sizes
<1>2. ASSUME NEW d \in Clusters, NEW i \in Slots, vol.tab[d][i].used
      PROVE  /\ d = Root
             /\ \/ i = 2 /\ vol.tab[d][i] = ShellFile
                \/ i = 3 /\ vol.tab[d][i] = ProgramFile(4)
    BY <1>1, <1>2, InitTables, MadeIs
<1>3. \A d \in Clusters : vol.tab[d][0].dir => d = Root
    BY <1>1, InitTables, MadeIs
<1>4. vol.tab[Root][0].dir
    BY SlotsInit, SlotsIs, MadeIs DEF RootIn
<1>5. vol.free = 5 .. LastCluster
    BY InitTables
<1>6. ShellFile.name # ProgramFile(4).name \/ ShellFile.ext # ProgramFile(4).ext
    BY DEF ShellFile, ProgramFile, File
<1>7. OwnIn(vol)
    <2>1. ASSUME NEW d \in Clusters, NEW i \in Slots, vol.tab[d][i].used
          PROVE  /\ vol.tab[d][0].dir /\ vol.tab[d][i].first \notin vol.free
                 /\ vol.tab[d][i].first # Root /\ ~vol.tab[vol.tab[d][i].first][0].dir
                 /\ ~vol.tab[d][i].dir
        <3>1. d = Root /\ vol.tab[d][i].first \in {3, 4} /\ ~vol.tab[d][i].dir
            BY <1>2, <2>1, MadeIs
        <3> QED
            BY <1>1, <1>3, <1>4, <1>5, <3>1
    <2>2. \A d, f \in Clusters, i, j \in Slots :
              vol.tab[d][i].used /\ vol.tab[f][j].used /\ vol.tab[f][j].first = vol.tab[d][i].first
              => f = d /\ j = i
        BY <1>2, MadeIs
    <2>3. \A d \in Clusters, i, j \in Slots :
              /\ vol.tab[d][i].used /\ vol.tab[d][j].used
              /\ vol.tab[d][j].name = vol.tab[d][i].name /\ vol.tab[d][j].ext = vol.tab[d][i].ext
              => j = i
        BY <1>2, <1>6
    <2> QED
        BY <2>1, <2>2, <2>3 DEF OwnIn
<1>8. MatchIn(vol)
    <2>1. ASSUME NEW d \in Clusters, NEW i \in Slots, vol.tab[d][i].used
          PROVE  ~vol.tab[vol.tab[d][i].first][0].dir /\ ~vol.tab[d][i].dir
        <3>1. d = Root /\ vol.tab[d][i].first \in {3, 4} /\ ~vol.tab[d][i].dir
            BY <1>2, <2>1, MadeIs
        <3> QED
            BY <1>1, <1>3, <3>1
    <2> QED
        BY <2>1 DEF MatchIn
<1>9. MarkedIn(vol)
    BY <1>3 DEF MarkedIn
<1> QED
    BY <1>7, <1>8, <1>9 DEF VolumeIn

(* The volume is a tree, and the shell stands in one of its directories. *)
Stands ==
    /\ ShellType /\ SlotsInv /\ VolumeInv
    /\ pc # "moving" /\ IsFolder(cwd, cwdName)

LEMMA StandsTree ==
    ASSUME Stands
    PROVE  /\ Tree(vol, cwd) /\ cwd \in Clusters /\ cwdName \in AnyName
           /\ vol.tab[cwd][0] = Folder(cwdName, cwd) /\ vol.tab[cwd][0].dir
<1>1. Tree(vol, cwd)
    BY SlotsIs, VolumeIs DEF Stands, Tree, ShellType
<1> QED
    BY <1>1, MadeIs DEF Stands, IsFolder, ShellType

(* A directory that is read by its own name is found at its own entry. *)
LEMMA OwnName ==
    ASSUME NEW v, NEW c \in Clusters, NEW n, v.tab[c][0] = Folder(n, c)
    PROVE  ReadDirectory(v, c, n).rc = 0 /\ ReadDirectory(v, c, n).table = v.tab[c]
<1> PICK hits : hits = {i \in Index : StartsWith(v.tab[c][i].name, n)}
    OBVIOUS
<1>1. v.tab[c][0].name = n /\ v.tab[c][0].dir /\ v.tab[c][0].first = c
    BY MadeIs
<1>2. 0 \in hits /\ hits \subseteq Nat
    BY <1>1, Sizes DEF StartsWith
<1> PICK m : m = Min(hits)
    OBVIOUS
<1>3. m \in hits /\ \A i \in hits : m <= i
    BY <1>2, LeastIs
<1>4. m = 0
    <2>1. m \in Nat
        BY <1>2, <1>3, Zenon
    <2>2. m <= 0
        BY <1>2, <1>3, Zenon
    <2> QED
        BY <2>1, <2>2
<1> QED
    BY <1>1, <1>2, <1>4 DEF ReadDirectory

LEMMA CdStands ==
    ASSUME Stands, CdParent \/ \E n \in Typed : Cd(n)
    PROVE  IsFolder(cwd, cwdName)'
<1>1. Tree(vol, cwd) /\ cwd \in Clusters /\ vol.tab[cwd][0] = Folder(cwdName, cwd)
      /\ vol.tab[cwd][0].dir
    BY StandsTree
<1>2. Here.rc = 0 /\ Here.table = vol.tab[cwd]
    BY <1>1, OwnName DEF Here
<1>3. vol' = vol
    BY DEF CdParent, Cd
<1>4. ASSUME NEW i \in Index, vol.tab[cwd][i].dir, GoTo(vol.tab[cwd][i])
      PROVE  vol'.tab[cwd'][0] = Folder(cwdName', cwd')
    BY <1>1, <1>3, <1>4, EntryOpens DEF GoTo
<1>5. CASE CdParent
    <2>1. vol.tab[cwd][1].dir /\ 1 \in Index
        <3>1. PICK m, p : vol.tab[cwd][1] = Folder(m, p)
            BY <1>1, FolderIs
        <3> QED
            BY <3>1, MadeIs, Sizes
    <2>2. GoTo(vol.tab[cwd][1])
        BY <1>2, <1>5 DEF CdParent
    <2> QED
        BY <1>4, <2>1, <2>2 DEF IsFolder
<1>6. ASSUME NEW n \in Typed, Cd(n) PROVE IsFolder(cwd, cwdName)'
    <2> PICK hits : hits = {i \in Index : Here.table[i].name = n}
        OBVIOUS
    <2> PICK k : k = Min(hits)
        OBVIOUS
    <2>1. CASE hits # {} /\ Here.table[k].dir
        <3>1. hits \subseteq Nat
            BY Sizes
        <3>2. k \in Index
            BY <2>1, <3>1, LeastIs
        <3>3. GoTo(vol.tab[cwd][k]) /\ vol.tab[cwd][k].dir
            BY <1>2, <1>6, <2>1 DEF Cd
        <3> QED
            BY <1>4, <3>2, <3>3 DEF IsFolder
    <2>2. CASE ~(hits # {} /\ Here.table[k].dir)
        <3>1. cwd' = cwd /\ cwdName' = cwdName
            BY <1>2, <1>6, <2>2 DEF Cd
        <3> QED
            BY <1>1, <1>3, <3>1 DEF IsFolder
    <2> QED
        BY <2>1, <2>2
<1> QED
    BY <1>5, <1>6

LEMMA BootWrites ==
    ASSUME vol \in VolumeType, Boot
    PROVE  \/ vol' = vol
           \/ /\ WriteError(vol, Root, Program, TRUE) = 0
              /\ \E i \in Index, c \in vol.free : FileMade(vol, vol', Root, Program, TRUE, i, c)
<1> PICK w : w = vol'
    OBVIOUS
<1>1. \/ w = vol
      \/ w = WriteFile(vol, Root, Program, TRUE).vol /\ HasRoom(vol, Root, Program, TRUE)
    BY DEF Boot
<1> PICK e : e = TRUE
    OBVIOUS
<1>2. /\ e \in BOOLEAN
      /\ \/ w = vol
         \/ w = WriteFile(vol, Root, Program, e).vol /\ HasRoom(vol, Root, Program, e)
    BY <1>1, Zenon
<1>3. \/ w = vol
      \/ /\ WriteError(vol, Root, Program, e) = 0
         /\ \E i \in Index, c \in vol.free : FileMade(vol, w, Root, Program, e, i, c)
    <2>1. Root \in Clusters /\ Program \in Names
        BY Sizes, NamesDiffer
    <2>2. ASSUME NEW d \in Clusters, NEW n \in Names,
                 w = WriteFile(vol, d, n, e).vol, HasRoom(vol, d, n, e)
          PROVE  \/ w = vol
                 \/ /\ WriteError(vol, d, n, e) = 0
                    /\ \E i \in Index, c \in vol.free : FileMade(vol, w, d, n, e, i, c)
        BY <1>2, <2>2, WriteFileEffect
    <2> QED
        BY <1>2, <2>1, <2>2, Zenon
<1> QED
    BY <1>3, Zenon

LEMMA StandsInit == Init => Stands
<1> SUFFICES ASSUME Init PROVE Stands
    OBVIOUS
<1>1. pc = "prompt" /\ cwd = Root /\ cwdName = RootName
    BY DEF Init
<1>2. vol.tab[Root][0] = Folder(RootName, Root)
    BY SlotsInit, SlotsIs DEF RootIn
<1> QED
    BY <1>1, <1>2, ShellInitType, SlotsInit, TreeInit, VolumeIs DEF Stands, IsFolder

(* Without cp and mv, every step keeps the tree and a place in it. *)
LEMMA StandsStep ==
    ASSUME ~Links, Stands, [Next]_vars
    PROVE  Stands'
<1>1. Tree(vol, cwd) /\ cwd \in Clusters /\ cwdName \in AnyName
      /\ vol.tab[cwd][0] = Folder(cwdName, cwd) /\ vol.tab[cwd][0].dir
    BY StandsTree
<1>2. ShellType' /\ SlotsInv'
    <2>1. ShellType'
        <3>1. CASE UNCHANGED vars
            BY <3>1 DEF Stands, vars, ShellType
        <3>2. CASE Next
            BY <3>2, PromptType, DfsType, CommandType DEF Stands, Next, Continue
        <3> QED
            BY <3>1, <3>2
    <2> QED
        BY <2>1, SlotsStep DEF Stands
<1>3. pc' # "moving"
    <2>1. CASE Boot
        BY <2>1 DEF Boot, Finish, Stop
    <2>2. CASE Continue
        BY <2>2 DEF Stands, Continue, Prompt, ClimbCwd, ShowCwd, DfsEnter, DfsScan, DfsScanned,
                    Answer, ClimbFind, ShowFind, MvRemove, Finish, Stop, Leave
    <2>3. CASE Line
        <3>1. ASSUME NEW n, NEW e, CdParent \/ Cd(n) \/ Mkdir(n) \/ Ls \/ Rm(n, e) \/ Cat(n, e)
                                   \/ Find(n, e)
              PROVE  pc' # "moving"
            BY <3>1 DEF CdParent, Cd, Mkdir, Ls, Rm, Cat, Find, Finish, Stop
        <3> QED
            BY <2>3, <3>1 DEF Line, Links
    <2>4. CASE UNCHANGED vars
        BY <2>4 DEF vars, Stands
    <2> QED
        BY <2>1, <2>2, <2>3, <2>4 DEF Next
<1> SUFFICES VolumeIn(vol') /\ vol'.tab[cwd'][0] = Folder(cwdName', cwd')
    BY <1>2, <1>3, VolumeIsNext DEF Stands, IsFolder
<1> PICK w : w = vol'
    OBVIOUS
<1>4. CASE UNCHANGED vars
    BY <1>1, <1>4 DEF vars, Tree
<1>5. CASE Boot
    <2>1. cwd' = Root /\ cwdName' = RootName
        BY <1>5 DEF Boot
    <2>2. VolumeIn(w)
        <3>1. CASE w = vol
            BY <1>1, <3>1 DEF Tree
        <3>2. CASE w # vol
            BY <1>1, <1>5, <3>2, BootWrites, TreeAfterFile DEF Tree
        <3> QED
            BY <3>1, <3>2
    <2>3. w.tab[Root][0] = Folder(RootName, Root)
        BY <1>2, SlotsIsNext DEF RootIn
    <2> QED
        BY <2>1, <2>2, <2>3
<1>6. CASE (Line \/ Continue) /\ (cwd' # cwd \/ cwdName' # cwdName)
    <2>1. vol' = vol /\ (CdParent \/ \E n \in Typed : Cd(n))
        BY <1>6, CwdMoves
    <2>2. vol'.tab[cwd'][0] = Folder(cwdName', cwd')
        BY <2>1, CdStands DEF IsFolder
    <2> QED
        BY <1>1, <2>1, <2>2 DEF Tree
<1>7. CASE (Line \/ Continue) /\ cwd' = cwd /\ cwdName' = cwdName
    <2>1. CASE w = vol
        BY <1>1, <1>7, <2>1 DEF Tree
    <2>2. ASSUME NEW n \in Typed, NEW i \in Index, NEW c \in vol.free,
                 WriteError(vol, cwd, n, FALSE) = 0,
                 FolderMade(vol, w, cwd, n, cwdName, i, c)
          PROVE  VolumeIn(w) /\ w.tab[cwd][0] = Folder(cwdName, cwd)
        <3>1. n \in Names
            BY NamesDiffer
        <3>2. VolumeIn(w)
            BY <1>1, <2>2, <3>1, TreeAfterFolder
        <3>3. i \in Slots /\ c # cwd
            BY <1>1, <2>2, FreeSlot, FreeIsEmpty DEF FolderMade
        <3>4. w.tab[cwd][0] = vol.tab[cwd][0]
            BY <1>1, <2>2, <3>3, Sizes DEF FolderMade
        <3> QED
            BY <1>1, <3>2, <3>4
    <2>3. ASSUME NEW n \in Typed, Unlinked(n, w)
          PROVE  VolumeIn(w) /\ w.tab[cwd][0] = Folder(cwdName, cwd)
        <3>1. PICK i \in Slots : /\ Deleted(vol, w, cwd, i) /\ StartsWith(vol.tab[cwd][i].name, n)
                                 /\ w.free = vol.free \cup {vol.tab[cwd][i].first}
            BY <2>3 DEF Unlinked, Stands
        <3>2. vol.tab[cwd][i].used /\ vol.tab[cwd][i].first # cwd
            BY <1>1, <3>1, UnlinkedIs DEF Tree, Stands
        <3>3. VolumeIn(w)
            BY <1>1, <3>1, <3>2, TreeAfterRemoval
        <3>4. w.tab[cwd][0] = vol.tab[cwd][0]
            BY <1>1, <3>1, <3>2, Sizes DEF Deleted, Removed
        <3> QED
            BY <1>1, <3>3, <3>4
    <2>4. VolumeIn(w) /\ w.tab[cwd][0] = Folder(cwdName, cwd)
        <3>1. Line \/ Continue
            BY <1>7
        <3> QED
            BY <1>1, <2>1, <2>2, <2>3, <3>1, VolumeSteps DEF Stands, Tree
    <2> QED
        BY <1>7, <2>4
<1> QED
    BY <1>4, <1>5, <1>6, <1>7 DEF Next

LEMMA StandsHolds ==
    ASSUME ~Links
    PROVE  Spec => []Stands
<1>1. Stands /\ [Next]_vars => Stands'
    BY StandsStep
<1> QED
    BY <1>1, StandsInit, PTL DEF Spec

(* While no command makes a second link, a directory that has entries is   *)
(* never removed, nor its entry - by rm, or by the kernel's own file that  *)
(* a boot writes into a free cluster.                                      *)
THEOREM FullFoldersKeptCorrect ==
    ASSUME ~Links
    PROVE  Spec => FullFoldersKept
<1>1. ASSUME ShellType, Line \/ Continue PROVE FullFolderStays
    BY <1>1, CommandKeepsFull
<1>2. ASSUME Stands, Boot PROVE FullFolderStays
    <2>1. Tree(vol, cwd)
        BY <1>2, StandsTree
    <2> PICK w : w = vol'
        OBVIOUS
    <2> SUFFICES ASSUME NEW d \in Clusters, NEW i \in Slots, vol.tab[d][i].used
                 PROVE  w.tab[d][i] = vol.tab[d][i]
        BY DEF FullFolderStays
    <2>2. CASE w = vol
        BY <2>2
    <2>3. CASE w # vol
        <3>1. PICK j \in Index, c \in vol.free : FileMade(vol, w, Root, Program, TRUE, j, c)
            BY <1>2, <2>1, <2>3, BootWrites DEF Tree
        <3>2. d # c
            BY <2>1, FreeIsEmpty
        <3>3. i \in Index
            BY Sizes
        <3> QED
            BY <3>1, <3>2, <3>3 DEF FileMade
    <2> QED
        BY <2>2, <2>3
<1>3. ASSUME Stands PROVE [Next]_vars => [FullFolderStays]_vars
    BY <1>1, <1>2, <1>3 DEF Next, Stands
<1> QED
    BY <1>3, StandsHolds, PTL DEF FullFoldersKept, Spec

-----------------------------------------------------------------------------
(* The path of the prompt *)

LEMMA OpenedIsSet == \A D, n : Opened(D, n) \in SUBSET Clusters
    BY DEF Opened

LEMMA PlaceSteps ==
    ASSUME NEW path \in Seq(AnyName)
    PROVE  \E r : /\ Place(path) = r[Len(path)] /\ r[0] = {Root}
                  /\ \A k \in 1 .. Len(path) : r[k] = Opened(r[k - 1], path[k])
<1> PICK n : n = Len(path)
    OBVIOUS
<1>1. n \in Nat
    OBVIOUS
<1> DEFINE S == SUBSET Clusters
           G == [p \in Nat \X S |-> IF p[1] \in 1 .. n THEN Opened(p[2], path[p[1]]) ELSE p[2]]
           F(f) == [k \in 0 .. n |-> IF k = 0 THEN {Root} ELSE Opened(f[k - 1], path[k])]
<1>2. G \in [Nat \X S -> S] /\ {Root} \in S
    BY OpenedIsSet, Sizes
<1>3. ASSUME NEW i \in 1 .. n, NEW s \in S PROVE G[<<i, s>>] = Opened(s, path[i])
    BY <1>1
<1> HIDE DEF G
<1>4. PICK f : Computes(f, S, {Root}, G, n)
    BY <1>1, <1>2, Recursion
<1>5. ASSUME NEW i \in 1 .. n PROVE f[i] = Opened(f[i - 1], path[i])
    <2>1. f[i - 1] \in S
        BY <1>1, <1>4 DEF Computes
    <2>2. f[i] = G[<<i, f[i - 1]>>]
        BY <1>4 DEF Computes
    <2> QED
        BY <1>3, <2>1, <2>2
<1>6. f = F(f)
    <2>1. f \in [0 .. n -> S] /\ f[0] = {Root}
        BY <1>4 DEF Computes
    <2>2. ASSUME NEW i \in 0 .. n PROVE f[i] = F(f)[i]
        <3>1. F(f)[i] = IF i = 0 THEN {Root} ELSE Opened(f[i - 1], path[i])
            OBVIOUS
        <3>2. i # 0 => i \in 1 .. n
            BY <1>1
        <3> HIDE DEF F
        <3> QED
            BY <1>5, <2>1, <3>1, <3>2
    <2>3. DOMAIN F(f) = 0 .. n /\ F(f) = [i \in 0 .. n |-> F(f)[i]]
        OBVIOUS
    <2>4. f = [i \in 0 .. n |-> f[i]]
        BY <2>1
    <2> HIDE DEF F
    <2> QED
        BY <2>2, <2>3, <2>4
<1>7. Place(path) = (CHOOSE g : g = F(g))[n]
    BY DEF Place
<1> DEFINE r == CHOOSE g : g = F(g)
<1>8. r = F(r)
    <2> HIDE DEF F
    <2> QED
        BY <1>6
<1> HIDE DEF r
<1>9. r[0] = {Root}
    BY <1>1, <1>8
<1>10. ASSUME NEW k \in 1 .. n
       PROVE  r[k] = Opened(r[k - 1], path[k])
    <2>1. k \in 0 .. n /\ k # 0
        BY <1>1
    <2>2. F(r)[k] = IF k = 0 THEN {Root} ELSE Opened(r[k - 1], path[k])
        BY <2>1
    <2> HIDE DEF F
    <2>3. r[k] = F(r)[k]
        BY <1>8
    <2> QED
        BY <2>1, <2>2, <2>3
<1> QED
    BY <1>7, <1>9, <1>10 DEF r

(* A path whose names open, one by one, one directory after the other      *)
(* leads to the last of them.                                              *)
LEMMA PlaceOf ==
    ASSUME NEW path \in Seq(AnyName), NEW way \in [0 .. Len(path) -> Clusters], way[0] = Root,
           \A k \in 1 .. Len(path) : Opened({way[k - 1]}, path[k]) = {way[k]}
    PROVE  Place(path) = {way[Len(path)]}
<1> PICK n : n = Len(path)
    OBVIOUS
<1>1. n \in Nat
    OBVIOUS
<1>2. PICK r : /\ Place(path) = r[n] /\ r[0] = {Root}
               /\ \A k \in 1 .. n : r[k] = Opened(r[k - 1], path[k])
    BY PlaceSteps
<1> DEFINE T == {k \in Nat : k <= n => r[k] = {way[k]}}
<1>3. 0 \in T
    BY <1>2
<1>4. ASSUME NEW k \in Nat, k \in T PROVE k + 1 \in T
    <2> SUFFICES ASSUME k + 1 <= n PROVE r[k + 1] = {way[k + 1]}
        OBVIOUS
    <2>1. k + 1 \in 1 .. n /\ (k + 1) - 1 = k /\ r[k] = {way[k]}
        BY <1>1, <1>4
    <2>2. r[k + 1] = Opened(r[k], path[k + 1]) /\ Opened({way[k]}, path[k + 1]) = {way[k + 1]}
        BY <1>2, <2>1
    <2> QED
        BY <2>1, <2>2
<1>5. Nat \subseteq T
    <2> HIDE DEF T
    <2> QED
        BY <1>3, <1>4, NatInduct
<1> QED
    BY <1>1, <1>2, <1>5

(* From w.cur the names of w's path lead back to c. *)
WayBack(w, c) ==
    /\ vol.tab[w.cur][0] = Folder(w.name, w.cur)
    /\ \E way \in [0 .. Len(w.path) -> Clusters] :
        /\ way[0] = c /\ way[Len(w.path)] = w.cur
        /\ \A k \in 1 .. Len(w.path) :
               w.path[k] # NoName /\ Opened({way[k]}, w.path[k]) = {way[k - 1]}

LEMMA TrailIs == \A c : TrailFrom(c) <=> WayBack(walk, c)
    BY DEF TrailFrom, WayBack, IsFolder

LEMMA OpenedSame ==
    ASSUME vol' = vol
    PROVE  \A D, n : Opened(D, n)' = Opened(D, n)
    BY DEF Opened

LEMMA TrailIsNext ==
    ASSUME vol' = vol, NEW c, WayBack(walk', c)
    PROVE  TrailFrom(c)'
<1> PICK w : w = walk'
    OBVIOUS
<1>1. IsFolder(walk.cur, walk.name)'
    BY DEF WayBack, IsFolder
<1>2. PICK way \in [0 .. Len(w.path) -> Clusters] :
          /\ way[0] = c /\ way[Len(w.path)] = w.cur
          /\ \A k \in 1 .. Len(w.path) :
                 w.path[k] # NoName /\ Opened({way[k]}, w.path[k]) = {way[k - 1]}
    BY DEF WayBack
<1>3. \A k \in 1 .. Len(w.path) : Opened({way[k]}, walk.path[k])' = {way[k - 1]}
    BY <1>2, OpenedSame
<1> QED
    BY <1>1, <1>2, <1>3 DEF TrailFrom

LEMMA PlaceSame ==
    ASSUME vol' = vol
    PROVE  \A path : Place(path)' = Place(path)
    BY DEF Place, Opened

(* The entry of a directory opens that directory and no other. *)
LEMMA OpensOne ==
    ASSUME NEW h, Tree(vol, h), NEW p \in Clusters, NEW i \in Slots, NEW n, NEW c \in Clusters,
           vol.tab[p][i] = Folder(n, c)
    PROVE  Opened({p}, n) = {c}
<1>1. LET x == vol.tab[p][i] IN x.used /\ x.dir /\ x.name = n /\ x.first = c /\ x.ext = FALSE
    BY MadeIs
<1>2. ASSUME NEW j \in Slots, NEW y, y = vol.tab[p][j], y.used, y.dir, y.name = n
      PROVE  y.first = c
    <2>1. y = Folder(y.name, y.first)
        BY <1>2 DEF Tree, VolumeIn, MatchIn
    <2>2. y.ext = FALSE
        BY <2>1, MadeIs
    <2>3. j = i
        BY <1>1, <1>2, <2>2 DEF Tree, VolumeIn, OwnIn
    <2> QED
        BY <1>1, <1>2, <2>3
<1>3. ASSUME NEW q \in Opened({p}, n) PROVE q = c
    <2>1. PICK j \in Slots : LET y == vol.tab[p][j] IN y.used /\ y.dir /\ y.name = n /\ y.first = q
        BY <1>3 DEF Opened
    <2> QED
        BY <1>2, <2>1
<1>4. c \in Opened({p}, n)
    BY <1>1 DEF Opened
<1> QED
    BY <1>3, <1>4

(* One turn of the climb, from any directory but the root. *)
LEMMA ClimbsOne ==
    ASSUME NEW h, Tree(vol, h), walk \in Walk, walk.cur # Root, NEW c \in Clusters,
           WayBack(walk, c)
    PROVE  WayBack(Climbed(walk), c)
<1> PICK cur, name, path : cur = walk.cur /\ name = walk.name /\ path = walk.path
    OBVIOUS
<1> PICK n : n = Len(path)
    OBVIOUS
<1>1. cur \in Clusters /\ name \in AnyName /\ path \in Seq(AnyName) /\ n \in Nat
    BY DEF Walk
<1>2. vol.tab[cur][0] = Folder(name, cur)
    BY DEF WayBack
<1>3. PICK p \in Clusters, m \in AnyName, i \in Slots :
          /\ vol.tab[cur][1] = Folder(m, p) /\ vol.tab[p][0] = Folder(m, p)
          /\ name \in Names /\ vol.tab[p][i] = Folder(name, cur)
    <2>1. vol.tab[cur][0].dir
        BY <1>2, MadeIs
    <2>2. PICK l \in AnyName, p \in Clusters, m \in AnyName :
              /\ vol.tab[cur][0] = Folder(l, cur) /\ vol.tab[cur][1] = Folder(m, p)
              /\ vol.tab[p][0] = Folder(m, p)
              /\ l \in Names /\ \E i \in Slots : vol.tab[p][i] = Folder(l, cur)
        BY <1>1, <2>1, FolderIs
    <2>3. l = name
        <3>1. Folder(l, cur).name = l /\ Folder(name, cur).name = name
            BY MadeIs
        <3> QED
            BY <1>2, <2>2, <3>1
    <2> QED
        BY <2>2, <2>3
<1>4. Climbed(walk) = [cur |-> p, name |-> m, table |-> vol.tab[cur], path |-> Append(path, name)]
    <2>1. ReadDirectory(vol, cur, name).rc = 0
          /\ ReadDirectory(vol, cur, name).table = vol.tab[cur]
        BY <1>1, <1>2, OwnName
    <2>2. vol.tab[cur][1].first = p /\ vol.tab[cur][1].name = m
        BY <1>3, MadeIs
    <2> QED
        BY <2>1, <2>2 DEF Climbed
<1>5. PICK way \in [0 .. n -> Clusters] :
          /\ way[0] = c /\ way[n] = cur
          /\ \A k \in 1 .. n : path[k] # NoName /\ Opened({way[k]}, path[k]) = {way[k - 1]}
    BY DEF WayBack
<1> DEFINE on == [k \in 0 .. n + 1 |-> IF k <= n THEN way[k] ELSE p]
           longer == Append(path, name)
<1>6. on \in [0 .. n + 1 -> Clusters] /\ on[0] = c /\ on[n + 1] = p
      /\ \A k \in 0 .. n : on[k] = way[k]
    BY <1>1, <1>5
<1>7. Len(longer) = n + 1 /\ longer[n + 1] = name /\ \A k \in 1 .. n : longer[k] = path[k]
    BY <1>1
<1>8. name # NoName /\ Opened({p}, name) = {cur}
    <2>1. Opened({p}, name) = {cur}
        BY <1>1, <1>3, OpensOne
    <2>2. name # NoName
        BY <1>3, NamesDiffer
    <2> QED
        BY <2>1, <2>2
<1> HIDE DEF on, longer
<1>9. ASSUME NEW k \in 1 .. n + 1
      PROVE  longer[k] # NoName /\ Opened({on[k]}, longer[k]) = {on[k - 1]}
    <2>1. CASE k = n + 1
        <3>1. k - 1 = n /\ on[n] = cur
            BY <1>1, <1>5, <1>6, <2>1
        <3> QED
            BY <1>6, <1>7, <1>8, <2>1, <3>1
    <2>2. CASE k # n + 1
        <3>1. k \in 1 .. n /\ k \in 0 .. n /\ k - 1 \in 0 .. n
            BY <1>1, <2>2
        <3>2. on[k] = way[k] /\ on[k - 1] = way[k - 1] /\ longer[k] = path[k]
            BY <1>6, <1>7, <3>1
        <3> QED
            BY <1>5, <3>1, <3>2
    <2> QED
        BY <2>1, <2>2
<1>10. /\ Climbed(walk).path = longer /\ Climbed(walk).cur = p /\ Climbed(walk).name = m
    BY <1>4 DEF longer
<1> PICK w : w = Climbed(walk)
    OBVIOUS
<1>11. on \in [0 .. Len(w.path) -> Clusters] /\ on[0] = c /\ on[Len(w.path)] = w.cur
       /\ w.path = longer /\ vol.tab[w.cur][0] = Folder(w.name, w.cur)
    BY <1>3, <1>6, <1>7, <1>10
<1>12. \A k \in 1 .. Len(w.path) :
           w.path[k] # NoName /\ Opened({on[k]}, w.path[k]) = {on[k - 1]}
    BY <1>7, <1>9, <1>10
<1> QED
    BY <1>11, <1>12 DEF WayBack

(* The trail, turned round, is a path from the root. *)
LEMMA TrailLeadsBack ==
    ASSUME walk \in Walk, walk.cur = Root, NEW c \in Clusters, WayBack(walk, c)
    PROVE  Place(ReversePath(walk.path)) = {c}
<1> PICK path : path = walk.path
    OBVIOUS
<1> PICK n : n = Len(path)
    OBVIOUS
<1>1. path \in Seq(AnyName) /\ n \in Nat
    BY DEF Walk
<1>2. PICK way \in [0 .. n -> Clusters] :
          /\ way[0] = c /\ way[n] = Root
          /\ \A k \in 1 .. n : path[k] # NoName /\ Opened({way[k]}, path[k]) = {way[k - 1]}
    BY DEF WayBack
<1> PICK rev : rev = ReversePath(path)
    OBVIOUS
<1>3. rev \in Seq(AnyName) /\ Len(rev) = n /\ \A k \in 1 .. n : rev[k] = path[n + 1 - k]
    BY <1>1, <1>2, ReverseIs
<1> DEFINE on == [k \in 0 .. n |-> way[n - k]]
<1>4. on \in [0 .. n -> Clusters] /\ on[0] = Root /\ on[n] = c
    BY <1>1, <1>2
<1>5. ASSUME NEW k \in 1 .. n PROVE Opened({on[k - 1]}, rev[k]) = {on[k]}
    <2>1. k - 1 \in 0 .. n /\ k \in 0 .. n /\ n + 1 - k \in 1 .. n
          /\ n - (k - 1) = n + 1 - k /\ n - k = (n + 1 - k) - 1
        BY <1>1
    <2>2. on[k - 1] = way[n + 1 - k] /\ on[k] = way[(n + 1 - k) - 1] /\ rev[k] = path[n + 1 - k]
        BY <1>3, <2>1
    <2> QED
        BY <1>2, <2>1, <2>2
<1> HIDE DEF on
<1>6. on \in [0 .. Len(rev) -> Clusters] /\ on[Len(rev)] = c
      /\ \A k \in 1 .. Len(rev) : Opened({on[k - 1]}, rev[k]) = {on[k]}
    BY <1>3, <1>4, <1>5
<1>7. Place(rev) = {on[Len(rev)]}
    BY <1>3, <1>4, <1>6, PlaceOf
<1> QED
    BY <1>6, <1>7

(* A walk that is about to begin. *)
LEMMA WalkBegins ==
    ASSUME NEW c \in Clusters, NEW n, vol.tab[c][0] = Folder(n, c), NEW t
    PROVE  WayBack([cur |-> c, name |-> n, table |-> t, path |-> <<>>], c)
<1> DEFINE way == [k \in 0 .. 0 |-> c]
<1>1. way \in [0 .. 0 -> Clusters] /\ way[0] = c /\ 1 .. 0 = {}
    OBVIOUS
<1> HIDE DEF way
<1> PICK w : w = [cur |-> c, name |-> n, table |-> t, path |-> <<>>]
    OBVIOUS
<1>2. w.cur = c /\ w.name = n /\ Len(w.path) = 0
    OBVIOUS
<1> QED
    BY <1>1, <1>2 DEF WayBack

LEMMA PlaceOfNone == Place(<<>>) = {Root}
<1> PICK path : path = <<>>
    OBVIOUS
<1>1. path \in Seq(AnyName) /\ Len(path) = 0
    OBVIOUS
<1>2. PICK r : Place(path) = r[Len(path)] /\ r[0] = {Root}
    BY <1>1, PlaceSteps
<1> QED
    BY <1>1, <1>2

LEMMA WalkRests ==
    ASSUME WalkInv, UNCHANGED vars
    PROVE  WalkInv'
<1>1. vol' = vol /\ cwd' = cwd /\ pc' = pc /\ walk' = walk /\ hunt' = hunt
    BY DEF vars
<1>2. pc = "climb" => TrailFrom(cwd)'
    BY <1>1, TrailIs, TrailIsNext DEF WalkInv
<1>3. pc = "climb_find" => TrailFrom(hunt.at)'
    BY <1>1, TrailIs, TrailIsNext DEF WalkInv
<1>4. pc = "line" => Place(walk.path)' = {cwd}
    BY <1>1, PlaceSame DEF WalkInv
<1>5. pc = "prompt" => walk'.path = <<>>
    BY <1>1 DEF WalkInv
<1> QED
    BY <1>1, <1>2, <1>3, <1>4, <1>5 DEF WalkInv

(* The trail of the prompt, and of find once it has an answer, step by step. *)
LEMMA WalkStep ==
    ASSUME ~Links, Stands, WalkInv, pc = "answer" => IsFolder(hunt.at, hunt.atName), [Next]_vars
    PROVE  WalkInv'
<1>1. Tree(vol, cwd) /\ cwd \in Clusters /\ vol.tab[cwd][0] = Folder(cwdName, cwd)
    BY StandsTree
<1>2. walk \in Walk /\ hunt.at \in Clusters
    BY DEF Stands, ShellType, Hunt
<1>3. ASSUME walk'.path = <<>>, pc' \notin {"line", "climb", "climb_find"} PROVE WalkInv'
    BY <1>3 DEF WalkInv
<1>4. ASSUME Finish \/ Stop("halted") \/ Stop("crashed") \/ Stop("no_shell") PROVE WalkInv'
    <2>1. walk'.path = <<>> /\ pc' \notin {"line", "climb", "climb_find"}
        BY <1>4, NoLocals DEF Finish, Stop
    <2> QED
        BY <1>3, <2>1
<1>5. ASSUME pc' \in {"dfs", "scan", "answer"} PROVE WalkInv'
    BY <1>5 DEF WalkInv
<1>6. CASE Line
    <2>1. ASSUME NEW n, NEW e, CdParent \/ Cd(n) \/ Mkdir(n) \/ Ls \/ Rm(n, e) \/ Cat(n, e)
                               \/ Find(n, e)
          PROVE  Finish \/ Stop("halted") \/ pc' = "dfs"
        BY <2>1 DEF CdParent, Cd, Mkdir, Ls, Rm, Cat, Find
    <2>2. Finish \/ Stop("halted") \/ pc' = "dfs"
        BY <1>6, <2>1 DEF Line, Links
    <2> QED
        BY <1>4, <1>5, <2>2
<1>7. CASE Prompt
    <2>1. vol' = vol /\ cwd' = cwd /\ hunt' = hunt /\ walk.path = <<>>
        BY <1>7 DEF Prompt, WalkInv
    <2>2. CASE cwd = Root
        <3>1. pc' = "line" /\ walk' = walk
            BY <1>7, <2>2 DEF Prompt
        <3>2. Place(walk.path)' = {cwd}
            BY <2>1, <2>2, <3>1, PlaceSame, PlaceOfNone
        <3> QED
            BY <2>1, <3>1, <3>2 DEF WalkInv
    <2>3. CASE cwd # Root
        <3>1. pc' = "climb" /\ WayBack(walk', cwd)
            BY <1>1, <1>7, <2>3, WalkBegins DEF Prompt
        <3>2. TrailFrom(cwd)'
            BY <2>1, <3>1, TrailIsNext
        <3> QED
            BY <3>1, <3>2 DEF WalkInv
    <2> QED
        BY <2>2, <2>3
<1>8. CASE ClimbCwd \/ ClimbFind
    <2>1. CASE Len(walk.path) < PathMax
        <3>1. /\ vol' = vol /\ cwd' = cwd /\ pc' = pc /\ hunt' = hunt /\ walk' = Climbed(walk)
              /\ pc \in {"climb", "climb_find"} /\ walk.cur # Root
            BY <1>8, <2>1 DEF ClimbCwd, ClimbFind
        <3>2. CASE pc = "climb"
            <4>1. WayBack(walk', cwd)
                BY <1>1, <1>2, <3>1, <3>2, TrailIs, ClimbsOne DEF WalkInv
            <4>2. TrailFrom(cwd)'
                BY <3>1, <4>1, TrailIsNext
            <4> QED
                BY <3>1, <3>2, <4>2 DEF WalkInv
        <3>3. CASE pc = "climb_find"
            <4>1. WayBack(walk', hunt.at)
                BY <1>1, <1>2, <3>1, <3>3, TrailIs, ClimbsOne DEF WalkInv
            <4>2. TrailFrom(hunt.at)'
                BY <3>1, <4>1, TrailIsNext
            <4> QED
                BY <3>1, <3>3, <4>2 DEF WalkInv
        <3> QED
            BY <3>1, <3>2, <3>3
    <2>2. CASE ~(Len(walk.path) < PathMax)
        BY <1>4, <1>8, <2>2 DEF ClimbCwd, ClimbFind
    <2> QED
        BY <2>1, <2>2
<1>9. CASE ShowCwd
    <2>1. /\ vol' = vol /\ cwd' = cwd /\ pc' = "line" /\ pc = "climb" /\ walk.cur = Root
          /\ walk'.path = ReversePath(walk.path)
        BY <1>9 DEF ShowCwd, NoWalk
    <2>2. Place(ReversePath(walk.path)) = {cwd}
        BY <1>1, <1>2, <2>1, TrailIs, TrailLeadsBack DEF WalkInv
    <2>3. Place(walk.path)' = {cwd}
        BY <2>1, <2>2, PlaceSame
    <2> QED
        BY <2>1, <2>3 DEF WalkInv
<1>10. CASE DfsEnter \/ DfsScan \/ DfsScanned
    BY <1>5, <1>10 DEF DfsEnter, DfsScan, DfsScanned, Leave
<1>11. CASE Answer
    <2>1. CASE hunt.code = 1 \/ ~hunt.check \/ hunt.at = Root
        BY <1>4, <1>11, <2>1 DEF Answer
    <2>2. CASE ~(hunt.code = 1 \/ ~hunt.check \/ hunt.at = Root)
        <3>1. /\ vol' = vol /\ hunt' = hunt /\ pc' = "climb_find"
              /\ walk' = [cur |-> hunt.at, name |-> hunt.atName, table |-> ZeroTable, path |-> <<>>]
            BY <1>11, <2>2 DEF Answer
        <3>2. vol.tab[hunt.at][0] = Folder(hunt.atName, hunt.at)
            BY <1>11 DEF Answer, IsFolder
        <3>3. WayBack(walk', hunt.at)
            BY <1>2, <3>1, <3>2, WalkBegins
        <3>4. TrailFrom(hunt.at)'
            BY <3>1, <3>3, TrailIsNext
        <3> QED
            BY <3>1, <3>4 DEF WalkInv
    <2> QED
        BY <2>1, <2>2
<1>12. CASE ShowFind
    BY <1>4, <1>12 DEF ShowFind
<1>13. CASE MvRemove
    BY <1>13 DEF MvRemove, Stands
<1>14. CASE Boot
    BY <1>4, <1>14 DEF Boot
<1>15. CASE UNCHANGED vars
    BY <1>15, WalkRests
<1> QED
    BY <1>6, <1>7, <1>8, <1>9, <1>10, <1>11, <1>12, <1>13, <1>14, <1>15 DEF Next, Continue

-----------------------------------------------------------------------------
(* find *)

LEMMA InTreeIs ==
    /\ InTree \subseteq Clusters /\ Root \in InTree
    /\ \A d \in InTree, i \in Slots :
           vol.tab[d][i].used /\ vol.tab[d][i].dir /\ vol.tab[d][i].first \in Clusters
           => vol.tab[d][i].first \in InTree
    /\ \A D \in SUBSET Clusters : IsTree(D) => InTree \subseteq D
<1>1. InTree \subseteq Clusters /\ \A D \in SUBSET Clusters : IsTree(D) => InTree \subseteq D
    BY DEF InTree
<1>2. Root \in InTree
    BY Sizes DEF InTree, IsTree
<1>3. ASSUME NEW d \in InTree, NEW i \in Slots, NEW x, x = vol.tab[d][i],
             x.used, x.dir, x.first \in Clusters
      PROVE  x.first \in InTree
    <2>1. ASSUME NEW D \in SUBSET Clusters, IsTree(D) PROVE x.first \in D
        <3>1. d \in D
            BY <1>1, <2>1
        <3> QED
            BY <1>3, <2>1, <3>1 DEF IsTree
    <2> QED
        BY <1>3, <2>1 DEF InTree
<1> QED
    BY <1>1, <1>2, <1>3

LEMMA InTreeSame ==
    ASSUME vol' = vol
    PROVE  InTree' = InTree
    BY DEF InTree, IsTree

WantedBy(x, h) == x.used /\ x.name = h.name /\ (x.dir \/ x.ext = h.ext)

(* The directory of level k of the stack s. *)
DirOf(k, s) == s[k].table[0].first

AllDone(done, h) ==
    \A d \in done, i \in Slots : vol.tab[d][i].used =>
        ~WantedBy(vol.tab[d][i], h) /\ (vol.tab[d][i].dir => vol.tab[d][i].first \in done)

PassedAll(done, h, s, p) ==
    \A k \in 1 .. Len(s) : \A i \in 2 .. s[k].next - 1 : s[k].table[i].used =>
        \/ p = "dfs" /\ k = Len(s) /\ s[k].table[i].dir /\ s[k].table[i].first = h.at
        \/ /\ ~WantedBy(s[k].table[i], h)
           /\ s[k].table[i].dir => \/ s[k].table[i].first \in done
                                   \/ k < Len(s) /\ s[k].table[i].first = DirOf(k + 1, s)

FromRoot(done, h, s, p) ==
    IF s # <<>> THEN DirOf(1, s) = Root
    ELSE IF p = "dfs" THEN h.at = Root ELSE Root \in done

Searched(h, s, p) ==
    \E done \in SUBSET Clusters :
        AllDone(done, h) /\ PassedAll(done, h, s, p) /\ FromRoot(done, h, s, p)

Levels(s) ==
    \A k \in 1 .. Len(s) : /\ DirOf(k, s) \in InTree /\ vol.tab[DirOf(k, s)][0].dir
                           /\ s[k].table = vol.tab[DirOf(k, s)]

FoundFile(h) ==
    h.at \in InTree /\ \E i \in Slots :
        /\ vol.tab[h.at][i].used /\ ~vol.tab[h.at][i].dir
        /\ StartsWith(vol.tab[h.at][i].name, h.name) /\ vol.tab[h.at][i].ext = h.ext

SearchIn(h, s, p) ==
    /\ p \notin {"dfs", "scan"} => s = <<>>
    /\ p \in {"dfs", "scan"} => h.kind # "file"
    /\ p \in {"dfs", "scan", "answer"} =>
        /\ h.code = 0 /\ h.name \in Names
        /\ h.at \in InTree /\ vol.tab[h.at][0] = Folder(h.atName, h.at)
        /\ Levels(s)
        /\ ~h.check => Searched(h, s, p)
    /\ p = "answer" /\ h.kind = "file" => FoundFile(h)

LEMMA SearchIs == HuntInv <=> SearchIn(hunt, stack, pc)
<1>1. SearchedBut <=> Searched(hunt, stack, pc)
    BY DEF SearchedBut, Searched, AllDone, PassedAll, FromRoot, Wanted, WantedBy, Entering, Dir,
           DirOf
<1>2. (\A k \in 1 .. Len(stack) :
           /\ Dir(k) \in InTree /\ vol.tab[Dir(k)][0].dir
           /\ stack[k].table = vol.tab[Dir(k)]) <=> Levels(stack)
    BY DEF Levels, Dir, DirOf
<1>3. FileIsThere <=> (pc = "answer" => hunt.code = 0 /\ (hunt.kind = "file" => FoundFile(hunt)))
    BY DEF FileIsThere, FoundFile, FileMatches
<1> QED
    BY <1>1, <1>2, <1>3 DEF HuntInv, SearchIn, Hunting, IsFolder

LEMMA SearchIsNext ==
    ASSUME vol' = vol, SearchIn(hunt', stack', pc')
    PROVE  HuntInv'
<1>1. Searched(hunt', stack', pc') => SearchedBut'
    BY DEF SearchedBut, Searched, AllDone, PassedAll, FromRoot, Wanted, WantedBy, Entering, Dir,
           DirOf
<1>2. Levels(stack') => \A k \in 1 .. Len(stack') :
          /\ Dir(k)' \in InTree' /\ vol'.tab[Dir(k)'][0].dir
          /\ stack'[k].table = vol'.tab[Dir(k)']
    BY InTreeSame DEF Levels, Dir, DirOf
<1>3. pc' = "answer" /\ hunt'.code = 0 /\ (hunt'.kind = "file" => FoundFile(hunt')) => FileIsThere'
    BY InTreeSame DEF FileIsThere, FoundFile, FileMatches
<1>4. pc' # "answer" => FileIsThere'
    BY DEF FileIsThere
<1>5. hunt'.at \in InTree => hunt'.at \in InTree'
    BY InTreeSame
<1> QED
    BY <1>1, <1>2, <1>3, <1>4, <1>5 DEF HuntInv, SearchIn, Hunting, IsFolder

(* When no search goes on. *)
LEMMA NoSearch ==
    ASSUME stack' = <<>>, pc' \notin {"dfs", "scan", "answer"}
    PROVE  HuntInv'
    BY DEF HuntInv, Hunting, FileIsThere

LEMMA SearchBegins ==
    ASSUME Stands, pc = "line", stack = <<>>, NEW n, NEW e, <<n, e>> \in Sought, Find(n, e)
    PROVE  HuntInv'
<1> PICK h : h = hunt'
    OBVIOUS
<1>1. n \in Names /\ vol.tab[Root][0] = Folder(RootName, Root)
    BY ShellAssumption, StandsTree DEF Tree, RootIn
<1>2. /\ h.name = n /\ h.kind = "none" /\ h.code = 0 /\ h.at = Root /\ h.atName = RootName
      /\ pc' = "dfs" /\ stack' = <<>> /\ vol' = vol
    BY DEF Find, NoHunt
<1>3. Searched(h, <<>>, "dfs")
    <2>1. AllDone({}, h) /\ PassedAll({}, h, <<>>, "dfs") /\ FromRoot({}, h, <<>>, "dfs")
        BY <1>2 DEF AllDone, PassedAll, FromRoot
    <2> QED
        BY <2>1 DEF Searched
<1>4. Levels(<<>>)
    BY DEF Levels
<1>5. SearchIn(h, <<>>, "dfs")
    BY <1>1, <1>2, <1>3, <1>4, InTreeIs DEF SearchIn
<1> QED
    BY <1>2, <1>5, SearchIsNext

(* An entry of a directory of the tree that is one itself. *)
LEMMA ChildInTree ==
    ASSUME Stands, NEW d \in InTree, vol.tab[d][0].dir, NEW i \in Slots, NEW x,
           x = vol.tab[d][i], x.dir
    PROVE  /\ x.used /\ x = Folder(x.name, x.first) /\ x.first \in InTree
           /\ vol.tab[x.first][0] = x
<1>1. Tree(vol, cwd) /\ d \in Clusters /\ i \in Index
    BY StandsTree, InTreeIs, Sizes
<1>2. x.used
    BY <1>1 DEF Tree, SlotsIn
<1>3. x.first \in Clusters /\ x = Folder(x.name, x.first) /\ vol.tab[x.first][0] = x
    BY <1>1, EntryOpens
<1> QED
    BY <1>2, <1>3, InTreeIs

(* The table that dfs reads is that of the directory it has come to. *)
LEMMA SearchEnters ==
    ASSUME Stands, HuntInv, DfsEnter
    PROVE  HuntInv'
<1> PICK h, s : h = hunt /\ s = stack
    OBVIOUS
<1> PICK n : n = Len(s)
    OBVIOUS
<1> PICK same : same = StartsWith(h.name, h.atName)
    OBVIOUS
<1> PICK seen : seen = [h EXCEPT !.check = @ \/ same, !.kind = IF same THEN "dir" ELSE @]
    OBVIOUS
<1>1. pc = "dfs" /\ vol' = vol
    BY DEF DfsEnter
<1>2. SearchIn(h, s, "dfs") /\ s \in Seq(Frame) /\ n \in Nat /\ h \in Hunt /\ Tree(vol, cwd)
    BY <1>1, SearchIs, StandsTree DEF Stands, ShellType
<1>3. h.code = 0 /\ h.name \in Names /\ h.at \in InTree /\ vol.tab[h.at][0] = Folder(h.atName, h.at)
      /\ h.kind # "file" /\ Levels(s) /\ (~h.check => Searched(h, s, "dfs"))
    BY <1>2 DEF SearchIn
<1>4. h.at \in Clusters
    BY <1>3, InTreeIs
<1> PICK f : f = [table |-> vol.tab[h.at], next |-> 2]
    OBVIOUS
<1>5. hunt' = seen /\ pc' = "scan" /\ stack' = Append(s, f)
    <2> PICK r : r = ReadDirectory(vol, h.at, h.atName)
        OBVIOUS
    <2>1. r.rc = 0 /\ r.table = vol.tab[h.at]
        BY <1>3, <1>4, OwnName
    <2>2. \/ r.rc # 0
          \/ hunt' = seen /\ pc' = "scan" /\ stack' = Append(s, [table |-> r.table, next |-> 2])
        BY DEF DfsEnter
    <2> QED
        BY <2>1, <2>2
<1> PICK on : on = Append(s, f)
    OBVIOUS
<1>6. Len(on) = n + 1 /\ on[n + 1] = f /\ on # <<>> /\ \A k \in 1 .. n : on[k] = s[k]
    BY <1>2
<1>7. /\ seen.code = 0 /\ seen.name = h.name /\ seen.at = h.at /\ seen.atName = h.atName
      /\ seen.ext = h.ext /\ seen.kind # "file" /\ (~seen.check => ~h.check /\ ~same)
    BY <1>2, <1>3 DEF Hunt
<1>8. f.table = vol.tab[h.at] /\ f.next = 2 /\ f.table[0].first = h.at /\ vol.tab[h.at][0].dir
    BY <1>3, MadeIs
<1>9. DirOf(n + 1, on) = h.at /\ \A k \in 1 .. n : DirOf(k, on) = DirOf(k, s)
    BY <1>6, <1>8 DEF DirOf
<1>10. Levels(on)
    <2>1. ASSUME NEW k \in 1 .. n + 1
          PROVE  /\ DirOf(k, on) \in InTree /\ vol.tab[DirOf(k, on)][0].dir
                 /\ on[k].table = vol.tab[DirOf(k, on)]
        <3>1. CASE k = n + 1
            BY <1>3, <1>6, <1>8, <1>9, <3>1
        <3>2. CASE k # n + 1
            <4>1. k \in 1 .. n
                BY <1>2, <3>2
            <4> QED
                BY <1>3, <1>6, <1>9, <4>1 DEF Levels
        <3> QED
            BY <3>1, <3>2
    <2> QED
        BY <1>6, <2>1 DEF Levels
<1>11. ASSUME ~seen.check PROVE Searched(seen, on, "scan")
    <2>1. PICK done \in SUBSET Clusters :
              AllDone(done, h) /\ PassedAll(done, h, s, "dfs") /\ FromRoot(done, h, s, "dfs")
        BY <1>3, <1>7, <1>11 DEF Searched
    <2>2. \A y : WantedBy(y, seen) <=> WantedBy(y, h)
        BY <1>7 DEF WantedBy
    <2>3. AllDone(done, seen)
        BY <2>1, <2>2 DEF AllDone
    <2>4. FromRoot(done, seen, on, "scan")
        <3>1. CASE s = <<>>
            <4>1. n = 0 /\ h.at = Root
                BY <2>1, <3>1 DEF FromRoot
            <4> QED
                BY <1>6, <1>9, <4>1 DEF FromRoot
        <3>2. CASE s # <<>>
            <4>1. 1 \in 1 .. n /\ DirOf(1, s) = Root
                BY <1>2, <2>1, <3>2 DEF FromRoot
            <4> QED
                BY <1>6, <1>9, <4>1 DEF FromRoot
        <3> QED
            BY <3>1, <3>2
    <2>5. ASSUME NEW k \in 1 .. n + 1, NEW i \in 2 .. on[k].next - 1, NEW x, x = on[k].table[i],
                 x.used
          PROVE  /\ ~WantedBy(x, seen)
                 /\ x.dir => x.first \in done \/ (k < n + 1 /\ x.first = DirOf(k + 1, on))
        <3>1. CASE k = n + 1
            BY <1>6, <1>8, <2>5, <3>1
        <3>2. CASE k # n + 1
            <4>1. k \in 1 .. n /\ on[k] = s[k] /\ k < n + 1
                BY <1>2, <1>6, <3>2
            <4>2. \/ k = n /\ x.dir /\ x.first = h.at
                  \/ /\ ~WantedBy(x, h)
                     /\ x.dir => x.first \in done \/ (k < n /\ x.first = DirOf(k + 1, s))
                BY <2>1, <2>5, <4>1 DEF PassedAll
            <4>3. CASE k = n /\ x.dir /\ x.first = h.at
                <5>1. s[k] \in Frame /\ s[k].next \in 2 .. TableSize
                    <6>1. s[k] \in Frame
                        BY <1>2, <4>1
                    <6> QED
                        BY <6>1 DEF Frame
                <5>2. i \in Slots
                    BY <2>5, <4>1, <5>1, Sizes DEF Slots
                <5>3. x = vol.tab[DirOf(k, s)][i] /\ DirOf(k, s) \in InTree
                      /\ vol.tab[DirOf(k, s)][0].dir
                    BY <1>3, <2>5, <4>1 DEF Levels
                <5>4. x = vol.tab[h.at][0] /\ x.name = h.atName
                    BY <1>3, <4>3, <5>2, <5>3, ChildInTree, MadeIs
                <5>5. x.name # h.name
                    BY <1>7, <1>11, <5>4 DEF StartsWith
                <5>6. x.first = DirOf(k + 1, on)
                    BY <1>9, <4>3
                <5> QED
                    BY <1>7, <4>1, <5>5, <5>6 DEF WantedBy
            <4>4. CASE /\ ~WantedBy(x, h)
                       /\ x.dir => x.first \in done \/ (k < n /\ x.first = DirOf(k + 1, s))
                <5>1. k < n => DirOf(k + 1, on) = DirOf(k + 1, s)
                    BY <1>2, <1>9, <4>1
                <5> QED
                    BY <2>2, <4>1, <4>4, <5>1
            <4> QED
                BY <4>2, <4>3, <4>4
        <3> QED
            BY <3>1, <3>2
    <2>6. PassedAll(done, seen, on, "scan")
        <3>1. ASSUME NEW k \in 1 .. Len(on), NEW i \in 2 .. on[k].next - 1, on[k].table[i].used
              PROVE  /\ ~WantedBy(on[k].table[i], seen)
                     /\ on[k].table[i].dir =>
                            \/ on[k].table[i].first \in done
                            \/ k < Len(on) /\ on[k].table[i].first = DirOf(k + 1, on)
            <4>1. k \in 1 .. n + 1 /\ Len(on) = n + 1
                BY <1>6, <3>1
            <4> QED
                BY <2>5, <3>1, <4>1
        <3> QED
            BY <3>1 DEF PassedAll
    <2> QED
        BY <2>3, <2>4, <2>6 DEF Searched
<1>12. SearchIn(seen, on, "scan")
    BY <1>3, <1>7, <1>10, <1>11 DEF SearchIn
<1> QED
    BY <1>1, <1>5, <1>12, SearchIsNext

(* The directory at the top of the stack. *)
LEMMA TopIs ==
    ASSUME Stands, HuntInv, pc = "scan", NEW n, n = Len(stack), NEW d, d = DirOf(n, stack)
    PROVE  /\ n \in Nat /\ n >= 1 /\ Top = stack[n] /\ Top \in Frame
           /\ d \in InTree /\ d \in Clusters /\ vol.tab[d][0].dir /\ Top.table = vol.tab[d]
           /\ \E m \in AnyName : vol.tab[d][0] = Folder(m, d)
           /\ Top.next \in 2 .. TableSize
<1>1. n \in Nat /\ n >= 1 /\ Top \in Frame /\ Top.next \in 2 .. TableSize
    BY TopType DEF Stands
<1>2. SearchIn(hunt, stack, "scan")
    BY SearchIs
<1>3. n \in 1 .. n
    BY <1>1
<1>4. d \in InTree /\ vol.tab[d][0].dir /\ stack[n].table = vol.tab[d]
    BY <1>2, <1>3 DEF SearchIn, Levels
<1>5. d \in Clusters
    BY <1>4, InTreeIs
<1>6. \E m \in AnyName : vol.tab[d][0] = Folder(m, d)
    BY <1>4, <1>5, StandsTree, FolderIs
<1> QED
    BY <1>1, <1>4, <1>5, <1>6 DEF Top

(* A search that has found something returns from all its calls. *)
LEMMA SearchFinds ==
    ASSUME vol' = vol, NEW h, Leave(h), h.check, h.code = 0, h.name \in Names, h.at \in InTree,
           vol.tab[h.at][0] = Folder(h.atName, h.at), h.kind = "file" => FoundFile(h)
    PROVE  HuntInv'
<1>1. hunt' = h /\ stack' = <<>> /\ pc' = "answer"
    BY DEF Leave
<1>2. SearchIn(h, <<>>, "answer")
    BY DEF SearchIn, Levels
<1> QED
    BY <1>1, <1>2, SearchIsNext

(* What is searched up to an entry that is not in use is searched up to    *)
(* the next one, which is looked at now.                                   *)
LEMMA PassedOn ==
    ASSUME Stands, HuntInv, pc = "scan", Rest(Top) # {}, NEW i, i = Min(Rest(Top)),
           NEW on, on = [stack EXCEPT ![Len(stack)] = Passed(Top)],
           NEW done \in SUBSET Clusters, NEW g, NEW p, p \in {"dfs", "scan"},
           g.name = hunt.name, g.ext = hunt.ext,
           PassedAll(done, hunt, stack, "scan"),
           Top.table[i].used =>
               \/ p = "dfs" /\ Top.table[i].dir /\ Top.table[i].first = g.at
               \/ ~WantedBy(Top.table[i], g) /\ ~Top.table[i].dir
    PROVE  PassedAll(done, g, on, p)
<1> PICK n : n = Len(stack)
    OBVIOUS
<1> PICK d : d = DirOf(n, stack)
    OBVIOUS
<1> PICK f : f = Top
    OBVIOUS
<1>1. n \in Nat /\ n >= 1 /\ f = stack[n] /\ f \in Frame /\ f.table = vol.tab[d]
      /\ d \in Clusters /\ f.next \in 2 .. TableSize
    BY TopIs
<1>2. /\ i \in Slots /\ i >= f.next /\ \A j \in f.next .. i - 1 : f.table[j].name = NoName
      /\ Passed(f) = [table |-> f.table, next |-> i + 1]
    BY <1>1, NextIs
<1>3. stack \in Seq(Frame)
    BY DEF Stands, ShellType
<1>4. /\ Len(on) = n /\ on[n] = [table |-> f.table, next |-> i + 1]
      /\ \A k \in 1 .. n - 1 : on[k] = stack[k]
    <2> PICK y : y = Passed(f)
        OBVIOUS
    <2>1. on = [stack EXCEPT ![n] = y] /\ y \in Frame
        BY <1>1, NextIs
    <2>2. Len(on) = n
        BY <1>3, <2>1
    <2>3. on[n] = y
        BY <1>1, <1>3, <2>1
    <2>4. ASSUME NEW k \in 1 .. n - 1 PROVE on[k] = stack[k]
        BY <1>1, <1>3, <2>1
    <2> QED
        BY <1>2, <2>2, <2>3, <2>4
<1>5. ASSUME NEW k \in 1 .. n PROVE DirOf(k, on) = DirOf(k, stack)
    <2>1. on[n].table = stack[n].table
        BY <1>1, <1>4
    <2>2. k = n \/ k \in 1 .. n - 1
        BY <1>1
    <2> QED
        BY <1>4, <2>1, <2>2 DEF DirOf
<1>6. \A y : WantedBy(y, g) <=> WantedBy(y, hunt)
    BY DEF WantedBy
<1>7. \A j \in Slots : f.table[j].used => f.table[j].name # NoName
    BY <1>1, StandsTree, NamesDiffer DEF Tree, SlotsIn
<1>8. ASSUME NEW j \in 2 .. i, NEW x, x = f.table[j], x.used
      PROVE  \/ p = "dfs" /\ x.dir /\ x.first = g.at
             \/ ~WantedBy(x, g) /\ (x.dir => x.first \in done)
    <2>1. j \in Slots /\ j \in Nat
        BY <1>2, Sizes DEF Slots
    <2>2. CASE j = i
        BY <1>8, <2>2
    <2>3. CASE j \in f.next .. i - 1
        BY <1>2, <1>7, <1>8, <2>1, <2>3
    <2>4. CASE j \in 2 .. f.next - 1
        <3>1. n \in 1 .. n /\ ~(n < n)
            BY <1>1
        <3>2. ~WantedBy(x, hunt) /\ (x.dir => x.first \in done)
            BY <1>1, <1>8, <2>4, <3>1 DEF PassedAll
        <3> QED
            BY <1>6, <3>2
    <2> QED
        BY <1>1, <1>2, <2>1, <2>2, <2>3, <2>4, Sizes
<1>9. ASSUME NEW k \in 1 .. n, NEW j \in 2 .. on[k].next - 1, NEW x, x = on[k].table[j], x.used
      PROVE  \/ p = "dfs" /\ k = n /\ x.dir /\ x.first = g.at
             \/ /\ ~WantedBy(x, g)
                /\ x.dir => x.first \in done \/ (k < n /\ x.first = DirOf(k + 1, on))
    <2>1. CASE k = n
        <3>1. j \in 2 .. i /\ x = f.table[j]
            BY <1>2, <1>4, <1>9, <2>1, Sizes
        <3> QED
            BY <1>8, <1>9, <2>1, <3>1
    <2>2. CASE k # n
        <3>1. k \in 1 .. n - 1 /\ k + 1 \in 1 .. n /\ k < n
            BY <1>1, <2>2
        <3>2. on[k] = stack[k] /\ DirOf(k + 1, on) = DirOf(k + 1, stack)
            BY <1>4, <1>5, <3>1
        <3>3. /\ ~WantedBy(x, hunt)
              /\ x.dir => x.first \in done \/ (k < n /\ x.first = DirOf(k + 1, stack))
            BY <1>9, <3>1, <3>2 DEF PassedAll
        <3> QED
            BY <1>6, <3>1, <3>2, <3>3
    <2> QED
        BY <2>1, <2>2
<1>10. ASSUME NEW k \in 1 .. Len(on), NEW j \in 2 .. on[k].next - 1, on[k].table[j].used
       PROVE  \/ p = "dfs" /\ k = Len(on) /\ on[k].table[j].dir /\ on[k].table[j].first = g.at
              \/ /\ ~WantedBy(on[k].table[j], g)
                 /\ on[k].table[j].dir => \/ on[k].table[j].first \in done
                                          \/ k < Len(on) /\ on[k].table[j].first = DirOf(k + 1, on)
    <2>1. k \in 1 .. n /\ Len(on) = n
        BY <1>4, <1>10
    <2> QED
        BY <1>9, <1>10, <2>1
<1> QED
    BY <1>10 DEF PassedAll

(* A directory, a file that matches, or an entry that does not. *)
LEMMA SearchScans ==
    ASSUME Stands, HuntInv, DfsScan
    PROVE  HuntInv'
<1> PICK h, s : h = hunt /\ s = stack
    OBVIOUS
<1> PICK n : n = Len(s)
    OBVIOUS
<1> PICK d : d = DirOf(n, s)
    OBVIOUS
<1> PICK f : f = Top
    OBVIOUS
<1> PICK i : i = Min(Rest(f))
    OBVIOUS
<1> PICK x : x = f.table[i]
    OBVIOUS
<1> PICK on : on = [s EXCEPT ![n] = Passed(f)]
    OBVIOUS
<1>1. pc = "scan" /\ Rest(f) # {} /\ vol' = vol
    BY DEF DfsScan
<1>2. /\ n \in Nat /\ n >= 1 /\ f = s[n] /\ f \in Frame /\ d \in InTree /\ d \in Clusters
      /\ vol.tab[d][0].dir /\ f.table = vol.tab[d]
    BY <1>1, TopIs
<1>3. PICK m \in AnyName : vol.tab[d][0] = Folder(m, d)
    BY <1>1, TopIs
<1>4. /\ i \in Slots /\ i \in Index /\ x = vol.tab[d][i] /\ x.name # NoName
      /\ Passed(f) = [table |-> f.table, next |-> i + 1] /\ Passed(f) \in Frame
    BY <1>1, <1>2, NextIs, Sizes
<1>5. SearchIn(h, s, "scan") /\ s \in Seq(Frame) /\ h \in Hunt /\ Tree(vol, cwd)
    BY <1>1, SearchIs, StandsTree DEF Stands, ShellType
<1>6. h.code = 0 /\ h.name \in Names /\ h.at \in InTree /\ vol.tab[h.at][0] = Folder(h.atName, h.at)
      /\ h.kind # "file" /\ Levels(s) /\ (~h.check => Searched(h, s, "scan"))
    BY <1>5 DEF SearchIn
<1>7. \/ /\ x.dir
         /\ hunt' = [h EXCEPT !.at = x.first, !.atName = x.name] /\ pc' = "dfs" /\ stack' = on
      \/ ~x.dir /\ FileMatches(x) /\ Leave(InTable(f.table))
      \/ ~x.dir /\ h.check /\ Leave(h)
      \/ ~x.dir /\ ~FileMatches(x) /\ stack' = on /\ hunt' = h /\ pc' = "scan"
    BY <1>1 DEF DfsScan
<1>8. Levels(on) /\ on # <<>> /\ DirOf(1, on) = DirOf(1, s)
    <2> PICK y : y = Passed(f)
        OBVIOUS
    <2>1. on = [s EXCEPT ![n] = y] /\ y \in Frame /\ y.table = f.table
        BY <1>4
    <2>2. Len(on) = n
        BY <1>5, <2>1
    <2>3. on[n] = y
        BY <1>2, <1>5, <2>1
    <2>4. ASSUME NEW k \in 1 .. n PROVE on[k].table = s[k].table
        <3>1. CASE k = n
            BY <1>2, <2>1, <2>3, <3>1
        <3>2. CASE k # n
            BY <1>2, <1>5, <2>1, <3>2
        <3> QED
            BY <3>1, <3>2
    <2>5. Levels(on)
        <3>1. ASSUME NEW k \in 1 .. n
              PROVE  /\ DirOf(k, on) \in InTree /\ vol.tab[DirOf(k, on)][0].dir
                     /\ on[k].table = vol.tab[DirOf(k, on)]
            <4>1. DirOf(k, on) = DirOf(k, s)
                BY <2>4 DEF DirOf
            <4> QED
                BY <1>6, <2>4, <4>1 DEF Levels
        <3> QED
            BY <2>2, <3>1 DEF Levels
    <2>6. on # <<>>
        BY <1>2, <2>2
    <2>7. 1 \in 1 .. n
        BY <1>2
    <2> QED
        BY <2>4, <2>5, <2>6, <2>7 DEF DirOf
<1>9. ASSUME NEW g, NEW p, p \in {"dfs", "scan"}, g.name = h.name, g.ext = h.ext, ~h.check,
             x.used => \/ p = "dfs" /\ x.dir /\ x.first = g.at
                       \/ ~WantedBy(x, g) /\ ~x.dir
      PROVE  Searched(g, on, p)
    <2>1. PICK done \in SUBSET Clusters :
              AllDone(done, h) /\ PassedAll(done, h, s, "scan") /\ FromRoot(done, h, s, "scan")
        BY <1>6, <1>9 DEF Searched
    <2>2. PassedAll(done, g, on, p)
        BY <1>1, <1>9, <2>1, PassedOn
    <2>3. AllDone(done, g)
        BY <1>9, <2>1 DEF AllDone, WantedBy
    <2>4. s # <<>>
        BY <1>2
    <2>5. FromRoot(done, g, on, p)
        BY <1>8, <2>1, <2>4 DEF FromRoot
    <2> QED
        BY <2>2, <2>3, <2>5 DEF Searched
<1>10. CASE /\ x.dir
            /\ hunt' = [h EXCEPT !.at = x.first, !.atName = x.name] /\ pc' = "dfs" /\ stack' = on
    <2> PICK g : g = [h EXCEPT !.at = x.first, !.atName = x.name]
        OBVIOUS
    <2>1. /\ g.code = h.code /\ g.name = h.name /\ g.ext = h.ext /\ g.kind = h.kind
          /\ g.check = h.check /\ g.at = x.first /\ g.atName = x.name
        BY <1>5 DEF Hunt
    <2>2. x.first \in InTree /\ vol.tab[x.first][0] = Folder(x.name, x.first)
        <3>1. x = Folder(x.name, x.first) /\ x.first \in InTree /\ vol.tab[x.first][0] = x
            <4>1. x.dir /\ i \in Slots /\ x = vol.tab[d][i]
                BY <1>4, <1>10
            <4>2. d \in InTree /\ vol.tab[d][0].dir
                BY <1>2
            <4> QED
                BY <4>1, <4>2, ChildInTree
        <3> QED
            BY <3>1
    <2>3. ~g.check => Searched(g, on, "dfs")
        BY <1>9, <1>10, <2>1
    <2>4. SearchIn(g, on, "dfs")
        BY <1>6, <1>8, <2>1, <2>2, <2>3 DEF SearchIn
    <2> QED
        BY <1>1, <1>10, <2>4, SearchIsNext
<1>11. CASE ~x.dir /\ FileMatches(x) /\ Leave(InTable(f.table))
    <2> PICK g : g = InTable(f.table)
        OBVIOUS
    <2>1. /\ g.code = h.code /\ g.name = h.name /\ g.ext = h.ext /\ g.check
          /\ g.at = vol.tab[d][0].first /\ g.atName = vol.tab[d][0].name
        BY <1>2, <1>5 DEF InTable, Hunt
    <2>2. g.at = d /\ g.atName = m
        BY <1>3, <2>1, MadeIs
    <2>3. StartsWith(x.name, h.name) /\ x.ext = h.ext
        BY <1>11 DEF FileMatches
    <2>4. x.name \in Names
        BY <1>6, <2>3, NamesDiffer DEF StartsWith
    <2>5. x.used
        BY <1>2, <1>4, <1>5, <2>4, NamesDiffer DEF Tree, SlotsIn
    <2>6. FoundFile(g)
        <3>1. vol.tab[g.at][i] = x /\ g.at \in InTree
            BY <1>2, <1>4, <2>2
        <3>2. x.used /\ ~x.dir /\ StartsWith(x.name, g.name) /\ x.ext = g.ext
            BY <1>11, <2>1, <2>3, <2>5
        <3> QED
            BY <1>4, <3>1, <3>2 DEF FoundFile
    <2> QED
        BY <1>1, <1>2, <1>3, <1>6, <1>11, <2>1, <2>2, <2>6, SearchFinds
<1>12. CASE ~x.dir /\ h.check /\ Leave(h)
    BY <1>1, <1>6, <1>12, SearchFinds
<1>13. CASE ~x.dir /\ ~FileMatches(x) /\ stack' = on /\ hunt' = h /\ pc' = "scan"
    <2>1. ~WantedBy(x, h)
        BY <1>13 DEF WantedBy, FileMatches, StartsWith
    <2>2. ~h.check => Searched(h, on, "scan")
        BY <1>9, <1>13, <2>1
    <2>3. SearchIn(h, on, "scan")
        BY <1>6, <1>8, <2>2 DEF SearchIn
    <2> QED
        BY <1>1, <1>13, <2>3, SearchIsNext
<1> QED
    BY <1>7, <1>10, <1>11, <1>12, <1>13

(* The directory at the top of the stack is done with. *)
LEMMA SearchLeaves ==
    ASSUME Stands, HuntInv, DfsScanned
    PROVE  HuntInv'
<1> PICK h, s : h = hunt /\ s = stack
    OBVIOUS
<1> PICK n : n = Len(s)
    OBVIOUS
<1> PICK d : d = DirOf(n, s)
    OBVIOUS
<1> PICK f : f = Top
    OBVIOUS
<1>1. pc = "scan" /\ Rest(f) = {} /\ vol' = vol /\ Leave(h)
    BY DEF DfsScanned
<1>2. /\ n \in Nat /\ n >= 1 /\ f = s[n] /\ d \in InTree /\ d \in Clusters
      /\ f.table = vol.tab[d] /\ f.next \in 2 .. TableSize
    BY <1>1, TopIs
<1>3. SearchIn(h, s, "scan") /\ s \in Seq(Frame) /\ Tree(vol, cwd)
    BY <1>1, SearchIs, StandsTree DEF Stands, ShellType
<1>4. h.code = 0 /\ h.name \in Names /\ h.at \in InTree /\ vol.tab[h.at][0] = Folder(h.atName, h.at)
      /\ h.kind # "file" /\ Levels(s) /\ (~h.check => Searched(h, s, "scan"))
    BY <1>3 DEF SearchIn
<1>5. CASE h.check
    BY <1>1, <1>4, <1>5, SearchFinds
<1>6. CASE ~h.check
    <2>1. PICK done \in SUBSET Clusters :
              AllDone(done, h) /\ PassedAll(done, h, s, "scan") /\ FromRoot(done, h, s, "scan")
        BY <1>4, <1>6 DEF Searched
    <2> PICK more : more = done \cup {d}
        OBVIOUS
    <2>2. ASSUME NEW i \in Slots, NEW x, x = vol.tab[d][i], x.used
          PROVE  ~WantedBy(x, h) /\ (x.dir => x.first \in done)
        <3>1. x.name # NoName
            BY <1>2, <1>3, <2>2, NamesDiffer DEF Tree, SlotsIn
        <3>2. ~(i \in f.next .. TableSize - 1)
            BY <1>1, <1>2, <2>2, <3>1 DEF Rest
        <3>3. i \in 2 .. f.next - 1
            BY <1>2, <3>2, Sizes DEF Slots
        <3>4. n \in 1 .. n /\ ~(n < n)
            BY <1>2
        <3> QED
            BY <1>2, <2>1, <2>2, <3>3, <3>4 DEF PassedAll
    <2>3. AllDone(more, h)
        BY <2>1, <2>2 DEF AllDone
    <2>4. more \in SUBSET Clusters
        BY <1>2
    <2>5. s # <<>> /\ DirOf(1, s) = Root
        BY <1>2, <2>1 DEF FromRoot
    <2>6. CASE n <= 1
        <3>1. hunt' = h /\ stack' = <<>> /\ pc' = "answer"
            BY <1>1, <2>6 DEF Leave
        <3>2. n = 1
            BY <1>2, <2>6
        <3>3. Root \in more
            BY <2>5, <3>2
        <3>4. FromRoot(more, h, <<>>, "answer") /\ PassedAll(more, h, <<>>, "answer")
            BY <3>3 DEF FromRoot, PassedAll
        <3>5. Searched(h, <<>>, "answer")
            BY <2>3, <2>4, <3>4 DEF Searched
        <3>6. SearchIn(h, <<>>, "answer")
            BY <1>4, <3>5 DEF SearchIn, Levels
        <3> QED
            BY <1>1, <3>1, <3>6, SearchIsNext
    <2>7. CASE ~(n <= 1)
        <3> PICK up : up = SubSeq(s, 1, n - 1)
            OBVIOUS
        <3>1. hunt' = h /\ stack' = up /\ pc' = "scan"
            BY <1>1, <1>4, <1>6, <2>7 DEF Leave, Front
        <3>2. Len(up) = n - 1 /\ \A k \in 1 .. n - 1 : up[k] = s[k]
            BY <1>2, <1>3, <2>7
        <3>3. up # <<>> /\ DirOf(1, up) = Root
            <4>1. 1 \in 1 .. n - 1 /\ n - 1 # 0
                BY <1>2, <2>7
            <4>2. up # <<>>
                BY <3>2, <4>1
            <4> QED
                BY <2>5, <3>2, <4>1, <4>2 DEF DirOf
        <3>4. Levels(up)
            <4>1. ASSUME NEW k \in 1 .. n - 1
                  PROVE  /\ DirOf(k, up) \in InTree /\ vol.tab[DirOf(k, up)][0].dir
                         /\ up[k].table = vol.tab[DirOf(k, up)]
                <5>1. k \in 1 .. n /\ up[k] = s[k]
                    BY <1>2, <3>2
                <5>2. DirOf(k, up) = DirOf(k, s)
                    BY <5>1 DEF DirOf
                <5> QED
                    BY <1>4, <5>1, <5>2 DEF Levels
            <4> QED
                BY <3>2, <4>1 DEF Levels
        <3>5. ASSUME NEW k \in 1 .. Len(up), NEW i \in 2 .. up[k].next - 1, NEW x,
                     x = up[k].table[i], x.used
              PROVE  /\ ~WantedBy(x, h)
                     /\ x.dir => x.first \in more \/ (k < Len(up) /\ x.first = DirOf(k + 1, up))
            <4>1. k \in 1 .. n - 1 /\ k \in 1 .. n /\ k < n /\ up[k] = s[k]
                BY <1>2, <3>2
            <4>2. ~WantedBy(x, h) /\ (x.dir => x.first \in done \/ x.first = DirOf(k + 1, s))
                BY <2>1, <3>5, <4>1 DEF PassedAll
            <4>3. CASE k = n - 1
                <5>1. DirOf(k + 1, s) = d
                    BY <1>2, <4>3
                <5> QED
                    BY <4>2, <5>1
            <4>4. CASE k # n - 1
                <5>1. k + 1 \in 1 .. n - 1 /\ k < Len(up)
                    BY <1>2, <3>2, <4>1, <4>4
                <5>2. DirOf(k + 1, up) = DirOf(k + 1, s)
                    BY <3>2, <5>1 DEF DirOf
                <5> QED
                    BY <4>2, <5>1, <5>2
            <4> QED
                BY <4>3, <4>4
        <3>6. PassedAll(more, h, up, "scan") /\ FromRoot(more, h, up, "scan")
            BY <3>3, <3>5 DEF PassedAll, FromRoot
        <3>7. Searched(h, up, "scan")
            BY <2>3, <2>4, <3>6 DEF Searched
        <3>8. SearchIn(h, up, "scan")
            BY <1>4, <3>4, <3>7 DEF SearchIn
        <3> QED
            BY <1>1, <3>1, <3>8, SearchIsNext
    <2> QED
        BY <2>6, <2>7
<1> QED
    BY <1>5, <1>6

LEMMA HuntStep ==
    ASSUME ~Links, Stands, HuntInv, [Next]_vars
    PROVE  HuntInv'
<1>1. pc \notin {"dfs", "scan"} => stack = <<>>
    BY DEF HuntInv
<1>2. ASSUME Finish \/ Stop("halted") \/ Stop("crashed") \/ Stop("no_shell") PROVE HuntInv'
    <2>1. stack' = <<>> /\ pc' \notin {"dfs", "scan", "answer"}
        BY <1>2 DEF Finish, Stop
    <2> QED
        BY <2>1, NoSearch
<1>3. CASE UNCHANGED vars
    <2>1. vol' = vol /\ hunt' = hunt /\ stack' = stack /\ pc' = pc
        BY <1>3 DEF vars
    <2> QED
        BY <2>1, SearchIs, SearchIsNext
<1>4. CASE Boot
    BY <1>2, <1>4 DEF Boot
<1>5. CASE Line
    <2>1. ASSUME NEW n, NEW e, <<n, e>> \in Sought, Find(n, e) PROVE HuntInv'
        <3>1. pc = "line" /\ stack = <<>>
            BY <1>1, <1>5 DEF Line
        <3> QED
            BY <2>1, <3>1, SearchBegins
    <2>2. ASSUME NEW n, NEW e, CdParent \/ Cd(n) \/ Mkdir(n) \/ Ls \/ Rm(n, e) \/ Cat(n, e)
          PROVE  Finish \/ Stop("halted")
        BY <2>2 DEF CdParent, Cd, Mkdir, Ls, Rm, Cat
    <2> QED
        BY <1>2, <1>5, <2>1, <2>2 DEF Line, Links
<1>6. CASE Prompt \/ ClimbCwd \/ ShowCwd \/ ClimbFind \/ ShowFind \/ Answer
    <2>1. pc \notin {"dfs", "scan"}
        BY <1>6 DEF Prompt, ClimbCwd, ShowCwd, ClimbFind, ShowFind, Answer
    <2>2. stack' = <<>>
        BY <1>1, <1>6, <2>1 DEF Prompt, ClimbCwd, ShowCwd, ClimbFind, ShowFind, Answer, Finish, Stop
    <2>3. pc' \notin {"dfs", "scan", "answer"}
        BY <1>6 DEF Prompt, ClimbCwd, ShowCwd, ClimbFind, ShowFind, Answer, Finish, Stop
    <2> QED
        BY <2>2, <2>3, NoSearch
<1>7. CASE MvRemove
    BY <1>7 DEF MvRemove, Stands
<1> QED
    BY <1>3, <1>4, <1>5, <1>6, <1>7, SearchEnters, SearchScans, SearchLeaves DEF Next, Continue

LEMMA ShellInvHolds ==
    ASSUME ~Links
    PROVE  Spec => [](Stands /\ WalkInv /\ HuntInv)
<1>1. Init => Stands /\ WalkInv /\ HuntInv
    <2> SUFFICES ASSUME Init PROVE Stands /\ WalkInv /\ HuntInv
        OBVIOUS
    <2>1. pc = "prompt" /\ walk.path = <<>> /\ stack = <<>>
        BY NoLocals DEF Init
    <2> QED
        BY <2>1, StandsInit DEF WalkInv, HuntInv, Hunting, FileIsThere
<1>2. ASSUME Stands, WalkInv, HuntInv, [Next]_vars PROVE (Stands /\ WalkInv /\ HuntInv)'
    <2>1. pc = "answer" => IsFolder(hunt.at, hunt.atName)
        BY <1>2 DEF HuntInv, Hunting
    <2> QED
        BY <1>2, <2>1, StandsStep, WalkStep, HuntStep
<1> QED
    BY <1>1, <1>2, PTL DEF Spec

(* While no command makes a second link, the volume is a tree whatever the *)
(* user types and whenever the power fails: no cluster has two entries, no *)
(* entry is left in a removed directory, each table names its parent, and  *)
(* what looks like a directory is one.                                     *)
THEOREM VolumeInvCorrect ==
    ASSUME ~Links
    PROVE  Spec => []VolumeInv
<1>1. Stands => VolumeInv
    BY DEF Stands
<1> QED
    BY <1>1, ShellInvHolds, PTL

(* While no command makes a second link, the path that the prompt shows,   *)
(* and the one that find shows, leads to the directory meant and to no     *)
(* other: the climb reads every directory under its own name, finds its    *)
(* parent in it, and reverse_path turns the names round.                   *)
THEOREM PathLeadsBackCorrect ==
    ASSUME ~Links
    PROVE  Spec => []PathLeadsBack
<1>1. ASSUME Stands, WalkInv PROVE PathLeadsBack
    <2>1. walk \in Walk /\ hunt.at \in Clusters
        BY <1>1 DEF Stands, ShellType, Hunt
    <2>2. ASSUME pc = "climb_find", walk.cur = Root
          PROVE  Place(ReversePath(walk.path)) = {hunt.at}
        BY <1>1, <2>1, <2>2, TrailIs, TrailLeadsBack DEF WalkInv
    <2> QED
        BY <1>1, <2>2 DEF PathLeadsBack, WalkInv
<1> QED
    BY <1>1, ShellInvHolds, PTL

(* While no command makes a second link, find misses nothing: when it says *)
(* that there is no such file or directory, every directory of the tree    *)
(* has been entered and every slot of it looked at.                        *)
THEOREM FindFindsAllCorrect ==
    ASSUME ~Links
    PROVE  Spec => []FindFindsAll
<1>1. ASSUME Stands, HuntInv PROVE FindFindsAll
    <2> SUFFICES ASSUME pc = "answer", ~hunt.check, NEW d \in InTree, NEW i \in Slots,
                        vol.tab[d][i].used
                 PROVE  ~(vol.tab[d][i].name = hunt.name
                          /\ (vol.tab[d][i].dir \/ vol.tab[d][i].ext = hunt.ext))
        BY DEF FindFindsAll
    <2>1. SearchIn(hunt, stack, "answer")
        BY <1>1, SearchIs
    <2>2. stack = <<>> /\ Searched(hunt, stack, "answer")
        BY <2>1 DEF SearchIn
    <2>3. PICK done \in SUBSET Clusters : AllDone(done, hunt) /\ Root \in done
        BY <2>2 DEF Searched, FromRoot
    <2>4. IsTree(done)
        BY <2>3 DEF IsTree, AllDone
    <2>5. d \in done
        BY <2>3, <2>4, InTreeIs
    <2> QED
        BY <2>3, <2>5 DEF AllDone, WantedBy
<1> QED
    BY <1>1, ShellInvHolds, PTL

(* While no command makes a second link, find never fails to read a        *)
(* directory, and a file that it finds is in the directory whose path it   *)
(* shows, which the tree reaches from the root.                            *)
THEOREM FileIsThereCorrect ==
    ASSUME ~Links
    PROVE  Spec => []FileIsThere
<1>1. HuntInv => FileIsThere
    BY DEF HuntInv
<1> QED
    BY <1>1, ShellInvHolds, PTL
================================================================================
