------------------------------ MODULE Fat32Proofs ------------------------------
(* Theorems about Fat32, for every size of the FAT, the tables and the files. *)
EXTENDS Fat32, FiniteSetTheorems, WellFoundedInduction, TLAPS

-----------------------------------------------------------------------------
(* Types *)

LEMMA ConstantTypes ==
    /\ 0 \in Words /\ Root \in Words /\ Alias \in Words /\ FatWords \subseteq Words
    /\ Words \subseteq 0 .. Limit /\ Limit \in Nat
    /\ Slots \subseteq 0 .. TableSize - 1 /\ 2 \in Slots
    /\ Words \subseteq FatValue
    BY SMT, SizeAssumption DEF Words, FatWords, Alias, Limit, Root, Slots, FatValue

LEMMA FreeSlotType == FreeSlot \in Slot
    BY ConstantTypes, SizeAssumption DEF FreeSlot, Slot

LEMMA ContentsType ==
    ASSUME NEW n \in Names \cup {NoName}
    PROVE  Contents(n) \in Cluster
    BY ConstantTypes, FreeSlotType DEF Contents, Cluster, FatValue, Empty

LEMMA BlankType == Blank \in Cluster
    BY ContentsType DEF Blank

LEMMA WordUpdateType ==
    ASSUME NEW t \in Cluster, NEW i, NEW v \in FatValue
    PROVE  TableWith(t, i, v) \in Cluster
    BY DEF TableWith, Cluster

LEMMA SlotUpdateType ==
    ASSUME NEW t \in Cluster, NEW i, NEW x \in Slot
    PROVE  [t EXCEPT !.slot[i] = x] \in Cluster
    BY DEF Cluster

LEMMA MapUpdateType ==
    ASSUME cmap \in [FatWords -> FatValue], NEW i, NEW v \in FatValue
    PROVE  MapWith(i, v) \in [FatWords -> FatValue]
    BY DEF MapWith

LEMMA WordType ==
    ASSUME cmap \in [FatWords -> FatValue], NEW t \in Cluster, NEW i \in Words
    PROVE  WordIn(t, i) \in FatValue
    BY SMT DEF WordIn, Cluster, Words

LEMMA DirsType ==
    ASSUME tab \in [Words -> Cluster]
    PROVE  Dirs \subseteq Words
<1>1. \A e \in Live : First(e) \in Words
    BY DEF Live, First, EntryAt, Cluster, Slot
<1> QED
    BY <1>1, ConstantTypes DEF Dirs

LEMMA NamesOfType ==
    ASSUME tab \in [Words -> Cluster], NEW d
    PROVE  NamesOf(d) \subseteq Names \cup {NoName, RootName}
<1>1. \A e \in Live : EntryAt(e).name \in Names \cup {NoName}
    BY DEF Live, EntryAt, Cluster, Slot
<1> QED
    BY <1>1 DEF NamesOf

LEMMA InitType == Init => TypeOK
<1> SUFFICES ASSUME Init PROVE TypeOK
    OBVIOUS
<1> USE SizeAssumption, NameAssumption, ConstantTypes
<1>1. fat \in [FatWords -> FatValue]
    BY SMT DEF Init, FatWords, FatValue, Words, Empty, EndOfFile, Reserved0
<1>2. [used |-> TRUE, name |-> ShellName, dir |-> FALSE, first |-> 3, size |-> ShellLen] \in Slot
    BY SMT DEF Slot, Words, FatWords
<1>3. Contents(ShellName) \in Cluster
    BY ContentsType
<1>4. [Blank EXCEPT !.dir = TRUE, !.up = Root, !.upName = RootName,
          !.slot[2] = [used |-> TRUE, name |-> ShellName, dir |-> FALSE,
                       first |-> 3, size |-> ShellLen]] \in Cluster
    BY <1>2, BlankType DEF Cluster
<1>5. tab \in [Words -> Cluster]
    BY <1>3, <1>4, BlankType DEF Init
<1>6. req \in Request
    BY DEF Init, NoReq, Request
<1>7. at \in 0 .. TableSize - 1 /\ now \in Words
    BY SMT DEF Init
<1>8. start \in Words /\ prev \in Words /\ ready \in Nat /\ rc \in -2 .. 2
    BY SMT DEF Init, Running
<1>9. pc \in Pcs
    BY DEF Init, Pcs
<1>10. cmap \in [FatWords -> FatValue] /\ buf \in Cluster
    BY <1>1, BlankType DEF Init
<1> QED
    BY <1>1, <1>5, <1>6, <1>7, <1>8, <1>9, <1>10 DEF TypeOK, Init, ScanPcs

(* Between calls the locals rest at 0, which is a value of their types. *)
LEMMA RestType ==
    AtRest => /\ buf' \in Cluster /\ req' \in Request /\ at' \in 0 .. TableSize - 1
              /\ start' \in Words /\ prev' \in Words /\ now' \in Words /\ ready' \in Nat
    BY SMT, BlankType, ConstantTypes, SizeAssumption DEF AtRest, NoReq, Request

LEMMA ReturnType ==
    ASSUME NEW code \in -2 .. 2, Return(code)
    PROVE  /\ buf' \in Cluster /\ req' \in Request /\ at' \in 0 .. TableSize - 1
           /\ start' \in Words /\ prev' \in Words /\ now' \in Words /\ ready' \in Nat
           /\ pc' \in Pcs \ ScanPcs /\ pc' # "link" /\ rc' \in -2 .. 2
    BY RestType DEF Return, Pcs, ScanPcs

LEMMA CallType == TypeOK /\ Call => TypeOK'
<1> SUFFICES ASSUME TypeOK, NEW d \in Dirs, NEW n \in Names,
                    \/ RefuseWrite(d, n)
                    \/ \E up \in NamesOf(d) : MakeDir(d, n, up)
                    \/ \E k \in 1 .. MaxCount : StartFile(d, n, k)
                    \/ RefuseDelete(d, n)
                    \/ DropEntry(d, n)
                    \/ ReadPastTable(d, n)
                    \/ \E k \in 1 .. MaxCount : RefuseRead(d, n, k) \/ StartRead(d, n, k)
             PROVE  TypeOK'
    BY DEF Call
<1> USE ConstantTypes, SizeAssumption DEF TypeOK
<1>d. d \in Words /\ tab[d] \in Cluster
    BY DirsType
<1>s. \A s \in Slots : s \in 0 .. TableSize - 1 /\ tab[d].slot[s] \in Slot
    BY <1>d DEF Cluster
<1>r. \A k \in 0 .. MaxCount :
          [dir |-> d, name |-> n, up |-> NoName, size |-> k] \in Request
    BY <1>d DEF Request
<1>1. CASE RefuseWrite(d, n)
    <2>1. WriteError(tab[d], n) \in -2 .. 2
        BY SMT DEF WriteError
    <2> QED
        BY <1>1, <2>1, ReturnType DEF RefuseWrite, disk
<1>2. ASSUME NEW up \in NamesOf(d), MakeDir(d, n, up) PROVE TypeOK'
    <2>1. PICK s \in Slots, c \in Words :
              /\ cmap' = MapWith(c, EndOfFile)
              /\ buf' = TableWith(tab[d], c, EndOfFile)
              /\ at' = s /\ now' = c
        BY <1>2 DEF MakeDir
    <2>2. cmap' \in [FatWords -> FatValue] /\ buf' \in Cluster
        BY <2>1, <1>d, MapUpdateType, WordUpdateType DEF FatValue
    <2>3. req' \in Request
        BY <1>2, <1>d, NamesOfType DEF MakeDir, Request
    <2>4. now' \in Words /\ at' \in 0 .. TableSize - 1
        BY <2>1
    <2> QED
        BY <1>2, <2>2, <2>3, <2>4 DEF MakeDir, Pcs, ScanPcs, Running
<1>3. ASSUME NEW k \in 1 .. MaxCount, StartFile(d, n, k) PROVE TypeOK'
    <2>1. PICK s \in Slots, c \in Words :
              /\ at' = s /\ start' = c /\ prev' = c /\ now' = c + 1
              /\ pc' \in {"link", "commit", "rollback"}
        BY <1>3 DEF StartFile
    <2>2. now' \in 0 .. Limit /\ (pc' = "link" => now' < Limit)
        BY <1>3, <2>1, SMT DEF StartFile, Limit, Words, FatWords, Alias
    <2>3. req' \in Request
        BY <1>3, <1>r, k \in 0 .. MaxCount DEF StartFile
    <2> QED
        BY <1>3, <1>d, <2>1, <2>2, <2>3 DEF StartFile, disk, Pcs, ScanPcs, Running
<1>4. CASE RefuseDelete(d, n)
    <2>1. DeleteError(tab[d], n) \in -2 .. 2
        BY SMT DEF DeleteError
    <2> QED
        BY <1>4, <2>1, ReturnType DEF RefuseDelete, disk
<1>5. CASE DropEntry(d, n)
    <2>1. PICK s \in Slots :
              /\ buf' = [tab[d] EXCEPT !.slot[s] = FreeSlot]
              /\ now' = tab[d].slot[s].first
              /\ pc' \in {"rmdir_child", "free"}
        BY <1>5 DEF DropEntry, FirstMatch, Matching
    <2>2. buf' \in Cluster
        BY <1>d, <2>1, FreeSlotType, SlotUpdateType
    <2>3. now' \in Words
        BY <1>s, <2>1 DEF Slot
    <2>4. req' \in Request
        BY <1>5, <1>r, 0 \in 0 .. MaxCount DEF DropEntry
    <2>5. tab' \in [Words -> Cluster]
        BY <1>5, <2>2 DEF DropEntry
    <2> QED
        BY <1>5, <2>1, <2>2, <2>3, <2>4, <2>5 DEF DropEntry, Pcs, ScanPcs, Running
<1>6. CASE ReadPastTable(d, n)
    BY <1>6, RestType DEF ReadPastTable, Halt, Pcs, ScanPcs, Running, disk
<1>7. ASSUME NEW k \in 1 .. MaxCount, RefuseRead(d, n, k) PROVE TypeOK'
    <2>1. ReadError(tab[d], n, k) \in -2 .. 2
        BY SMT DEF ReadError
    <2> QED
        BY <1>7, <2>1, ReturnType DEF RefuseRead, disk
<1>8. ASSUME NEW k \in 1 .. MaxCount, StartRead(d, n, k) PROVE TypeOK'
    <2>1. PICK s \in Slots : now' = tab[d].slot[s].first
        BY <1>8 DEF StartRead, FirstMatch, Matching
    <2>2. now' \in Words
        BY <1>s, <2>1 DEF Slot
    <2>3. req' \in Request
        BY <1>8, <1>r, k \in 0 .. MaxCount DEF StartRead
    <2> QED
        BY <1>8, <1>d, <2>2, <2>3 DEF StartRead, disk, Pcs, ScanPcs, Running
<1> QED
    BY <1>1, <1>2, <1>3, <1>4, <1>5, <1>6, <1>7, <1>8

LEMMA ContinueType == TypeOK /\ Continue => TypeOK'
<1> SUFFICES ASSUME TypeOK, Continue PROVE TypeOK'
    OBVIOUS
<1> USE ConstantTypes, SizeAssumption DEF TypeOK, Pcs, ScanPcs
<1>v. Empty \in FatValue /\ EndOfFile \in FatValue
    BY DEF FatValue, Empty
<1>b. \A t \in Cluster : t.slot \in [Slots -> Slot]
    BY DEF Cluster
<1>1. CASE MkdirParent
    <2>1. [used |-> TRUE, name |-> req.name, dir |-> TRUE, first |-> now, size |-> 0] \in Slot
        BY <1>1 DEF MkdirParent, Slot, Request
    <2> QED
        BY <1>1, <2>1, SlotUpdateType DEF MkdirParent, locals
<1>2. CASE MkdirTable
    <2>1. NewTable(tab[now]) \in Cluster
        BY <1>2, <1>v DEF MkdirTable, NewTable, Cluster, Request
    <2>2. tab' \in [Words -> Cluster]
        BY <1>2, <2>1 DEF MkdirTable
    <2> QED
        BY <1>2, <2>2, ReturnType DEF MkdirTable
<1>3. CASE Link
    <2>1. cmap' \in [FatWords -> FatValue] /\ buf' \in Cluster /\ prev' \in Words /\ ready' \in Nat
        BY <1>3, MapUpdateType, WordUpdateType DEF Link, IsFreeIn
    <2>2. now' \in 0 .. Limit
        BY <1>3, SMT DEF Link
    <2> QED
        BY <1>3, <2>1, <2>2 DEF Link, disk
<1>4. CASE CommitFat
    <2>1. cmap' \in [FatWords -> FatValue] /\ buf' \in Cluster
        BY <1>4, <1>v, MapUpdateType, WordUpdateType DEF CommitFat
    <2> QED
        BY <1>4, <2>1 DEF CommitFat, locals
<1>5. CASE CreateParent
    <2>1. \A x \in Slot : [x EXCEPT !.used = TRUE, !.name = req.name,
                                    !.first = start, !.size = req.size] \in Slot
        BY DEF Slot, Request
    <2>2. at \in Slots => buf.slot[at] \in Slot
        BY <1>b
    <2>3. buf' \in Cluster
        BY <1>5, <2>1, <2>2 DEF CreateParent, Cluster
    <2> QED
        BY <1>5, <2>3 DEF CreateParent
<1>6. CASE WriteData
    <2>1. tab' \in [Words -> Cluster]
        BY <1>6, ContentsType DEF WriteData, Request
    <2>2. CASE Return(0)
        BY <1>6, <2>1, <2>2, ReturnType DEF WriteData
    <2>3. CASE Word(now) \in Words /\ now' = Word(now)
               /\ UNCHANGED <<buf, pc, req, at, start, prev, ready, rc>>
        BY <1>6, <2>1, <2>3 DEF WriteData
    <2> QED
        BY <1>6, <2>2, <2>3 DEF WriteData
<1>7. CASE Rollback
    <2>1. CASE Return(-1) /\ UNCHANGED cmap
        BY <1>7, <2>1, ReturnType DEF Rollback, disk
    <2>2. CASE /\ Word(start) \in Words
               /\ cmap' = MapWith(start, Empty) /\ buf' = TableWith(buf, start, Empty)
               /\ start' = Word(start)
               /\ UNCHANGED <<pc, req, at, prev, now, ready, rc>>
        <3>1. cmap' \in [FatWords -> FatValue] /\ buf' \in Cluster
            BY <2>2, <1>v, MapUpdateType, WordUpdateType
        <3> QED
            BY <1>7, <2>2, <3>1 DEF Rollback, disk
    <2> QED
        BY <1>7, <2>1, <2>2 DEF Rollback
<1>8. CASE RmdirChild
    <2>1. [tab[now] EXCEPT !.dir = FALSE, !.up = 0, !.upName = NoName, !.word = Empty] \in Cluster
        BY <1>8, <1>v DEF RmdirChild, Cluster
    <2>2. tab' \in [Words -> Cluster]
        BY <1>8, <2>1 DEF RmdirChild
    <2> QED
        BY <1>8, <2>2 DEF RmdirChild, locals
<1>9. CASE RmdirFat
    BY <1>9, <1>v, MapUpdateType, ReturnType DEF RmdirFat
<1>10. CASE Free
    <2>1. CASE cmap' = MapWith(now, Empty) /\ fat' = cmap' /\ Return(0)
        BY <1>10, <2>1, <1>v, MapUpdateType, ReturnType DEF Free
    <2>2. CASE /\ Word(now) \in Words
               /\ cmap' = MapWith(now, Empty) /\ buf' = TableWith(buf, now, Empty)
               /\ now' = Word(now)
               /\ UNCHANGED <<fat, pc, req, at, start, prev, ready, rc>>
        BY <1>10, <2>2, <1>v, MapUpdateType, WordUpdateType DEF Free
    <2> QED
        BY <1>10, <2>1, <2>2 DEF Free
<1>11. CASE Copy
    BY <1>11 DEF Copy, disk
<1>12. CASE EndRead
    BY <1>12, ReturnType DEF EndRead, disk
<1> QED
    BY <1>1, <1>2, <1>3, <1>4, <1>5, <1>6, <1>7, <1>8, <1>9, <1>10, <1>11, <1>12 DEF Continue

LEMMA RebootType == TypeOK /\ Reboot => TypeOK'
    BY RestType DEF TypeOK, Reboot, Pcs, ScanPcs, Running, disk

(* The type invariant: in every reachable state each variable has the type *)
(* the code gives it, and each index is one the code can use.              *)
THEOREM TypeCorrect == Spec => []TypeOK
<1>1. TypeOK /\ [Next]_vars => TypeOK'
    <2>1. TypeOK /\ UNCHANGED vars => TypeOK'
        BY DEF TypeOK, vars
    <2> QED
        BY <2>1, CallType, ContinueType, RebootType DEF Next
<1> QED
    BY <1>1, InitType, PTL DEF Spec

-----------------------------------------------------------------------------
(* Chains of clusters, for any FAT m: induction over the natural numbers   *)
(* as the existence of a least counterexample.                             *)

LEMMA LeastExists ==
    ASSUME NEW T, T \subseteq Nat, T # {}
    PROVE  \E x \in T : \A y \in T : x <= y
<1>1. PICK x \in T : \A y \in T : <<y, x>> \notin OpToRel(<, Nat)
    BY NatLessThanWellFounded, WFMin
<1>2. ASSUME NEW y \in T PROVE x <= y
    <2>1. x \in Nat /\ y \in Nat
      OBVIOUS
    <2>2. ~(y < x)
      BY <1>1, <2>1 DEF OpToRel
    <2> QED
      BY <2>1, <2>2
<1> QED
    BY <1>2

Step(m, R) == R \cup {m[x] : x \in {y \in R \cap FatWords : m[y] \in Words}}

Unfolds(f, m, c, n) ==
    /\ f = [i \in 0 .. n |-> f[i]]
    /\ f[0] = {c}
    /\ \A i \in 1 .. n : f[i] = Step(m, f[i - 1])

LEMMA ReachExists ==
    ASSUME NEW m, NEW c, NEW n \in Nat
    PROVE  \E f : Unfolds(f, m, c, n)
<1> DEFINE T == {k \in Nat : ~ \E f : Unfolds(f, m, c, k)}
<1> SUFFICES ASSUME T # {} PROVE FALSE
    OBVIOUS
<1>1. PICK k \in T : \A y \in T : k <= y
    BY LeastExists
<1>2. CASE k = 0
    <2> DEFINE f == [i \in 0 .. 0 |-> {c}]
    <2>1. f[0] = {c} /\ f = [i \in 0 .. 0 |-> f[i]] /\ 1 .. 0 = {}
        OBVIOUS
    <2>2. Unfolds(f, m, c, 0)
        BY <2>1 DEF Unfolds
    <2> QED
        BY <1>2, <2>2
<1>3. CASE k # 0
    <2>1. k \in Nat /\ k - 1 \in Nat /\ k - 1 \notin T
        BY <1>1, <1>3
    <2>2. PICK f : Unfolds(f, m, c, k - 1)
        BY <2>1
    <2> DEFINE g == [i \in 0 .. k |-> IF i < k THEN f[i] ELSE Step(m, f[k - 1])]
    <2>3. g = [i \in 0 .. k |-> g[i]] /\ g[0] = {c}
        BY <1>3, <2>1, <2>2 DEF Unfolds
    <2>4. \A i \in 1 .. k : g[i] = Step(m, g[i - 1])
        <3> SUFFICES ASSUME NEW i \in 1 .. k PROVE g[i] = Step(m, g[i - 1])
            OBVIOUS
        <3>1. i \in 0 .. k /\ i - 1 \in 0 .. k /\ i - 1 < k
            BY <2>1
        <3>2. g[i - 1] = f[i - 1] /\ g[i] = IF i < k THEN f[i] ELSE Step(m, f[k - 1])
            BY <3>1
        <3>3. i < k => f[i] = Step(m, f[i - 1])
            <4>1. i < k => i \in 1 .. k - 1
                BY <2>1
            <4> QED
                BY <2>2, <4>1 DEF Unfolds
        <3>4. ~(i < k) => i = k
            BY <2>1
        <3> HIDE DEF g
        <3> QED
            BY <3>2, <3>3, <3>4
    <2>5. Unfolds(g, m, c, k)
        BY <2>3, <2>4 DEF Unfolds
    <2> QED
        BY <2>5
<1> QED
    BY <1>2, <1>3

LEMMA ReachUnfolds ==
    ASSUME NEW m, NEW c
    PROVE  Unfolds(Reach(m, c), m, c, FatSize)
<1> DEFINE F(f) == [i \in 0 .. FatSize |->
                       IF i = 0 THEN {c}
                       ELSE f[i - 1] \cup {m[x] : x \in {y \in f[i - 1] \cap FatWords :
                                                            m[y] \in Words}}]
<1>1. FatSize \in Nat
    BY SizeAssumption
<1>2. PICK f : Unfolds(f, m, c, FatSize)
    BY <1>1, ReachExists
<1>3. f = F(f)
    <2>1. f = [i \in 0 .. FatSize |-> f[i]]
        BY <1>2 DEF Unfolds
    <2>2. \A i \in 0 .. FatSize : i # 0 => i \in 1 .. FatSize
        BY <1>1
    <2>3. \A i \in 0 .. FatSize :
             f[i] = IF i = 0 THEN {c} ELSE Step(m, f[i - 1])
        BY <1>2, <2>2 DEF Unfolds
    <2>4. f = [i \in 0 .. FatSize |-> IF i = 0 THEN {c} ELSE Step(m, f[i - 1])]
        BY <2>1, <2>3, Zenon
    <2> QED
        BY <2>4 DEF Step
<1>4. Reach(m, c) = CHOOSE g : g = F(g)
    BY DEF Reach
<1>5. Reach(m, c) = F(Reach(m, c))
    <2> HIDE DEF F
    <2> QED
        BY <1>3, <1>4
<1>6. ASSUME NEW r, r = F(r) PROVE Unfolds(r, m, c, FatSize)
    <2>1. r = [i \in 0 .. FatSize |-> r[i]]
       BY <1>6
    <2>2. r[0] = {c}
       BY <1>1, <1>6
    <2>3. \A i \in 1 .. FatSize : r[i] = Step(m, r[i - 1])
       BY <1>1, <1>6 DEF Step
    <2> QED BY <2>1, <2>2, <2>3 DEF Unfolds
<1> QED
    BY <1>5, <1>6

LEMMA NatInduct ==
    ASSUME NEW S, 0 \in S, \A n \in Nat : n \in S => n + 1 \in S
    PROVE  Nat \subseteq S
<1> DEFINE T == Nat \ S
<1> SUFFICES ASSUME T # {} PROVE FALSE
    OBVIOUS
<1>1. PICK k \in T : \A y \in T : k <= y
    BY LeastExists
<1>2. k # 0 /\ k - 1 \in Nat /\ k = (k - 1) + 1
    OBVIOUS
<1>3. k - 1 \in S
    BY <1>1, <1>2
<1> QED
    BY <1>2, <1>3

(* Every prefix of the search is in a set that the links do not leave. *)
LEMMA ChainLeast ==
    ASSUME NEW m, NEW c, NEW S, c \in S,
           \A y \in S \cap FatWords : m[y] \in Words => m[y] \in S
    PROVE  Chain(m, c) \subseteq S
<1> DEFINE T == {i \in Nat : i <= FatSize => Reach(m, c)[i] \subseteq S}
<1>1. FatSize \in Nat /\ Unfolds(Reach(m, c), m, c, FatSize)
    BY SizeAssumption, ReachUnfolds
<1>2. 0 \in T
    BY <1>1 DEF Unfolds
<1>3. ASSUME NEW n \in Nat, n \in T PROVE n + 1 \in T
    <2> SUFFICES ASSUME n + 1 <= FatSize PROVE Reach(m, c)[n + 1] \subseteq S
        OBVIOUS
    <2>1. n + 1 \in 1 .. FatSize /\ (n + 1) - 1 = n /\ n <= FatSize
        BY <1>1
    <2>2. Reach(m, c)[n + 1] = Step(m, Reach(m, c)[n])
        BY <1>1, <2>1 DEF Unfolds
    <2>3. Reach(m, c)[n] \subseteq S
        BY <1>3, <2>1
    <2> QED
        BY <2>2, <2>3 DEF Step
<1>4. Nat \subseteq T
    <2> HIDE DEF T
    <2> QED
        BY <1>2, <1>3, NatInduct
<1> QED
    BY <1>1, <1>4 DEF Chain

LEMMA ReachGrows ==
    ASSUME NEW m, NEW c, NEW j \in 0 .. FatSize, NEW i \in 0 .. j
    PROVE  Reach(m, c)[i] \subseteq Reach(m, c)[j]
<1> DEFINE T == {k \in Nat : i <= k /\ k <= FatSize => Reach(m, c)[i] \subseteq Reach(m, c)[k]}
<1>1. FatSize \in Nat /\ Unfolds(Reach(m, c), m, c, FatSize) /\ i \in Nat /\ j \in Nat /\ i <= j /\ j <= FatSize
    BY SizeAssumption, ReachUnfolds
<1>2. 0 \in T
    <2>1. i <= 0 => i = 0
       BY <1>1
    <2> QED BY <2>1
<1>3. ASSUME NEW n \in Nat, n \in T PROVE n + 1 \in T
    <2> SUFFICES ASSUME n + 1 <= FatSize, i <= n PROVE Reach(m, c)[i] \subseteq Reach(m, c)[n + 1]
        <3>1. i <= n + 1 => i <= n \/ i = n + 1
            BY <1>1
        <3> QED BY <3>1
    <2>1. n + 1 \in 1 .. FatSize /\ (n + 1) - 1 = n /\ n <= FatSize
        BY <1>1
    <2>2. Reach(m, c)[n + 1] = Step(m, Reach(m, c)[n])
        BY <1>1, <2>1 DEF Unfolds
    <2>3. Reach(m, c)[i] \subseteq Reach(m, c)[n]
        BY <1>3, <2>1
    <2> QED
        BY <2>2, <2>3 DEF Step
<1>4. Nat \subseteq T
    <2> HIDE DEF T
    <2> QED
        BY <1>2, <1>3, NatInduct
<1> QED
    BY <1>1, <1>4

(* A chain begins with its first cluster; each other one has a predecessor *)
(* in the chain.                                                           *)
LEMMA ChainBack ==
    ASSUME NEW m, NEW c
    PROVE  /\ c \in Chain(m, c)
           /\ \A x \in Chain(m, c) : x # c =>
                  x \in Words /\ \E y \in Chain(m, c) \cap FatWords : m[y] = x
<1>1. FatSize \in Nat /\ Unfolds(Reach(m, c), m, c, FatSize)
    BY SizeAssumption, ReachUnfolds
<1> DEFINE R(i) == Reach(m, c)[i]
<1>2. \A i \in 0 .. FatSize : R(i) \subseteq Chain(m, c)
    BY <1>1, ReachGrows DEF Chain
<1>3. c \in Chain(m, c)
    BY <1>1, <1>2 DEF Unfolds
<1> DEFINE Good == {x \in Chain(m, c) : x # c =>
                  x \in Words /\ \E y \in Chain(m, c) \cap FatWords : m[y] = x}
<1> DEFINE T == {i \in Nat : i <= FatSize => R(i) \subseteq Good}
<1>4. 0 \in T
    BY <1>1, <1>3 DEF Unfolds
<1>5. ASSUME NEW n \in Nat, n \in T PROVE n + 1 \in T
    <2> SUFFICES ASSUME n + 1 <= FatSize PROVE R(n + 1) \subseteq Good
        OBVIOUS
    <2>1. n + 1 \in 1 .. FatSize /\ (n + 1) - 1 = n /\ n <= FatSize /\ n \in 0 .. FatSize
        BY <1>1
    <2>2. R(n + 1) = Step(m, R(n))
        BY <1>1, <2>1 DEF Unfolds
    <2>3. R(n) \subseteq Good /\ R(n) \subseteq Chain(m, c) /\ R(n + 1) \subseteq Chain(m, c)
        BY <1>2, <1>5, <2>1
    <2> QED
        BY <2>2, <2>3 DEF Step
<1>6. Nat \subseteq T
    <2> HIDE DEF T
    <2> QED
        BY <1>4, <1>5, NatInduct
<1>7. Chain(m, c) \subseteq Good
    BY <1>1, <1>6 DEF Chain
<1> QED
    BY <1>3, <1>7

LEMMA ChainHead ==
    ASSUME NEW m, NEW c \in FatWords, m[c] \in Words
    PROVE  Chain(m, c) \subseteq {c} \cup Chain(m, m[c])
<1>1. FatSize \in Nat /\ Unfolds(Reach(m, c), m, c, FatSize)
      /\ Unfolds(Reach(m, m[c]), m, m[c], FatSize)
    BY SizeAssumption, ReachUnfolds
<1> DEFINE T == {i \in Nat : i + 1 <= FatSize =>
                    Reach(m, c)[i + 1] \subseteq {c} \cup Reach(m, m[c])[i]}
<1>2. 0 \in T
    <2>1. 1 \in 1 .. FatSize /\ 1 - 1 = 0 /\ 0 + 1 = 1
        BY SizeAssumption
    <2>2. Reach(m, c)[1] = Step(m, Reach(m, c)[1 - 1])
        BY <1>1, <2>1 DEF Unfolds
    <2>3. Reach(m, c)[0] = {c} /\ Reach(m, m[c])[0] = {m[c]}
        BY <1>1 DEF Unfolds
    <2>4. Reach(m, c)[1] \subseteq {c} \cup Reach(m, m[c])[0]
        BY <2>1, <2>2, <2>3 DEF Step
    <2> QED
        BY <2>1, <2>4
<1>3. ASSUME NEW n \in Nat, n \in T PROVE n + 1 \in T
    <2> SUFFICES ASSUME n + 1 + 1 <= FatSize
                 PROVE  Reach(m, c)[n + 1 + 1] \subseteq {c} \cup Reach(m, m[c])[n + 1]
        OBVIOUS
    <2>1. n + 1 \in 1 .. FatSize /\ n + 1 + 1 \in 1 .. FatSize /\ (n + 1) - 1 = n
          /\ (n + 1 + 1) - 1 = n + 1 /\ n + 1 <= FatSize /\ 0 \in 0 .. n + 1 /\ n + 1 \in 0 .. FatSize
        BY <1>1
    <2>2. Reach(m, c)[n + 1 + 1] = Step(m, Reach(m, c)[n + 1])
          /\ Reach(m, m[c])[n + 1] = Step(m, Reach(m, m[c])[n])
        BY <1>1, <2>1 DEF Unfolds
    <2>3. Reach(m, c)[n + 1] \subseteq {c} \cup Reach(m, m[c])[n]
        BY <1>3, <2>1
    <2>4. m[c] \in Reach(m, m[c])[n + 1]
        BY <1>1, <2>1, ReachGrows DEF Unfolds
    <2> QED
        BY <2>2, <2>3, <2>4 DEF Step
<1>4. Nat \subseteq T
    <2> HIDE DEF T
    <2> QED
        BY <1>2, <1>3, NatInduct
<1>5. FatSize - 1 \in Nat /\ FatSize - 1 \in 0 .. FatSize /\ (FatSize - 1) + 1 = FatSize
    BY SizeAssumption
<1>6. Reach(m, c)[FatSize] \subseteq {c} \cup Reach(m, m[c])[FatSize - 1]
    BY <1>4, <1>5
<1>7. Reach(m, m[c])[FatSize - 1] \subseteq Reach(m, m[c])[FatSize]
    BY <1>1, <1>5, ReachGrows
<1> QED
    BY <1>6, <1>7 DEF Chain

(* A chain depends only on the words of its own clusters. *)
LEMMA ChainSame ==
    ASSUME NEW m, NEW n, NEW c, NEW S, c \in S,
           \A y \in S \cap FatWords : n[y] = m[y] /\ (m[y] \in Words => m[y] \in S)
    PROVE  Chain(n, c) = Chain(m, c)
<1>1. FatSize \in Nat /\ Unfolds(Reach(m, c), m, c, FatSize)
      /\ Unfolds(Reach(n, c), n, c, FatSize)
    BY SizeAssumption, ReachUnfolds
<1> DEFINE T == {i \in Nat : i <= FatSize =>
                    Reach(n, c)[i] = Reach(m, c)[i] /\ Reach(m, c)[i] \subseteq S}
<1>2. 0 \in T
    BY <1>1 DEF Unfolds
<1>3. ASSUME NEW k \in Nat, k \in T PROVE k + 1 \in T
    <2> SUFFICES ASSUME k + 1 <= FatSize
                 PROVE  Reach(n, c)[k + 1] = Reach(m, c)[k + 1] /\ Reach(m, c)[k + 1] \subseteq S
        OBVIOUS
    <2>1. k + 1 \in 1 .. FatSize /\ (k + 1) - 1 = k /\ k <= FatSize
        BY <1>1
    <2>2. Reach(m, c)[k + 1] = Step(m, Reach(m, c)[k])
          /\ Reach(n, c)[k + 1] = Step(n, Reach(n, c)[k])
        BY <1>1, <2>1 DEF Unfolds
    <2>3. Reach(n, c)[k] = Reach(m, c)[k] /\ Reach(m, c)[k] \subseteq S
        BY <1>3, <2>1
    <2> QED
        BY <2>2, <2>3 DEF Step
<1>4. Nat \subseteq T
    <2> HIDE DEF T
    <2> QED
        BY <1>2, <1>3, NatInduct
<1> QED
    BY <1>1, <1>4 DEF Chain

LEMMA ChainAscends ==
    ASSUME NEW m, NEW S, S \subseteq FatWords, NEW c \in S,
           \A x \in S : x # c => \E y \in S : y < x /\ m[y] = x
    PROVE  S \subseteq Chain(m, c)
<1>1. FatSize \in Nat /\ Unfolds(Reach(m, c), m, c, FatSize)
    BY SizeAssumption, ReachUnfolds
<1>2. \A x \in S : x \in Nat /\ x < FatSize /\ x \in Words
    BY ConstantTypes, SizeAssumption DEF FatWords
<1> DEFINE T == {k \in Nat : k <= FatSize => \A x \in S : x <= k => x \in Reach(m, c)[k]}
<1>3. 0 \in T
    <2> SUFFICES ASSUME NEW x \in S, x <= 0 PROVE x \in Reach(m, c)[0]
        OBVIOUS
    <2>1. x = 0 /\ \A y \in S : ~(y < x)
        BY <1>2
    <2> QED
        BY <1>1, <2>1 DEF Unfolds
<1>4. ASSUME NEW k \in Nat, k \in T PROVE k + 1 \in T
    <2> SUFFICES ASSUME k + 1 <= FatSize, NEW x \in S, x <= k + 1
                 PROVE  x \in Reach(m, c)[k + 1]
        OBVIOUS
    <2>1. k + 1 \in 1 .. FatSize /\ (k + 1) - 1 = k /\ k <= FatSize
          /\ k + 1 \in 0 .. FatSize /\ 0 \in 0 .. k + 1
        BY <1>1
    <2>2. Reach(m, c)[k + 1] = Step(m, Reach(m, c)[k])
        BY <1>1, <2>1 DEF Unfolds
    <2>3. CASE x = c
        BY <1>1, <2>1, <2>3, ReachGrows DEF Unfolds
    <2>4. CASE x # c
        <3>1. PICK y \in S : y < x /\ m[y] = x
            BY <2>4
        <3>2. y <= k
            BY <1>2, <3>1
        <3>3. y \in Reach(m, c)[k]
            BY <1>4, <2>1, <3>2
        <3> QED
            BY <1>2, <2>2, <3>1, <3>3 DEF Step
    <2> QED
        BY <2>3, <2>4
<1>5. Nat \subseteq T
    <2> HIDE DEF T
    <2> QED
        BY <1>3, <1>4, NatInduct
<1> QED
    BY <1>1, <1>2, <1>5 DEF Chain
=============================================================================
