------------------------------ MODULE Fat32Safety ------------------------------
(* The safety of Fat32, for every size, when callers are not Overfull: the *)
(* inductive invariant holds at every step, power cuts included.           *)
EXTENDS Fat32Proofs, Fat32Invariant

-----------------------------------------------------------------------------
(* What a step does to the entries in use *)

(* The step makes no entry and keeps where the others lead. *)
NoNewEntry == \A e \in Live' : e \in Live /\ First(e)' = First(e)

(* The step makes at most one entry, at a, leading to c. *)
OneNewEntry(a, c) ==
    \A e \in Live' : \/ e = a /\ First(e)' = c
                     \/ e \in Live /\ First(e)' = First(e)

LEMMA LiveElements ==
    ASSUME NEW c \in Words, NEW s \in Slots
    PROVE  /\ <<c, s>> \in Live <=> tab[c].slot[s].used
           /\ First(<<c, s>>) = tab[c].slot[s].first
    BY DEF Live, First, EntryAt

LEMMA SameTables == UNCHANGED tab => NoNewEntry
    BY DEF NoNewEntry, Live, First, EntryAt

LEMMA SameSlots ==
    ASSUME TypeOK, NEW c, NEW t, t.slot = tab[c].slot, tab' = [tab EXCEPT ![c] = t]
    PROVE  NoNewEntry
<1>1. \A d \in Words : tab'[d].slot = tab[d].slot
    BY DEF TypeOK
<1> QED
    BY <1>1 DEF NoNewEntry, Live, First, EntryAt

LEMMA NoSlots ==
    ASSUME TypeOK, NEW c, NEW n, tab' = [tab EXCEPT ![c] = Contents(n)]
    PROVE  NoNewEntry
<1>1. \A d \in Words : \/ tab'[d].slot = tab[d].slot
                       \/ tab'[d].slot = [s \in Slots |-> FreeSlot]
    BY DEF TypeOK, Contents
<1>2. \A d \in Words, s \in Slots :
          tab'[d].slot[s].used => tab'[d].slot[s] = tab[d].slot[s]
    BY <1>1 DEF FreeSlot
<1> QED
    BY <1>2 DEF NoNewEntry, Live, First, EntryAt

LEMMA SetSlot ==
    ASSUME TypeOK, NEW d \in Words, NEW a \in Slots, NEW x, NEW t,
           t.slot = [tab[d].slot EXCEPT ![a] = x], tab' = [tab EXCEPT ![d] = t]
    PROVE  /\ OneNewEntry(<<d, a>>, x.first)
           /\ ~x.used => NoNewEntry /\ <<d, a>> \notin Live'
<1>1. tab[d].slot \in [Slots -> Slot]
    BY DEF TypeOK, Cluster
<1>2. \A c \in Words, s \in Slots :
          tab'[c].slot[s] = IF c = d /\ s = a THEN x ELSE tab[c].slot[s]
    BY <1>1 DEF TypeOK
<1> QED
    BY <1>2 DEF OneNewEntry, NoNewEntry, Live, First, EntryAt

-----------------------------------------------------------------------------
(* NoDangling and NoCrossLink, when the FAT on disk stays or gains a chain *)

LEMMA KeepDisk ==
    ASSUME NoDangling, NoCrossLink, NoNewEntry, UNCHANGED fat
    PROVE  NoDangling' /\ NoCrossLink'
    BY DEF NoDangling, NoCrossLink, NoNewEntry, Taken

LEMMA KeepLoose ==
    ASSUME NEW c, NoNewEntry, UNCHANGED fat, Loose(c)
    PROVE  Loose(c)'
    BY DEF Loose, NoNewEntry, Taken

LEMMA LinkLoose ==
    ASSUME NoDangling, NoCrossLink, NEW a, NEW c, OneNewEntry(a, c), Loose(c),
           UNCHANGED fat
    PROVE  NoDangling' /\ NoCrossLink'
    BY DEF NoDangling, NoCrossLink, OneNewEntry, Taken, Loose

(* The FAT words that the format sets are never empty. *)
LEMMA ReservedTaken ==
    ASSUME TypeOK, ReservedKept, NEW c \in Words, c \in FatWords => fat[c] = Empty
    PROVE  c \in DataClusters
<1>1. Root \in FatWords /\ 0 \in FatWords /\ 1 \in FatWords
    BY SMT, SizeAssumption DEF FatWords, Root
<1> QED
    BY <1>1 DEF ReservedKept, DataClusters, Empty, EndOfFile, Reserved0

TakenIn(m, c) == c \in DataClusters \cap FatWords /\ m[c] # Empty

(* What the chain in memory looks like once its end is marked. *)
LEMMA NewChain ==
    ASSUME TypeOK, ReservedKept, Building, prev \in FatWords,
           fat' = [cmap EXCEPT ![prev] = EndOfFile]
    PROVE  /\ \A c \in FatWords : fat[c] # Empty => fat'[c] = fat[c]
           /\ \A c \in FatWords : fat[c] = Empty /\ fat'[c] \in Words \ {Empty} =>
                  /\ TakenIn(fat', fat'[c]) /\ fat[fat'[c]] = Empty /\ fat'[c] > start
           /\ \A c, d \in FatWords :
                  fat[c] = Empty /\ fat[d] = Empty /\ fat'[c] = fat'[d]
                      /\ fat'[c] \in DataClusters => c = d
           /\ TakenIn(fat', start) /\ fat[start] = Empty
<1> DEFINE New(c) == fat[c] = Empty /\ start <= c /\ c < prev
<1> USE SizeAssumption DEF Empty, EndOfFile
<1>1. \A c \in FatWords : New(c) =>
          /\ cmap[c] \in Words /\ c < cmap[c] /\ cmap[c] <= prev
          /\ cmap[c] \in FatWords => fat[cmap[c]] = Empty
          /\ \A x \in FatWords : c < x /\ x < cmap[c] => fat[x] # Empty
    BY DEF Building
<1>2. \A c \in FatWords : ~New(c) => cmap[c] = fat[c]
    BY DEF Building
<1>3. \A c \in FatWords : fat'[c] = IF c = prev THEN EndOfFile ELSE cmap[c]
    BY DEF TypeOK
<1>4. fat[prev] = Empty
    BY DEF Building
<1>5. \A c \in FatWords : fat[c] # Empty => fat'[c] = fat[c]
    BY <1>2, <1>3, <1>4
<1>6. \A c \in FatWords : New(c) => cmap[c] \in FatWords
    BY <1>1, SMT DEF Words, FatWords, Alias
<1>7. \A c \in FatWords : New(c) \/ c = prev => c \in DataClusters /\ fat'[c] # Empty
    <2>1. \A c \in FatWords : New(c) \/ c = prev => fat[c] = Empty
        BY <1>4
    <2>2. \A c \in FatWords : New(c) => cmap[c] # Empty
        BY <1>1, SMT DEF FatWords, Words
    <2> QED
        BY <1>3, <2>1, <2>2, ReservedTaken, ConstantTypes
<1>8. \A c \in FatWords : New(c) => New(cmap[c]) \/ cmap[c] = prev
    BY <1>1, <1>6, SMT DEF TypeOK, FatWords, Words, Building, DataClusters
<1>9. \A c \in FatWords : fat[c] = Empty /\ fat'[c] \in Words \ {Empty} =>
          New(c) /\ fat'[c] = cmap[c]
    BY <1>2, <1>3, SMT DEF Words, FatWords, Alias
<1>10. \A c \in FatWords : fat[c] = Empty /\ fat'[c] \in Words \ {Empty} =>
          /\ TakenIn(fat', fat'[c]) /\ fat[fat'[c]] = Empty /\ fat'[c] > start
    <2> SUFFICES ASSUME NEW c \in FatWords, New(c), fat'[c] = cmap[c]
                 PROVE  TakenIn(fat', cmap[c]) /\ fat[cmap[c]] = Empty /\ cmap[c] > start
        BY <1>9
    <2>1. cmap[c] > start
        BY <1>1, SMT DEF FatWords, Words, Building, DataClusters, Alias
    <2>2. cmap[c] \in DataClusters /\ fat'[cmap[c]] # Empty
        BY <1>6, <1>7, <1>8
    <2> QED
        BY <1>1, <1>6, <2>1, <2>2 DEF Taken, TakenIn
<1>11. \A c, d \in FatWords :
           fat[c] = Empty /\ fat[d] = Empty /\ fat'[c] = fat'[d] /\ fat'[c] \in DataClusters
               => c = d
    <2> SUFFICES ASSUME NEW c \in FatWords, NEW d \in FatWords,
                        fat[c] = Empty, fat[d] = Empty,
                        fat'[c] = fat'[d], fat'[c] \in DataClusters
                 PROVE  c = d
        OBVIOUS
    <2>1. fat'[c] # Empty
        BY DEF DataClusters
    <2>2. New(c) /\ New(d) /\ cmap[c] = cmap[d]
        BY <1>9, <2>1 DEF DataClusters
    <2>3. ~(c < d) /\ ~(d < c)
        BY <1>1, <2>2
    <2> QED
        BY <2>3, SMT DEF FatWords
<1>12. start \in FatWords
    BY SMT DEF Building, DataClusters, Words, FatWords, Alias
<1>13. fat[start] = Empty /\ (New(start) \/ start = prev)
    BY <1>12, SMT DEF Building, FatWords, DataClusters, Words
<1>14. TakenIn(fat', start)
    BY <1>7, <1>12, <1>13 DEF Taken, TakenIn
<1>15. fat[start] = Empty
    BY <1>13
<1> HIDE DEF New
<1> QED
    BY <1>5, <1>10, <1>11, <1>14, <1>15

LEMMA CommitDisk ==
    ASSUME TypeOK, ReservedKept, NoDangling, NoCrossLink, Building, prev \in FatWords,
           fat' = [cmap EXCEPT ![prev] = EndOfFile], UNCHANGED <<tab, start>>
    PROVE  NoDangling' /\ NoCrossLink' /\ Loose(start)'
<1> USE SizeAssumption DEF Empty
<1>1. \A e \in Live' : e \in Live /\ First(e)' = First(e) /\ Taken(First(e)) /\ fat[First(e)] # Empty
    BY SameTables DEF NoNewEntry, NoDangling, Taken, TakenIn
<1>2. \A c \in FatWords : Taken(c) => TakenIn(fat', c)
    BY NewChain DEF Taken, TakenIn
<1>3. \A c \in FatWords : fat'[c] \in Words \ {Empty} => TakenIn(fat', fat'[c])
    BY <1>2, NewChain DEF NoDangling, Taken, TakenIn
<1>4. NoDangling'
    BY <1>1, <1>2, <1>3 DEF NoDangling, Taken, TakenIn
<1>5. \A c, d \in FatWords : fat'[c] = fat'[d] /\ fat'[c] \in DataClusters => c = d
    <2> SUFFICES ASSUME NEW c \in FatWords, NEW d \in FatWords,
                        fat'[c] = fat'[d], fat'[c] \in DataClusters
                 PROVE  c = d
        OBVIOUS
    <2>1. fat'[c] \in Words \ {Empty}
        BY DEF DataClusters
    <2>2. CASE fat[c] = Empty /\ fat[d] = Empty
        BY <2>2, NewChain
    <2>3. CASE fat[c] # Empty /\ fat[d] # Empty
        BY <2>3, NewChain DEF NoCrossLink
    <2>4. CASE fat[c] = Empty /\ fat[d] # Empty
        BY <2>1, <2>4, NewChain DEF NoDangling, Taken, TakenIn
    <2>5. CASE fat[c] # Empty /\ fat[d] = Empty
        BY <2>1, <2>5, NewChain DEF NoDangling, Taken, TakenIn
    <2> QED
        BY <2>2, <2>3, <2>4, <2>5
<1>6. \A e \in Live', c \in FatWords : First(e)' # fat'[c]
    <2> SUFFICES ASSUME NEW e \in Live, NEW c \in FatWords, Taken(First(e)),
                        First(e) = fat'[c]
                 PROVE  FALSE
        BY <1>1
    <2>1. fat'[c] \in Words \ {Empty} /\ fat[fat'[c]] # Empty
        BY DEF Taken, TakenIn, DataClusters
    <2> QED
        BY <2>1, NewChain DEF NoCrossLink
<1>7. NoCrossLink'
    BY <1>1, <1>5, <1>6 DEF NoCrossLink
<1>8. \A e \in Live' : First(e)' # start
    BY <1>1, NewChain
<1>9. \A d \in FatWords : fat'[d] # start
    <2> SUFFICES ASSUME NEW d \in FatWords, fat'[d] = start PROVE FALSE
        OBVIOUS
    <2>1. start \in Words \ {Empty} /\ fat[start] = Empty /\ start \in Int
        BY NewChain DEF Building, DataClusters, Words, FatWords, Alias
    <2>2. CASE fat[d] = Empty
        BY <2>1, <2>2, NewChain
    <2>3. CASE fat[d] # Empty
        BY <2>1, <2>3, NewChain DEF NoDangling, Taken, TakenIn
    <2> QED
        BY <2>2, <2>3
<1> QED
    BY <1>4, <1>7, <1>8, <1>9, NewChain DEF Loose, Taken, TakenIn

(* mkdir takes one empty word of the FAT. *)
LEMMA TakeDisk ==
    ASSUME TypeOK, ReservedKept, NoDangling, NoCrossLink, UNCHANGED tab,
           NEW c \in FatWords, fat[c] = Empty, fat' = [fat EXCEPT ![c] = EndOfFile]
    PROVE  NoDangling' /\ NoCrossLink' /\ Loose(c)'
<1> USE SizeAssumption DEF Empty, EndOfFile
<1>1. \A d \in FatWords : fat'[d] = IF d = c THEN EndOfFile ELSE fat[d]
    BY DEF TypeOK
<1>2. c \in DataClusters
    BY ReservedTaken, ConstantTypes
<1>3. EndOfFile \notin Words
    BY SMT DEF Words, FatWords, Alias
<1>4. \A d \in Words : Taken(d) => TakenIn(fat', d)
    BY <1>1 DEF Taken, TakenIn
<1>5. TakenIn(fat', c)
    BY <1>1, <1>2 DEF TakenIn
<1>6. \A e \in Live' : e \in Live /\ First(e)' = First(e) /\ Taken(First(e)) /\ First(e) # c
    BY SameTables DEF NoNewEntry, NoDangling, Taken
<1>7. \A d \in FatWords : fat'[d] # c
    BY <1>1, <1>2, <1>3, ConstantTypes DEF NoDangling, Taken, DataClusters
<1>8. NoDangling'
    BY <1>1, <1>3, <1>4, <1>6 DEF NoDangling, Taken, TakenIn, DataClusters
<1>9. NoCrossLink'
    BY <1>1, <1>3, <1>6 DEF NoCrossLink, DataClusters, Taken
<1> QED
    BY <1>5, <1>6, <1>7, <1>8, <1>9 DEF Loose, Taken, TakenIn

(* rmdir empties the word of a cluster that nothing leads to. *)
LEMMA DropDisk ==
    ASSUME TypeOK, NoDangling, NoCrossLink, UNCHANGED tab,
           NEW c, Loose(c), fat' = [fat EXCEPT ![c] = Empty]
    PROVE  NoDangling' /\ NoCrossLink'
<1> USE DEF Empty
<1>1. c \in FatWords /\ \A d \in FatWords : fat'[d] = IF d = c THEN Empty ELSE fat[d]
    BY DEF TypeOK, Loose, Taken
<1>2. \A d \in Words : Taken(d) /\ d # c => TakenIn(fat', d)
    BY <1>1 DEF Taken, TakenIn
<1>3. \A e \in Live' : e \in Live /\ First(e)' = First(e) /\ Taken(First(e)) /\ First(e) # c
    BY SameTables DEF NoNewEntry, NoDangling, Loose
<1>4. NoDangling'
    BY <1>1, <1>2, <1>3 DEF NoDangling, Loose, Taken, TakenIn
<1>5. NoCrossLink'
    BY <1>1, <1>3 DEF NoCrossLink, Taken, DataClusters
<1> QED
    BY <1>4, <1>5

(* The end of a chain is freed: what was freed in memory goes to the disk. *)
LEMMA FreedDisk ==
    ASSUME TypeOK, NoDangling, NoCrossLink, Freeing, UNCHANGED tab,
           fat' = [cmap EXCEPT ![now] = Empty]
    PROVE  NoDangling' /\ NoCrossLink'
<1> USE DEF Empty
<1> DEFINE Freed(c) == cmap[c] # fat[c] \/ c = now
<1>1. \A c \in FatWords : fat'[c] = IF Freed(c) THEN Empty ELSE fat[c]
    BY DEF TypeOK, Freeing
<1>2. \A c \in FatWords : Freed(c) => /\ \A e \in Live : First(e) # c
                                      /\ \A d \in FatWords : cmap[d] # c
    BY DEF Freeing
<1>3. \A e \in Live' : e \in Live /\ First(e)' = First(e) /\ Taken(First(e)) /\ ~Freed(First(e))
    BY <1>2, SameTables DEF NoNewEntry, NoDangling, Taken
<1>4. \A c \in FatWords : fat'[c] # Empty => fat'[c] = fat[c] /\ fat'[c] = cmap[c]
    BY <1>1
<1>5. \A c \in FatWords : Taken(c) /\ ~Freed(c) => TakenIn(fat', c)
    BY <1>1 DEF Taken, TakenIn
<1>6. \A c \in FatWords : fat'[c] \in Words \ {Empty} => Taken(fat'[c]) /\ ~Freed(fat'[c])
    BY <1>2, <1>4 DEF NoDangling, Taken
<1>7. NoDangling'
    BY <1>3, <1>5, <1>6 DEF NoDangling, Taken, TakenIn
<1>8. NoCrossLink'
    BY <1>1, <1>3, <1>4 DEF NoCrossLink, Taken, DataClusters
<1> QED
    BY <1>7, <1>8

-----------------------------------------------------------------------------
(* Facts that most steps need *)

LEMMA TableKept ==
    ASSUME TypeOK, ReservedKept, NoWordTaken, CleanSlots, UNCHANGED fat,
           NEW c \in DataClusters \cup {Root}, NEW t,
           c = Root => t.dir, t.word = Empty,
           \A s \in Slots : ~t.slot[s].used => t.slot[s].name = NoName,
           tab' = [tab EXCEPT ![c] = t]
    PROVE  ReservedKept' /\ CleanSlots' /\ \A d \in Words : tab'[d].word = Empty
<1>1. c \in Words /\ 0 \in Words /\ 1 \in Words /\ Root \in Words /\ 0 # Root /\ 1 # Root
    BY SMT, SizeAssumption DEF Words, FatWords, DataClusters, Root
<1>2. \A d \in Words : tab'[d] = IF d = c THEN t ELSE tab[d]
    BY <1>1 DEF TypeOK
<1>3. c # 0 /\ c # 1
    BY <1>1 DEF DataClusters
<1>4. ReservedKept'
    BY <1>1, <1>2, <1>3 DEF ReservedKept
<1>5. CleanSlots'
    BY <1>2 DEF CleanSlots
<1> QED
    BY <1>2, <1>4, <1>5 DEF NoWordTaken

LEMMA FatKept ==
    ASSUME ReservedKept, NoWordTaken, CleanSlots, UNCHANGED tab,
           \A c \in FatWords \ DataClusters : fat'[c] = fat[c]
    PROVE  ReservedKept' /\ CleanSlots' /\ \A d \in Words : tab'[d].word = Empty
<1>1. {0, 1, Root} \subseteq FatWords \ DataClusters
    BY SMT, SizeAssumption DEF FatWords, DataClusters, Root
<1> QED
    BY <1>1 DEF ReservedKept, CleanSlots, NoWordTaken

LEMMA RestSafe ==
    ASSUME AtRest, pc' \in {"idle", "halted"}, cmap' = fat',
           \A c \in Words : tab'[c].word = Empty
    PROVE  CallInv' /\ NoWordTaken'
    BY DEF AtRest, CallInv, NoWordTaken, Blank, Contents

LEMMA DirsSafe ==
    ASSUME NoDangling
    PROVE  Dirs \subseteq DataClusters \cup {Root}
    BY DEF Dirs, NoDangling, Taken

LEMMA FatSets ==
    ASSUME NEW S, S \subseteq FatWords
    PROVE  /\ IsFiniteSet(S) /\ Cardinality(S) \in Nat
           /\ Cardinality(S) = 0 <=> S = {}
           /\ \A x \in S : Cardinality(S \ {x}) = Cardinality(S) - 1
<1>1. IsFiniteSet(FatWords)
    BY SizeAssumption, FS_Interval DEF FatWords
<1>2. IsFiniteSet(S)
    BY <1>1, FS_Subset
<1>3. \A x \in S : Cardinality(S \ {x}) = Cardinality(S) - 1
    BY <1>2, FS_RemoveElement
<1> QED
    BY <1>2, <1>3, FS_CardinalityType, FS_EmptySet

(* The first free word is in the FAT whenever the FAT has one. *)
LEMMA FirstFreeInFat ==
    ASSUME NEW t, NEW c \in Words, FirstFree(t, c)
    PROVE  /\ FreeClusters # {} => c \in FreeClusters
           /\ c \in FatWords => c \in FreeClusters
           /\ \A f \in FreeClusters : c <= f
<1>1. \A f \in FatWords : f # Alias /\ f \in Words
    BY SMT, SizeAssumption DEF FatWords, Alias, Words
<1>2. \A f \in FreeClusters : IsFreeIn(t, f) /\ c <= f
    BY <1>1 DEF FreeClusters, IsFreeIn, WordIn, FirstFree
<1>3. c \in FatWords => c \in FreeClusters
    BY <1>1 DEF FreeClusters, IsFreeIn, WordIn, FirstFree
<1>4. \A f \in FatWords : c <= f => c \in FatWords
    BY SMT, SizeAssumption DEF FatWords, Words, Alias
<1>5. FreeClusters \subseteq FatWords
    BY DEF FreeClusters
<1> QED
    BY <1>2, <1>3, <1>4, <1>5

LEMMA AliasApart ==
    ASSUME NEW c \in FatWords, NEW t, NEW v
    PROVE  /\ MapWith(c, v) = [cmap EXCEPT ![c] = v] /\ TableWith(t, c, v) = t
           /\ WordIn(t, c) = cmap[c]
<1>1. c # Alias
    BY SMT, SizeAssumption DEF FatWords, Alias
<1> QED
    BY <1>1 DEF MapWith, TableWith, WordIn

-----------------------------------------------------------------------------
(* The invariant, beside the types, and the steps that keep it *)

OnDisk == NoDangling /\ NoCrossLink /\ ReservedKept /\ CleanSlots
Safe == OnDisk /\ NoWordTaken /\ CallInv

LEMMA InitSafe == Init => Safe
<1> SUFFICES ASSUME Init PROVE Safe
    OBVIOUS
<1> USE SizeAssumption, NameAssumption, InitType DEF TypeOK
<1>1. Root \in Words /\ 0 \in Words /\ 1 \in Words /\ Root \notin {0, 1} /\ 2 \in Slots
      /\ Root \in FatWords /\ 0 \in FatWords /\ 1 \in FatWords
    BY SMT DEF Words, FatWords, Root, Slots
<1>2. \A c \in Words : tab[c].word = Empty
    BY <1>1 DEF Init, Blank, Contents
<1>3. \A c \in Words, s \in Slots :
          tab[c].slot[s] = IF c = Root /\ s = 2
                           THEN [used |-> TRUE, name |-> ShellName, dir |-> FALSE,
                                 first |-> 3, size |-> ShellLen]
                           ELSE FreeSlot
    BY <1>1 DEF Init, Blank, Contents, Root
<1>4. \A e \in Live : e = <<Root, 2>> /\ First(e) = 3
    BY <1>3 DEF Live, First, EntryAt, FreeSlot
<1>5. \A c \in FatWords :
          fat[c] = IF c = 0 THEN -2 ELSE IF c \in {1, 2, ShellLen + 2} THEN -1
                   ELSE IF c < ShellLen + 2 THEN c + 1 ELSE 0
    BY DEF Init, Empty, EndOfFile, Reserved0, Root
<1>6. \A c \in FatWords : fat[c] \in Words \ {0} =>
          fat[c] \in FatWords /\ fat[c] > 3 /\ fat[c] = c + 1 /\ c >= 3 /\ fat[c] < ShellLen + 3
    BY <1>5, SMT DEF FatWords, Words, Alias
<1>7. \A c \in FatWords : c >= 3 /\ c < ShellLen + 3 => Taken(c)
    BY <1>5, SMT DEF Taken, DataClusters, FatWords, Words, Root, Empty
<1>8. 3 \in FatWords /\ \A c \in FatWords : c \in Int
    BY SMT DEF FatWords
<1>9. NoDangling
    BY <1>4, <1>6, <1>7, <1>8 DEF NoDangling, Empty
<1>10. NoCrossLink
    <2>1. \A c \in FatWords : fat[c] # 3
        BY <1>5, <1>8, SMT
    <2>2. \A c, d \in FatWords : fat[c] = fat[d] /\ fat[c] \in DataClusters => c = d
        BY <1>6, <1>8, SMT DEF DataClusters
    <2> QED
        BY <1>4, <2>1, <2>2 DEF NoCrossLink
<1>11. ReservedKept
    <2>1. tab[0] = Blank /\ tab[1] = Blank
        BY <1>1, SMT DEF Init, Root
    <2>2. tab[Root].dir
        BY <1>1 DEF Init, Blank, Contents
    <2> QED
        BY <1>1, <1>5, <2>1, <2>2 DEF ReservedKept, EndOfFile, Reserved0, Root
<1>12. CleanSlots
    BY <1>3 DEF CleanSlots, FreeSlot
<1>13. NoWordTaken
    BY <1>2 DEF Init, NoWordTaken, Blank, Contents
<1>14. CallInv
    BY DEF Init, CallInv
<1> QED
    BY <1>9, <1>10, <1>11, <1>12, <1>13, <1>14 DEF Safe, OnDisk

LEMMA SameDisk ==
    ASSUME Inductive, UNCHANGED disk
    PROVE  OnDisk' /\ \A c \in Words : tab'[c].word = Empty
<1>1. UNCHANGED fat /\ UNCHANGED tab
    BY DEF disk
<1> QED
    BY <1>1, SameTables, KeepDisk, FatKept DEF Inductive, OnDisk

(* A call that ends, or does not begin, with the disk as it is. *)
LEMMA Quiet ==
    ASSUME Inductive, UNCHANGED disk, AtRest, pc' \in {"idle", "halted"}, cmap' = fat
    PROVE  Safe'
    BY SameDisk, RestSafe DEF Safe, disk

LEMMA ReadSafe ==
    ASSUME Inductive, NEW d \in Dirs, NEW n \in Names, NEW k \in 1 .. MaxCount,
           RefuseRead(d, n, k) \/ StartRead(d, n, k) \/ ReadPastTable(d, n)
    PROVE  Safe'
<1>1. cmap = fat
    BY DEF Inductive, CallInv, RefuseRead, StartRead, ReadPastTable
<1>2. CASE RefuseRead(d, n, k) \/ ReadPastTable(d, n)
    BY <1>1, <1>2, Quiet DEF RefuseRead, ReadPastTable, Return, Halt
<1>3. CASE StartRead(d, n, k)
    <2>1. d \in Words
        BY DirsType DEF Inductive, TypeOK
    <2>2. NoWordTaken'
        BY <1>3, <2>1 DEF StartRead, NoWordTaken, Inductive, disk
    <2> QED
        BY <1>3, <2>2, SameDisk DEF StartRead, CallInv, Safe, disk
<1> QED
    BY <1>2, <1>3

LEMMA RefuseSafe ==
    ASSUME Inductive, NEW d \in Dirs, NEW n \in Names, RefuseWrite(d, n) \/ RefuseDelete(d, n)
    PROVE  Safe'
    BY Quiet DEF Inductive, CallInv, RefuseWrite, RefuseDelete, Return

LEMMA CopySafe ==
    ASSUME Inductive, Copy \/ EndRead
    PROVE  Safe'
<1>1. CASE EndRead
    BY <1>1, Quiet DEF EndRead, Return, Inductive, CallInv
<1>2. CASE Copy
    BY <1>2, SameDisk DEF Copy, Inductive, CallInv, NoWordTaken, Safe, disk
<1> QED
    BY <1>1, <1>2

LEMMA RebootSafe ==
    ASSUME Inductive, Reboot
    PROVE  Safe'
    BY Quiet DEF Reboot

-----------------------------------------------------------------------------
(* delete_something *)

LEMMA DropEntrySafe ==
    ASSUME Inductive, NEW d \in Dirs, NEW n \in Names, DropEntry(d, n)
    PROVE  Safe'
<1> USE DEF Inductive
<1>d. d \in DataClusters \cup {Root} /\ d \in Words
    BY DirsSafe, DirsType DEF TypeOK
<1> PICK s \in Slots :
        /\ FirstMatch(tab[d], Prefix, n, s)
        /\ buf' = [tab[d] EXCEPT !.slot[s] = FreeSlot]
        /\ tab' = [tab EXCEPT ![d] = buf']
        /\ now' = tab[d].slot[s].first
        /\ pc' = IF tab[d].slot[s].dir THEN "rmdir_child" ELSE "free"
    BY DEF DropEntry
<1> PICK t : t = [tab[d] EXCEPT !.slot[s] = FreeSlot]
    OBVIOUS
<1>0. buf' = t /\ tab' = [tab EXCEPT ![d] = t]
    OBVIOUS
<1>1. tab[d].slot[s].used
    BY <1>d, NameAssumption DEF FirstMatch, Matching, CleanSlots
<1>2. UNCHANGED fat /\ cmap' = fat
    BY DEF DropEntry, CallInv
<1>3. t.slot = [tab[d].slot EXCEPT ![s] = FreeSlot] /\ t.dir = tab[d].dir /\ t.word = Empty
    BY <1>d DEF TypeOK, Cluster, NoWordTaken
<1>4. NoNewEntry /\ <<d, s>> \notin Live'
    <2>1. /\ OneNewEntry(<<d, s>>, FreeSlot.first)
          /\ ~FreeSlot.used => NoNewEntry /\ <<d, s>> \notin Live'
        BY <1>d, <1>3, SetSlot
    <2> QED
        BY <2>1 DEF FreeSlot
<1>5. NoDangling' /\ NoCrossLink'
    BY <1>2, <1>4, KeepDisk
<1>6. ReservedKept' /\ CleanSlots' /\ \A c \in Words : tab'[c].word = Empty
    <2>1. \A r \in Slots : ~t.slot[r].used => t.slot[r].name = NoName
        BY <1>d, <1>3 DEF CleanSlots, FreeSlot, TypeOK, Cluster
    <2>2. d = Root => t.dir
        BY <1>3 DEF ReservedKept
    <2> QED
        BY <1>d, <1>2, <1>3, <2>1, <2>2, TableKept
<1>7. NoWordTaken'
    BY <1>3, <1>6 DEF NoWordTaken
<1>8. <<d, s>> \in Live /\ First(<<d, s>>) = now'
    BY <1>1, <1>d, LiveElements
<1>9. Loose(now)'
    BY <1>2, <1>4, <1>8 DEF Loose, NoNewEntry, NoDangling, NoCrossLink, Taken
<1>10. Freeing'
    BY <1>2, <1>9 DEF Freeing, Loose, Taken
<1>11. CallInv'
    BY <1>2, <1>9, <1>10 DEF CallInv
<1> QED
    BY <1>5, <1>6, <1>7, <1>11 DEF Safe, OnDisk

LEMMA RmdirChildSafe ==
    ASSUME Inductive, RmdirChild
    PROVE  Safe'
<1> USE DEF Inductive
<1> PICK c, t : /\ c = now
                /\ t = [tab[c] EXCEPT !.dir = FALSE, !.up = 0, !.upName = NoName, !.word = Empty]
    OBVIOUS
<1>1. tab' = [tab EXCEPT ![c] = t] /\ UNCHANGED <<fat, cmap, now, buf>> /\ pc' = "rmdir_fat"
    BY DEF RmdirChild, locals
<1>2. Loose(c) /\ c \in DataClusters /\ c \in Words /\ cmap = fat
    BY DEF RmdirChild, CallInv, Loose, Taken, DataClusters
<1>3. t.slot = tab[c].slot /\ t.word = Empty
    BY <1>2 DEF TypeOK, Cluster
<1>4. NoNewEntry
    BY <1>1, <1>3, SameSlots
<1>5. NoDangling' /\ NoCrossLink'
    BY <1>1, <1>4, KeepDisk
<1>6. Loose(c)'
    BY <1>1, <1>2, <1>4, KeepLoose
<1>7. ReservedKept' /\ CleanSlots' /\ \A x \in Words : tab'[x].word = Empty
    <2>1. \A r \in Slots : ~t.slot[r].used => t.slot[r].name = NoName
        BY <1>2, <1>3 DEF CleanSlots
    <2>2. c # Root
        BY <1>2 DEF DataClusters
    <2> QED
        BY <1>1, <1>2, <1>3, <2>1, <2>2, TableKept
<1>8. CallInv'
    BY <1>1, <1>2, <1>6 DEF CallInv
<1> QED
    BY <1>1, <1>5, <1>7, <1>8 DEF Safe, OnDisk, NoWordTaken

LEMMA RmdirFatSafe ==
    ASSUME Inductive, RmdirFat
    PROVE  Safe'
<1> USE DEF Inductive
<1> PICK c : c = now
    OBVIOUS
<1>1. Loose(c) /\ c \in FatWords /\ c \in DataClusters /\ cmap = fat
    BY DEF RmdirFat, CallInv, Loose, Taken
<1>2. cmap' = [fat EXCEPT ![c] = Empty] /\ fat' = cmap' /\ UNCHANGED tab
    BY <1>1, AliasApart DEF RmdirFat
<1>3. NoDangling' /\ NoCrossLink'
    BY <1>1, <1>2, DropDisk
<1>4. ReservedKept' /\ CleanSlots' /\ \A x \in Words : tab'[x].word = Empty
    <2>1. \A x \in FatWords \ DataClusters : fat'[x] = fat[x]
        BY <1>1, <1>2 DEF TypeOK
    <2> QED
        BY <1>2, <2>1, FatKept
<1>5. CallInv' /\ NoWordTaken'
    BY <1>2, <1>4, RestSafe DEF RmdirFat, Return
<1> QED
    BY <1>3, <1>4, <1>5 DEF Safe, OnDisk

LEMMA FreeSafe ==
    ASSUME Inductive, Free
    PROVE  Safe'
<1> USE DEF Inductive
<1> PICK c : c = now
    OBVIOUS
<1>1. /\ Freeing /\ UNCHANGED tab /\ c \in FatWords /\ c \in DataClusters
      /\ cmap' = [cmap EXCEPT ![c] = Empty] /\ Word(c) = cmap[c]
    BY AliasApart DEF Free, CallInv, Freeing, Word
<1>2. \A x \in FatWords : cmap'[x] = IF x = c THEN Empty ELSE cmap[x]
    BY <1>1 DEF TypeOK
<1>3. CASE Word(c) = EndOfFile /\ Return(0) /\ fat' = cmap'
    <2>1. NoDangling' /\ NoCrossLink'
        BY <1>1, <1>3, FreedDisk
    <2>2. \A x \in FatWords \ DataClusters : fat'[x] = fat[x]
        BY <1>1, <1>2, <1>3 DEF Freeing
    <2>3. ReservedKept' /\ CleanSlots' /\ \A x \in Words : tab'[x].word = Empty
        BY <1>1, <2>2, FatKept
    <2>4. CallInv' /\ NoWordTaken'
        BY <1>3, <2>3, RestSafe DEF Return
    <2> QED
        BY <2>1, <2>3, <2>4 DEF Safe, OnDisk
<1>4. CASE /\ cmap[c] \in Words /\ now' = cmap[c]
           /\ buf' = TableWith(buf, c, Empty) /\ UNCHANGED <<fat, pc>>
    <2>1. NoDangling' /\ NoCrossLink' /\ ReservedKept' /\ CleanSlots'
          /\ \A x \in Words : tab'[x].word = Empty
        BY <1>1, <1>4, SameDisk DEF OnDisk, disk
    <2>2. buf' = buf
        BY <1>1, <1>4, AliasApart
    <2>3. cmap[c] # Empty /\ fat[c] = cmap[c] /\ Taken(cmap[c])
        BY <1>1, <1>4 DEF Freeing, NoDangling
    <2>4. cmap[c] # c /\ cmap[cmap[c]] = fat[cmap[c]]
        BY <1>1, <2>3 DEF Freeing, Taken
    <2>5. now' \in DataClusters \cap FatWords /\ cmap'[now'] # Empty
        BY <1>2, <1>4, <2>3, <2>4 DEF Taken
    <2>6. \A x \in FatWords : cmap'[x] # fat'[x] => cmap'[x] = Empty
        BY <1>1, <1>2, <1>4 DEF Freeing
    <2>7. \A x \in FatWords : cmap'[x] # fat'[x] =>
              /\ x \in DataClusters
              /\ \A e \in Live : First(e) # x
              /\ \A y \in FatWords : cmap'[y] # x
        BY <1>1, <1>2, <1>4 DEF Freeing, DataClusters, Empty
    <2>8. \A e \in Live : First(e) # now'
        BY <1>1, <1>4, <2>3 DEF NoCrossLink
    <2>9. \A y \in FatWords : cmap'[y] # now'
        BY <1>1, <1>2, <1>4, <2>3 DEF Freeing, NoCrossLink, Taken, DataClusters
    <2>10. \A e \in Live' : e \in Live /\ First(e)' = First(e)
        BY <1>1, SameTables DEF NoNewEntry
    <2>11. Freeing'
        BY <2>5, <2>6, <2>7, <2>8, <2>9, <2>10 DEF Freeing
    <2>12. CallInv' /\ NoWordTaken'
        BY <1>4, <2>1, <2>2, <2>11 DEF CallInv, NoWordTaken, Free
    <2> QED
        BY <2>1, <2>12 DEF Safe, OnDisk
<1> QED
    BY <1>1, <1>3, <1>4 DEF Free

-----------------------------------------------------------------------------
(* write, once the FAT is on the disk *)

LEMMA NewEntry ==
    ASSUME Inductive, UNCHANGED fat, NEW c, Loose(c),
           NEW d \in DataClusters \cup {Root}, NEW a \in Slots, NEW x, NEW t,
           x.used, x.first = c, t.slot = [tab[d].slot EXCEPT ![a] = x], t.dir,
           t.word = Empty, tab' = [tab EXCEPT ![d] = t]
    PROVE  OnDisk' /\ \A y \in Words : tab'[y].word = Empty
<1> USE DEF Inductive
<1>1. d \in Words
    BY ConstantTypes DEF DataClusters
<1>2. OneNewEntry(<<d, a>>, c)
    BY <1>1, SetSlot
<1>3. NoDangling' /\ NoCrossLink'
    BY <1>2, LinkLoose
<1>4. \A r \in Slots : ~t.slot[r].used => t.slot[r].name = NoName
    BY <1>1 DEF CleanSlots, TypeOK, Cluster
<1>5. ReservedKept' /\ CleanSlots' /\ \A y \in Words : tab'[y].word = Empty
    BY <1>4, TableKept
<1> QED
    BY <1>3, <1>5 DEF OnDisk

LEMMA MkdirParentSafe ==
    ASSUME Inductive, MkdirParent
    PROVE  Safe'
<1> USE DEF Inductive
<1>0. PICK c, d, a, x, t :
        /\ c = now /\ d = req.dir /\ a = at
        /\ x = [used |-> TRUE, name |-> req.name, dir |-> TRUE, first |-> now, size |-> 0]
        /\ t = [buf EXCEPT !.slot[at] = x]
    OBVIOUS
<1>1. tab' = [tab EXCEPT ![d] = t] /\ UNCHANGED <<fat, cmap, now, buf>> /\ pc' = "mkdir_table"
    BY <1>0 DEF MkdirParent, locals
<1>2. Loose(c) /\ d \in DataClusters \cup {Root} /\ a \in Slots
      /\ buf.dir /\ buf.slot = tab[d].slot /\ cmap = fat
    BY <1>0 DEF MkdirParent, CallInv, Loaded
<1>3. t.slot = [tab[d].slot EXCEPT ![a] = x] /\ t.dir /\ t.word = Empty
    BY <1>0, <1>2 DEF TypeOK, Cluster, NoWordTaken
<1>4. x.used /\ x.first = c
    BY <1>0
<1>5. OnDisk' /\ \A y \in Words : tab'[y].word = Empty
    BY <1>1, <1>2, <1>3, <1>4, NewEntry
<1>6. CallInv'
    BY <1>0, <1>1, <1>2 DEF CallInv, Loose, Taken
<1> QED
    BY <1>1, <1>5, <1>6 DEF Safe, NoWordTaken

LEMMA MkdirTableSafe ==
    ASSUME Inductive, MkdirTable
    PROVE  Safe'
<1> USE DEF Inductive
<1> PICK c, t : /\ c = now
                /\ t = [tab[c] EXCEPT !.dir = TRUE, !.up = req.dir, !.upName = req.up,
                                      !.word = Empty, !.data = Text[NoName]]
    OBVIOUS
<1>1. tab' = [tab EXCEPT ![c] = t] /\ UNCHANGED fat /\ cmap' = fat'
    BY DEF MkdirTable, NewTable, CallInv
<1>2. c \in DataClusters /\ c \in Words
    BY DEF MkdirTable, CallInv, Taken, DataClusters
<1>3. t.slot = tab[c].slot /\ t.dir /\ t.word = Empty
    BY <1>2 DEF TypeOK, Cluster
<1>4. NoDangling' /\ NoCrossLink'
    BY <1>1, <1>3, SameSlots, KeepDisk
<1>5. ReservedKept' /\ CleanSlots' /\ \A y \in Words : tab'[y].word = Empty
    <2>1. \A r \in Slots : ~t.slot[r].used => t.slot[r].name = NoName
        BY <1>2, <1>3 DEF CleanSlots
    <2> QED
        BY <1>1, <1>2, <1>3, <2>1, TableKept
<1>6. CallInv' /\ NoWordTaken'
    BY <1>1, <1>5, RestSafe DEF MkdirTable, Return
<1> QED
    BY <1>4, <1>5, <1>6 DEF Safe, OnDisk

LEMMA CreateParentSafe ==
    ASSUME Inductive, CreateParent
    PROVE  Safe'
<1> USE DEF Inductive
<1>0. PICK c, d, a, x, t :
        /\ c = start /\ d = req.dir /\ a = at
        /\ x = [buf.slot[at] EXCEPT !.used = TRUE, !.name = req.name,
                                    !.first = start, !.size = req.size]
        /\ t = [buf EXCEPT !.slot[at] = x]
    OBVIOUS
<1>1. tab' = [tab EXCEPT ![d] = t] /\ buf' = t /\ now' = c /\ UNCHANGED <<fat, cmap>>
      /\ pc' = "data"
    BY <1>0 DEF CreateParent, TypeOK, Cluster
<1>2. Loose(c) /\ d \in DataClusters \cup {Root} /\ a \in Slots
      /\ buf.dir /\ buf.slot = tab[d].slot /\ cmap = fat
    BY <1>0 DEF CreateParent, CallInv, Loaded
<1>3. t.slot = [tab[d].slot EXCEPT ![a] = x] /\ t.dir /\ t.word = Empty
    BY <1>0, <1>2 DEF TypeOK, Cluster, NoWordTaken
<1>4. x.first = c /\ x.used
    BY <1>0, <1>2 DEF TypeOK, Cluster, Slot
<1>5. OnDisk' /\ \A y \in Words : tab'[y].word = Empty
    BY <1>1, <1>2, <1>3, <1>4, NewEntry
<1>6. CallInv'
    BY <1>0, <1>1, <1>2 DEF CallInv, Loose, Taken
<1> QED
    BY <1>1, <1>3, <1>5, <1>6 DEF Safe, NoWordTaken

LEMMA WriteDataSafe ==
    ASSUME Inductive, WriteData
    PROVE  Safe'
<1> USE DEF Inductive
<1> PICK c, n : c = now /\ n = req.name
    OBVIOUS
<1>1. tab' = [tab EXCEPT ![c] = Contents(n)] /\ UNCHANGED <<fat, cmap>> /\ cmap = fat
    BY DEF WriteData, CallInv
<1>2. Taken(c) /\ c \in DataClusters /\ c # Root /\ Word(c) = fat[c]
    BY <1>1, AliasApart DEF WriteData, CallInv, Taken, DataClusters, Word
<1>3. NoDangling' /\ NoCrossLink'
    BY <1>1, NoSlots, KeepDisk
<1>4. ReservedKept' /\ CleanSlots' /\ \A y \in Words : tab'[y].word = Empty
    <2>1. \A r \in Slots : ~Contents(n).slot[r].used => Contents(n).slot[r].name = NoName
        BY DEF Contents, FreeSlot
    <2>2. Contents(n).word = Empty
        BY DEF Contents
    <2> QED
        BY <1>1, <1>2, <2>1, <2>2, TableKept
<1>5. CASE Return(0)
    BY <1>1, <1>3, <1>4, <1>5, RestSafe DEF Safe, OnDisk, Return
<1>6. CASE fat[c] \in Words /\ now' = fat[c] /\ UNCHANGED <<buf, pc>>
    <2>1. Taken(fat[c])
        BY <1>2, <1>6 DEF Taken, NoDangling
    <2>2. CallInv' /\ NoWordTaken'
        BY <1>1, <1>4, <1>6, <2>1 DEF CallInv, NoWordTaken, Taken, WriteData
    <2> QED
        BY <1>3, <1>4, <2>2 DEF Safe, OnDisk
<1> QED
    BY <1>2, <1>5, <1>6 DEF WriteData

-----------------------------------------------------------------------------
(* write, until the FAT is on the disk *)

LEMMA MakeDirSafe ==
    ASSUME Inductive, ~Overfull, NEW d \in Dirs, NEW n \in Names, NEW up \in NamesOf(d),
           MakeDir(d, n, up)
    PROVE  Safe'
<1> USE DEF Inductive
<1>1. cmap = fat /\ UNCHANGED tab
    BY DEF MakeDir, CallInv
<1>2. FreeClusters # {}
    BY FatSets, SMT DEF MakeDir, Fits, FreeClusters
<1> PICK s \in Slots, c \in Words :
        /\ FirstFree(tab[d], c)
        /\ cmap' = MapWith(c, EndOfFile) /\ buf' = TableWith(tab[d], c, EndOfFile)
        /\ at' = s /\ now' = c
    BY DEF MakeDir
<1>3. c \in FatWords /\ fat[c] = Empty
    BY <1>1, <1>2, FirstFreeInFat DEF FreeClusters
<1>4. fat' = [fat EXCEPT ![c] = EndOfFile] /\ cmap' = fat' /\ buf' = tab[d]
      /\ pc' = "mkdir_parent" /\ req'.dir = d
    BY <1>1, <1>3, AliasApart DEF MakeDir
<1>5. NoDangling' /\ NoCrossLink' /\ Loose(c)'
    BY <1>1, <1>3, <1>4, TakeDisk
<1>6. ReservedKept' /\ CleanSlots' /\ \A y \in Words : tab'[y].word = Empty
    <2>1. c \in DataClusters
        BY <1>3, ReservedTaken
    <2>2. \A x \in FatWords \ DataClusters : fat'[x] = fat[x]
        BY <1>4, <2>1 DEF TypeOK
    <2> QED
        BY <1>1, <2>2, FatKept
<1>7. d \in DataClusters \cup {Root} /\ d \in Words
    BY DirsSafe, DirsType DEF TypeOK
<1>8. tab[d].dir
    BY DEF MakeDir, WriteError
<1>9. Loaded'
    BY <1>1, <1>4, <1>7, <1>8 DEF Loaded
<1>10. Loose(now)'
    BY <1>5
<1>11. CallInv' /\ NoWordTaken'
    BY <1>1, <1>4, <1>7, <1>9, <1>10 DEF CallInv, NoWordTaken
<1> QED
    BY <1>5, <1>6, <1>11 DEF Safe, OnDisk

LEMMA CommitFatSafe ==
    ASSUME Inductive, CommitFat
    PROVE  Safe'
<1> USE DEF Inductive
<1>1. Building /\ prev \in FatWords /\ Loaded /\ UNCHANGED <<tab, locals>>
      /\ fat' = [cmap EXCEPT ![prev] = EndOfFile] /\ cmap' = fat' /\ buf' = buf
      /\ pc' = "create_parent"
    BY AliasApart DEF CommitFat, CallInv
<1>2. NoDangling' /\ NoCrossLink' /\ Loose(start)'
    BY <1>1, CommitDisk DEF locals
<1>3. ReservedKept' /\ CleanSlots' /\ \A y \in Words : tab'[y].word = Empty
    <2>1. \A x \in FatWords \ DataClusters : fat[x] # Empty
        BY ReservedTaken, ConstantTypes
    <2>2. \A x \in FatWords \ DataClusters : fat'[x] = fat[x]
        BY <1>1, <2>1, NewChain
    <2> QED
        BY <1>1, <2>2, FatKept
<1>4. CallInv' /\ NoWordTaken'
    BY <1>1, <1>2 DEF CallInv, NoWordTaken, Loaded, locals
<1> QED
    BY <1>2, <1>3, <1>4 DEF Safe, OnDisk

LEMMA StartFileSafe ==
    ASSUME Inductive, ~Overfull, NEW d \in Dirs, NEW n \in Names, NEW k \in 1 .. MaxCount,
           StartFile(d, n, k)
    PROVE  Safe'
<1> USE DEF Inductive
<1>1. cmap = fat /\ UNCHANGED <<fat, tab, cmap>>
    BY DEF StartFile, CallInv, disk
<1>2. PICK s \in Slots, c \in Words :
        /\ FirstFree(tab[d], c)
        /\ at' = s /\ start' = c /\ prev' = c /\ now' = c + 1
        /\ pc' = IF c + 1 < Limit THEN "link" ELSE IF k <= 1 THEN "commit" ELSE "rollback"
    BY DEF StartFile
<1>3. buf' = tab[d] /\ req'.dir = d /\ req'.size = k /\ ready' = 1 /\ k \in Nat /\ k >= 1
    BY SizeAssumption DEF StartFile
<1>4. c \in FatWords => fat[c] = Empty
    BY <1>1, <1>2, FirstFreeInFat DEF FreeClusters
<1>5. c \in DataClusters
    BY <1>4, ReservedTaken
<1>6. c + 1 < Limit => c \in FatWords
    BY SMT, SizeAssumption DEF Limit, Words, FatWords, Alias
<1>7. ~(c + 1 < Limit) => c \notin FatWords
    BY SMT, SizeAssumption DEF Limit, FatWords
<1>8. FreeClusters \subseteq FatWords
    BY DEF FreeClusters
<1>9. k <= Cardinality(FreeClusters) \/ k > Cardinality(FreeClusters) + 1
    BY DEF StartFile, Fits
<1>10. pc' # "commit"
    <2> SUFFICES ASSUME pc' = "commit" PROVE FALSE
        OBVIOUS
    <2>1. k = 1 /\ c \notin FatWords
        BY <1>2, <1>3, <1>7
    <2>2. Cardinality(FreeClusters) = 0
        BY <1>2, <1>8, <2>1, FirstFreeInFat, FatSets
    <2> QED
        BY <1>9, <2>1, <2>2
<1>11. Building'
    BY <1>1, <1>2, <1>4, <1>5, SMT DEF Building, Words, FatWords, Alias, DataClusters
<1>12. ASSUME pc' = "link" PROVE Scanning'
    <2>1. c \in FreeClusters /\ c \in FatWords /\ c \in Int
        BY <1>2, <1>6, <1>12, FirstFreeInFat DEF FatWords
    <2>2. \A x \in FatWords : x \in Int
        BY DEF FatWords
    <2>3. Rest' = FreeClusters \ {c}
        <3>1. \A f \in FreeClusters : c <= f
            BY <1>2, FirstFreeInFat
        <3>2. \A x \in FatWords : x >= c + 1 <=> c <= x /\ x # c
            BY <2>1, <2>2
        <3> QED
            BY <1>1, <1>2, <2>1, <3>1, <3>2 DEF Rest, FreeClusters
    <2>4. Cardinality(FreeClusters) \in Nat
          /\ Cardinality(FreeClusters \ {c}) = Cardinality(FreeClusters) - 1
        BY <1>8, <2>1, FatSets
    <2>5. \/ req'.size - ready' <= Cardinality(Rest')
          \/ req'.size - ready' > Cardinality(Rest') + 1
        BY <1>3, <1>9, <2>3, <2>4
    <2> QED
        BY <1>1, <1>2, <1>11, <2>1, <2>2, <2>5 DEF Scanning
<1>13. d \in DataClusters \cup {Root} /\ d \in Words
    BY DirsSafe, DirsType DEF TypeOK
<1>14. Loaded'
    BY <1>1, <1>2, <1>3, <1>13 DEF Loaded, StartFile, WriteError
<1>15. OnDisk' /\ \A y \in Words : tab'[y].word = Empty
    BY <1>1, SameDisk DEF disk
<1>16. CallInv' /\ NoWordTaken'
    BY <1>2, <1>3, <1>10, <1>11, <1>12, <1>13, <1>14, <1>15 DEF CallInv, NoWordTaken
<1> QED
    BY <1>15, <1>16 DEF Safe

LEMMA LinkSafe ==
    ASSUME Inductive, Link
    PROVE  Safe'
<1> USE DEF Inductive
<1>1. Building /\ Scanning /\ Loaded /\ UNCHANGED <<fat, tab, req, at, start>>
      /\ now' = now + 1
      /\ pc' = IF ready' >= req.size THEN "commit"
               ELSE IF now' < Limit THEN "link" ELSE "rollback"
    BY DEF Link, CallInv, disk
<1>2. OnDisk' /\ \A y \in Words : tab'[y].word = Empty
    BY <1>1, SameDisk DEF disk
<1>3. /\ prev \in FatWords /\ start \in FatWords /\ prev \in Int /\ start \in Int
      /\ now \in Int /\ now < Limit /\ prev < now /\ start <= prev
      /\ ready \in Int /\ req.size \in Int
      /\ \A x \in FatWords : x \in Int
    BY <1>1, SizeAssumption DEF Scanning, Building, TypeOK, FatWords, Request, Link, ScanPcs, Limit
<1>4. Rest \subseteq FatWords /\ Cardinality(Rest) \in Nat
    BY FatSets DEF Rest
<1>5. \A x \in FatWords : x >= now => cmap[x] = fat[x]
    BY <1>1, <1>3 DEF Building
<1>6. now + 1 < Limit => now # Alias
    BY <1>3, SMT, SizeAssumption DEF Limit, Alias
<1>7. \A x \in Words : x \in Int
    BY SMT, SizeAssumption DEF Words, FatWords, Alias
<1>8. CASE /\ IsFreeIn(buf, now) /\ cmap' = MapWith(prev, now)
           /\ buf' = TableWith(buf, prev, now) /\ prev' = now /\ ready' = ready + 1
    <2>1. buf' = buf /\ cmap' = [cmap EXCEPT ![prev] = now] /\ now \in Words
        BY <1>3, <1>8, AliasApart DEF IsFreeIn
    <2>2. now \in FatWords => fat[now] = Empty
        <3> SUFFICES ASSUME now \in FatWords PROVE fat[now] = Empty
            OBVIOUS
        <3>1. WordIn(buf, now) = cmap[now] /\ now >= now
            BY <1>3, AliasApart
        <3> QED
            BY <1>5, <1>8, <3>1 DEF IsFreeIn
    <2>3. \A x \in FatWords : cmap'[x] = IF x = prev THEN now ELSE cmap[x]
        BY <2>1 DEF TypeOK
    <2>4. Building'
        <3>1. fat[prev] = Empty /\ fat[start] = Empty
            BY <1>1, <1>3 DEF Building
        <3>2. \A x \in FatWords : prev < x /\ x < now => fat[x] # Empty
            BY <1>1 DEF Scanning
        <3> DEFINE Good(c) ==
                IF fat[c] = Empty /\ start <= c /\ c < now
                THEN /\ cmap'[c] \in Words /\ c < cmap'[c] /\ cmap'[c] <= now
                     /\ cmap'[c] \in FatWords => fat[cmap'[c]] = Empty
                     /\ \A x \in FatWords : c < x /\ x < cmap'[c] => fat[x] # Empty
                ELSE cmap'[c] = fat[c]
        <3>3. ASSUME NEW c \in FatWords PROVE Good(c)
            <4>1. CASE c = prev
                BY <1>3, <2>1, <2>2, <2>3, <3>1, <3>2, <4>1
            <4>2. CASE c # prev /\ fat[c] = Empty /\ start <= c /\ c < prev
                <5>1. cmap'[c] = cmap[c] /\ cmap[c] \in Words /\ cmap[c] \in Int
                    BY <1>1, <1>7, <2>3, <4>2 DEF Building
                <5> QED
                    BY <1>1, <1>3, <4>2, <5>1 DEF Building
            <4>3. CASE c # prev /\ ~(fat[c] = Empty /\ start <= c /\ c < prev)
                <5>1. cmap'[c] = fat[c]
                    BY <1>1, <2>3, <4>3 DEF Building
                <5>2. ~(fat[c] = Empty /\ start <= c /\ c < now)
                    BY <1>3, <3>2, <4>3
                <5> QED
                    BY <5>1, <5>2
            <4> QED
                BY <4>1, <4>2, <4>3
        <3>4. start \in DataClusters /\ start <= now
            BY <1>1, <1>3 DEF Building
        <3>5. \A c \in {start, now} \cap FatWords : fat[c] = Empty
            BY <2>2, <3>1
        <3> QED
            BY <1>1, <1>8, <3>3, <3>4, <3>5 DEF Building
    <2>5. ASSUME pc' = "commit" PROVE now \in FatWords
        <3> SUFFICES ASSUME now = Alias PROVE FALSE
            BY <2>1 DEF Words
        <3>1. Rest = {}
            BY SMT, SizeAssumption DEF Rest, Alias, FatWords
        <3>2. Cardinality(Rest) = 0
            BY <1>4, <3>1, FatSets
        <3>3. ready < req.size
            BY <1>1, <1>3, SMT, SizeAssumption DEF Scanning, Alias, FatWords
        <3>4. req.size - ready > 1
            BY <1>1, <1>3, <3>2, <3>3 DEF Scanning
        <3> QED
            BY <1>1, <1>3, <1>8, <2>5, <3>4
    <2>6. ASSUME pc' = "link" PROVE Scanning'
        <3>1. ready + 1 < req.size /\ now \in FatWords
            BY <1>1, <1>3, <1>6, <1>8, <2>1, <2>6 DEF Words
        <3>2. now \in Rest
            BY <1>3, <2>2, <3>1 DEF Rest
        <3>3. Rest' = Rest \ {now}
            <4>1. \A x \in FatWords : x >= now + 1 <=> x >= now /\ x # now
                BY <1>3
            <4> QED
                BY <1>1, <4>1 DEF Rest
        <3>4. Cardinality(Rest') = Cardinality(Rest) - 1
            BY <1>4, <3>2, <3>3, FatSets
        <3>5. \/ req'.size - ready' <= Cardinality(Rest')
              \/ req'.size - ready' > Cardinality(Rest') + 1
            BY <1>1, <1>3, <1>4, <1>8, <3>4 DEF Scanning
        <3> QED
            BY <1>1, <1>3, <1>8, <2>4, <3>1, <3>5 DEF Scanning
    <2>7. Loaded'
        BY <1>1, <2>1 DEF Loaded
    <2>8. CallInv' /\ NoWordTaken'
        BY <1>1, <1>2, <1>8, <2>1, <2>4, <2>5, <2>6, <2>7 DEF CallInv, NoWordTaken
    <2> QED
        BY <1>2, <2>8 DEF Safe
<1>9. CASE ~IsFreeIn(buf, now) /\ UNCHANGED <<cmap, buf, prev, ready>>
    <2>1. Building'
        BY <1>1, <1>9 DEF Building
    <2>2. now \in FatWords => fat[now] # Empty
        BY <1>3, <1>5, <1>9, AliasApart, ConstantTypes DEF IsFreeIn
    <2>3. ASSUME pc' = "link" PROVE Scanning'
        <3>1. ready < req.size
            BY <1>1, <1>3, <1>9, <2>3
        <3>2. \A x \in FatWords : prev < x /\ x < now + 1 => fat[x] # Empty
            BY <1>1, <1>3, <2>2 DEF Scanning
        <3>3. Rest' = Rest
            <4>1. \A x \in FatWords : x >= now + 1 <=> x >= now /\ x # now
                BY <1>3
            <4> QED
                BY <1>1, <2>2, <4>1 DEF Rest
        <3> QED
            BY <1>1, <1>3, <1>9, <2>1, <3>1, <3>2, <3>3 DEF Scanning
    <2>4. Loaded' /\ prev' \in FatWords
        BY <1>1, <1>3, <1>9 DEF Loaded
    <2>5. CallInv' /\ NoWordTaken'
        BY <1>1, <1>2, <1>9, <2>1, <2>3, <2>4 DEF CallInv, NoWordTaken
    <2> QED
        BY <1>2, <2>5 DEF Safe
<1> QED
    BY <1>8, <1>9 DEF Link

LEMMA RollbackSafe ==
    ASSUME Inductive, Rollback
    PROVE  Safe'
<1> USE DEF Inductive, Empty
<1>1. Building /\ UNCHANGED <<fat, tab>> /\ start \in Words /\ start \in Int
      /\ prev \in Words /\ prev \in Int /\ start # 0 /\ start >= 0 /\ start <= prev
    <2>1. \A c \in Words : c \in Int /\ c >= 0
        BY SMT, SizeAssumption DEF Words, FatWords, Alias
    <2> QED
        BY <2>1 DEF Rollback, CallInv, disk, TypeOK, Building, DataClusters
<1>2. OnDisk' /\ \A y \in Words : tab'[y].word = Empty
    BY <1>1, SameDisk DEF disk
<1>3. \A c \in FatWords : c \in Int /\ c < Alias
    BY SMT, SizeAssumption DEF FatWords, Alias
<1>4. start \in FatWords \/ start = Alias
    BY <1>1 DEF Words
<1>5. CASE Word(start) = Empty /\ Return(-1) /\ UNCHANGED cmap
    <2>1. start = prev \/ start = Alias
        <3> SUFFICES ASSUME start \in FatWords, start < prev PROVE FALSE
            BY <1>1, <1>4
        <3>1. cmap[start] = Empty
            BY <1>5, AliasApart DEF Word
        <3> QED
            BY <1>1, <3>1 DEF Building
    <2>2. \A c \in FatWords : cmap[c] = fat[c]
        BY <1>1, <1>3, <2>1 DEF Building
    <2>3. cmap' = fat'
        BY <1>1, <1>5, <2>2 DEF TypeOK
    <2> QED
        BY <1>2, <1>5, <2>3, RestSafe DEF Return, Safe
<1>6. CASE /\ Word(start) \in Words \ {Empty}
           /\ cmap' = MapWith(start, Empty) /\ buf' = TableWith(buf, start, Empty)
           /\ start' = Word(start)
           /\ UNCHANGED <<pc, prev>>
    <2>1. start # Alias
        BY <1>6 DEF Word, WordIn, NoWordTaken
    <2>2. start \in FatWords /\ Word(start) = cmap[start] /\ buf' = buf
          /\ cmap' = [cmap EXCEPT ![start] = Empty]
        BY <1>4, <1>6, <2>1, AliasApart DEF Word
    <2>3. fat[start] = Empty
        BY <1>1, <2>2 DEF Building
    <2>4. start < prev
        BY <1>1, <1>6, <2>2, <2>3 DEF Building
    <2>5. PICK next : next = cmap[start]
        OBVIOUS
    <2>6. /\ next \in Words /\ start < next /\ next <= prev
          /\ next \in FatWords => fat[next] = Empty
          /\ \A x \in FatWords : start < x /\ x < next => fat[x] # Empty
        BY <1>1, <2>2, <2>3, <2>4, <2>5 DEF Building
    <2>7. next \in DataClusters /\ next \in Int
        BY <2>6, ReservedTaken, SMT DEF DataClusters, Words, FatWords, Alias
    <2>8. \A x \in FatWords : cmap'[x] = IF x = start THEN Empty ELSE cmap[x]
        BY <2>2 DEF TypeOK
    <2>9. \A c \in FatWords :
            IF fat[c] = Empty /\ next <= c /\ c < prev
            THEN /\ cmap'[c] \in Words /\ c < cmap'[c] /\ cmap'[c] <= prev
                 /\ cmap'[c] \in FatWords => fat[cmap'[c]] = Empty
                 /\ \A x \in FatWords : c < x /\ x < cmap'[c] => fat[x] # Empty
            ELSE cmap'[c] = fat[c]
        <3> SUFFICES ASSUME NEW c \in FatWords
                     PROVE  IF fat[c] = Empty /\ next <= c /\ c < prev
                            THEN /\ cmap'[c] \in Words /\ c < cmap'[c] /\ cmap'[c] <= prev
                                 /\ cmap'[c] \in FatWords => fat[cmap'[c]] = Empty
                                 /\ \A x \in FatWords : c < x /\ x < cmap'[c] => fat[x] # Empty
                            ELSE cmap'[c] = fat[c]
            OBVIOUS
        <3>1. CASE fat[c] = Empty /\ next <= c /\ c < prev
            <4>1. c # start /\ start <= c
                BY <1>1, <1>3, <2>6, <2>7, <3>1
            <4> QED
                BY <1>1, <2>8, <3>1, <4>1 DEF Building
        <3>2. CASE ~(fat[c] = Empty /\ next <= c /\ c < prev) /\ c # start
            <4>1. ~(fat[c] = Empty /\ start <= c /\ c < prev)
                BY <1>1, <1>3, <2>6, <2>7, <3>2
            <4> QED
                BY <1>1, <2>8, <3>2, <4>1 DEF Building
        <3>3. CASE c = start
            BY <1>1, <2>3, <2>6, <2>7, <2>8, <3>3
        <3> QED
            BY <3>1, <3>2, <3>3
    <2>10. \A c \in {next, prev} \cap FatWords : fat[c] = Empty
        BY <1>1, <2>6 DEF Building
    <2>11. start' = next /\ prev' = prev /\ fat' = fat /\ prev \in Words
        BY <1>1, <1>6, <2>2, <2>5
    <2>12. Building'
        BY <2>6, <2>7, <2>9, <2>10, <2>11 DEF Building
    <2> QED
        BY <1>2, <1>6, <2>2, <2>12 DEF CallInv, NoWordTaken, Rollback, Safe
<1> QED
    BY <1>5, <1>6 DEF Rollback

-----------------------------------------------------------------------------
(* Every step *)

LEMMA SafeStep ==
    ASSUME ~Overfull, Inductive, [Next]_vars
    PROVE  Safe'
<1>1. CASE Call
    <2>1. PICK d \in Dirs, n \in Names :
            \/ RefuseWrite(d, n)
            \/ \E up \in NamesOf(d) : MakeDir(d, n, up)
            \/ \E k \in 1 .. MaxCount : StartFile(d, n, k)
            \/ RefuseDelete(d, n)
            \/ DropEntry(d, n)
            \/ ReadPastTable(d, n)
            \/ \E k \in 1 .. MaxCount : RefuseRead(d, n, k) \/ StartRead(d, n, k)
        BY <1>1 DEF Call
    <2>2. ASSUME NEW up \in NamesOf(d), MakeDir(d, n, up) PROVE Safe'
        BY <2>2, MakeDirSafe
    <2>3. ASSUME NEW k \in 1 .. MaxCount, StartFile(d, n, k) PROVE Safe'
        BY <2>3, StartFileSafe
    <2>4. ASSUME NEW k \in 1 .. MaxCount, RefuseRead(d, n, k) \/ StartRead(d, n, k) PROVE Safe'
        BY <2>4, ReadSafe
    <2>5. CASE ReadPastTable(d, n)
        <3>1. MaxCount \in 1 .. MaxCount
            BY SizeAssumption
        <3> QED
            BY <2>5, <3>1, ReadSafe
    <2>6. CASE RefuseWrite(d, n) \/ RefuseDelete(d, n)
        BY <2>6, RefuseSafe
    <2>7. CASE DropEntry(d, n)
        BY <2>7, DropEntrySafe
    <2> QED
        BY <2>1, <2>2, <2>3, <2>4, <2>5, <2>6, <2>7
<1>2. CASE Continue
    BY <1>2, MkdirParentSafe, MkdirTableSafe, LinkSafe, CommitFatSafe, CreateParentSafe,
       WriteDataSafe, RollbackSafe, RmdirChildSafe, RmdirFatSafe, FreeSafe, CopySafe
    DEF Continue
<1>3. CASE Reboot
    BY <1>3, RebootSafe
<1>4. CASE UNCHANGED vars
    <2>1. UNCHANGED <<fat, tab, cmap, buf, pc, req, at, start, prev, now, ready, rc>>
        BY <1>4 DEF vars
    <2>2. NoNewEntry
        BY <2>1, SameTables
    <2>3. OnDisk' /\ NoWordTaken'
        BY <2>1, SameDisk DEF Inductive, NoWordTaken, disk
    <2>4. Building <=> Building'
        BY <2>1 DEF Building
    <2>5. Scanning <=> Scanning'
        BY <2>1, <2>4 DEF Scanning, Rest
    <2>6. (Freeing => Freeing') /\ (Loaded => Loaded')
        BY <2>1, <2>2 DEF Freeing, Loaded, NoNewEntry
    <2>7. (Loose(now) => Loose(now)') /\ (Loose(start) => Loose(start)')
        BY <2>1, <2>2 DEF Loose, Taken, NoNewEntry
    <2>8. CallInv'
        BY <2>1, <2>4, <2>5, <2>6, <2>7 DEF Inductive, CallInv, Taken
    <2> QED
        BY <2>3, <2>8 DEF Safe
<1> QED
    BY <1>1, <1>2, <1>3, <1>4 DEF Next

(* The inductive invariant holds at every step, power cuts included. *)
THEOREM InductiveCorrect ==
    ASSUME ~Overfull
    PROVE  Spec => []Inductive
<1>1. Init => Inductive
    BY InitType, InitSafe DEF Inductive, Safe, OnDisk
<1>2. Inductive /\ [Next]_vars => Inductive'
    <2> SUFFICES ASSUME Inductive, [Next]_vars PROVE Inductive'
        OBVIOUS
    <2>1. TypeOK'
        <3>1. UNCHANGED vars => TypeOK'
            BY DEF Inductive, TypeOK, vars
        <3> QED
            BY <3>1, CallType, ContinueType, RebootType DEF Next, Inductive
    <2> QED
        BY <2>1, SafeStep DEF Inductive, Safe, OnDisk
<1> QED
    BY <1>1, <1>2, PTL DEF Spec

(* At every instant, a power cut during a call included, what an entry or  *)
(* a link of the FAT leads to is taken in the FAT on disk.                 *)
THEOREM NoDanglingCorrect ==
    ASSUME ~Overfull
    PROVE  Spec => []NoDangling
<1>1. Inductive => NoDangling
    BY DEF Inductive
<1> QED
    BY <1>1, InductiveCorrect, PTL

(* At every instant no two chains of the FAT on disk share a cluster. *)
THEOREM NoCrossLinkCorrect ==
    ASSUME ~Overfull
    PROVE  Spec => []NoCrossLink
<1>1. Inductive => NoCrossLink
    BY DEF Inductive
<1> QED
    BY <1>1, InductiveCorrect, PTL

(* Between calls the FAT in memory is the FAT on disk, whatever was cut    *)
(* off, refused or undone before.                                          *)
THEOREM CacheCoherentCorrect ==
    ASSUME ~Overfull
    PROVE  Spec => []CacheCoherent
<1>1. Inductive => CacheCoherent
    BY DEF Inductive, CallInv, CacheCoherent
<1> QED
    BY <1>1, InductiveCorrect, PTL

(* No call writes over the boot sector, the reserved words of the FAT or   *)
(* the root directory's attribute.                                         *)
THEOREM ReservedKeptCorrect ==
    ASSUME ~Overfull
    PROVE  Spec => []ReservedKept
<1>1. Inductive => ReservedKept
    BY DEF Inductive
<1> QED
    BY <1>1, InductiveCorrect, PTL
=============================================================================
