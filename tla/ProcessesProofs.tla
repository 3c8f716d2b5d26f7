---------------------------- MODULE ProcessesProofs ----------------------------
(***************************************************************************)
(* Theorems about Processes, for every number of frames, pages and blocks: *)
(* in any order of calls and timer ticks, no frame has two owners, an      *)
(* allocation is refused only when the memory is full, only one block      *)
(* runs, and the scheduler finds a block.                                  *)
(***************************************************************************)
EXTENDS Processes, FiniteSetTheorems, WellFoundedInduction, TLAPS

-----------------------------------------------------------------------------
(* The inductive invariant: a user frame that is mapped is marked, there   *)
(* are at most as many unmarked frames as the count says, and the count    *)
(* leaves room for the pages that a free can still give back.              *)

FreeFrames(m) == {f \in Frames : ~m[f]}
Present(e) == {p \in Pages : e[p] # None}

Marked ==
    /\ \A p \in Pages : entry[p] \in UserFrames => map[entry[p]]
    /\ \A f \in gone : f \in UserFrames => map[f]

Counted ==
    /\ Cardinality(FreeFrames(map)) <= count
    /\ count + Cardinality(Present(entry)) <= FrameMax - 1

PagingInv == PagingType /\ Marked /\ Counted /\ FrameOwnedOnce

-----------------------------------------------------------------------------

LEMMA FramesFinite ==
    ASSUME NEW m
    PROVE  /\ IsFiniteSet(Frames)
           /\ IsFiniteSet(FreeFrames(m)) /\ Cardinality(FreeFrames(m)) \in Nat
<1>1. IsFiniteSet(Frames)
    BY FS_Interval, PagingAssumption DEF Frames
<1>2. FreeFrames(m) \in SUBSET Frames
    BY DEF FreeFrames
<1>3. IsFiniteSet(FreeFrames(m))
    BY <1>1, <1>2, FS_Subset
<1> QED
    BY <1>1, <1>3, FS_CardinalityType

LEMMA PresentFinite ==
    ASSUME NEW e
    PROVE  IsFiniteSet(Present(e)) /\ Cardinality(Present(e)) \in Nat
<1>1. Present(e) \in SUBSET Pages
    BY DEF Present
<1>2. IsFiniteSet(Present(e))
    BY <1>1, FS_Subset, PagingAssumption
<1> QED
    BY <1>2, FS_CardinalityType

LEMMA AddOne ==
    ASSUME NEW S, IsFiniteSet(S), NEW x
    PROVE  Cardinality(S \cup {x}) <= Cardinality(S) + 1
<1>1. Cardinality(S) \in Nat
    BY FS_CardinalityType
<1>2. Cardinality(S \cup {x}) = IF x \in S THEN Cardinality(S) ELSE Cardinality(S) + 1
    BY FS_AddElement
<1> QED
    BY <1>1, <1>2

(* Marking the frame that the search found takes one from both sides; when *)
(* it ran past the map, no frame was free.                                 *)
LEMMA MarkCounts ==
    ASSUME PagingType, Counted, Available,
           NEW f \in 0 .. FrameMax, FirstFit(f), Mark(f)
    PROVE  /\ map' \in [Frames -> BOOLEAN] /\ count' \in 0 .. FrameMax - 1
           /\ count' <= count - 1
           /\ Cardinality(FreeFrames(map')) <= count'
<1>1. count \in 1 .. FrameMax - 1 /\ FrameMax \in Nat
    BY PagingAssumption DEF PagingType, Available
<1>2. CASE f = FrameMax
  <2>1. \A g \in Frames : map[g]
      BY <1>1, <1>2 DEF FirstFit, Frames
  <2>2. map' = map /\ count' = 0
      BY <1>2 DEF Mark
  <2>3. FreeFrames(map') = {}
      BY <2>1, <2>2 DEF FreeFrames
  <2>4. Cardinality(FreeFrames(map')) = 0
      BY <2>3, FS_EmptySet
  <2> QED
      BY <1>1, <2>2, <2>4 DEF PagingType
<1>3. CASE f # FrameMax
  <2>1. f \in Frames /\ ~map[f]
      BY <1>1, <1>3 DEF FirstFit, Frames
  <2>2. map' = [map EXCEPT ![f] = TRUE] /\ count' = count - 1
      BY <1>3 DEF Mark
  <2>3. FreeFrames(map') = FreeFrames(map) \ {f}
      BY <2>1, <2>2 DEF FreeFrames, PagingType
  <2>4. f \in FreeFrames(map)
      BY <2>1 DEF FreeFrames
  <2>5. Cardinality(FreeFrames(map')) = Cardinality(FreeFrames(map)) - 1
      BY <2>3, <2>4, FramesFinite, FS_RemoveElement
  <2>6. Cardinality(FreeFrames(map)) <= count /\ Cardinality(FreeFrames(map)) \in Nat
      BY FramesFinite DEF Counted
  <2>7. map' \in [Frames -> BOOLEAN]
      BY <2>2 DEF PagingType
  <2> QED
      BY <1>1, <2>2, <2>5, <2>6, <2>7
<1> QED
    BY <1>2, <1>3

(* The frame found belonged to nobody. *)
LEMMA FoundIsNew ==
    ASSUME PagingType, Marked, NEW f \in UserFrames, FirstFit(f)
    PROVE  f \notin gone /\ \A p \in Pages : entry[p] # f
<1>1. f # FrameMax /\ f < FrameMax
    BY PagingAssumption DEF UserFrames
<1>2. ~map[f]
    BY <1>1 DEF FirstFit
<1> QED
    BY <1>2 DEF Marked

(* What was marked stays marked, and the frame found is. *)
LEMMA MarkKeepsMarks ==
    ASSUME PagingType, NEW f \in 0 .. FrameMax, Mark(f)
    PROVE  /\ \A g \in Frames : map[g] => map'[g]
           /\ f \in UserFrames => map'[f]
<1>1. CASE f = FrameMax
    BY <1>1, PagingAssumption DEF Mark, UserFrames
<1>2. CASE f # FrameMax
  <2>1. map' = [map EXCEPT ![f] = TRUE] /\ f \in Frames
      BY <1>2, PagingAssumption DEF Mark, Frames
  <2> QED
      BY <2>1 DEF PagingType
<1> QED
    BY <1>1, <1>2

LEMMA UserFramesAreFrames == UserFrames \subseteq Frames
    BY PagingAssumption DEF UserFrames, Frames

-----------------------------------------------------------------------------

LEMMA InitialPaging == PagingInit => PagingInv
<1> SUFFICES ASSUME PagingInit
             PROVE  PagingInv
    OBVIOUS
<1>0. /\ FrameMax \in Nat /\ FrameMax >= 3 /\ Program \in Pages
      /\ map = [f \in Frames |-> f \in {0, 1}]
      /\ count = FrameMax - 2
      /\ entry = [p \in Pages |-> IF p = Program THEN 1 ELSE None]
      /\ gone = {}
    BY PagingAssumption DEF PagingInit
<1>1. PagingType
    BY <1>0 DEF PagingType, Frames, None
<1>2. Marked
  <2>1. \A p \in Pages : entry[p] \in UserFrames => entry[p] = 1
      BY <1>0 DEF UserFrames, None
  <2>2. 1 \in Frames
      BY <1>0 DEF Frames
  <2>3. map[1]
      BY <1>0, <2>2
  <2> QED
      BY <1>0, <2>1, <2>3 DEF Marked
<1>3. Counted
  <2>1. FreeFrames(map) = 2 .. FrameMax - 1
    <3>1. \A f \in Frames : map[f] <=> f \in {0, 1}
        BY <1>0
    <3>2. \A f : f \in 2 .. FrameMax - 1 <=> f \in Frames /\ f \notin {0, 1}
        BY <1>0 DEF Frames
    <3> QED
        BY <3>1, <3>2 DEF FreeFrames
  <2>2. Cardinality(2 .. FrameMax - 1) = FrameMax - 2
      BY <1>0, FS_Interval
  <2>3. Present(entry) = {Program}
      BY <1>0 DEF Present, None
  <2>4. Cardinality({Program}) = 1
      BY FS_Singleton
  <2>5. Cardinality(FreeFrames(map)) = FrameMax - 2 /\ Cardinality(Present(entry)) = 1
      BY <2>1, <2>2, <2>3, <2>4
  <2> QED
      BY <1>0, <2>5 DEF Counted
<1>4. FrameOwnedOnce
    BY <1>0 DEF FrameOwnedOnce, UserFrames, None
<1> QED
    BY <1>1, <1>2, <1>3, <1>4 DEF PagingInv

LEMMA AllocateKeeps ==
    ASSUME PagingInv, NEW p \in Pages, Allocate(p)
    PROVE  PagingInv'
<1> USE DEF PagingInv
<1>1. PICK f \in 0 .. FrameMax :
          FirstFit(f) /\ Mark(f) /\ entry' = [entry EXCEPT ![p] = f]
    BY DEF Allocate
<1>2. Available /\ gone' = gone
    BY DEF Allocate
<1>3. /\ map' \in [Frames -> BOOLEAN] /\ count' \in 0 .. FrameMax - 1
      /\ count' <= count - 1
      /\ Cardinality(FreeFrames(map')) <= count'
    BY <1>1, <1>2, MarkCounts
<1>4. /\ \A g \in Frames : map[g] => map'[g]
      /\ f \in UserFrames => map'[f]
    BY <1>1, MarkKeepsMarks
<1>5. \A q \in Pages : entry'[q] = IF q = p THEN f ELSE entry[q]
    BY <1>1 DEF PagingType
<1>6. PagingType'
    BY <1>1, <1>2, <1>3 DEF PagingType
<1>7. Marked'
    BY <1>2, <1>4, <1>5, UserFramesAreFrames DEF Marked
<1>8. Counted'
  <2>1. Present(entry') = Present(entry) \cup {p}
      BY <1>5, PagingAssumption DEF Present, None
  <2>2. Cardinality(Present(entry')) <= Cardinality(Present(entry)) + 1
      BY <2>1, PresentFinite, AddOne
  <2>3. count + Cardinality(Present(entry)) <= FrameMax - 1
      BY DEF Counted
  <2>4. count \in Nat /\ count' \in Nat /\ FrameMax \in Nat
      BY <1>3, PagingAssumption DEF PagingType
  <2>5. Cardinality(Present(entry)) \in Nat /\ Cardinality(Present(entry')) \in Nat
      BY PresentFinite
  <2>6. count' + Cardinality(Present(entry')) <= FrameMax - 1
      BY <1>3, <2>2, <2>3, <2>4, <2>5
  <2> QED
      BY <1>3, <2>6 DEF Counted
<1>9. FrameOwnedOnce'
  <2>1. f \in UserFrames => f \notin gone /\ \A q \in Pages : entry[q] # f
      BY <1>1, FoundIsNew
  <2> QED
      BY <1>2, <1>5, <2>1 DEF FrameOwnedOnce
<1> QED
    BY <1>6, <1>7, <1>8, <1>9

LEMMA FreeKeeps ==
    ASSUME PagingInv, NEW p \in Pages, Free(p)
    PROVE  PagingInv'
<1> USE DEF PagingInv
<1>0. FrameMax \in 3 .. 255 /\ 0 \in Frames /\ 0 \notin UserFrames /\ None \notin UserFrames
    BY PagingAssumption DEF Frames, UserFrames, None
<1>1. /\ entry[p] # None /\ entry' = [entry EXCEPT ![p] = None]
      /\ map' = [map EXCEPT ![0] = FALSE]
      /\ count' = count + 1 /\ gone' = gone
    BY DEF Free
<1>2. \A q \in Pages : entry'[q] = IF q = p THEN None ELSE entry[q]
    BY <1>1 DEF PagingType
<1>3. \A g \in UserFrames : map'[g] = map[g]
    BY <1>0, <1>1, UserFramesAreFrames DEF PagingType
<1>4. Present(entry') = Present(entry) \ {p} /\ p \in Present(entry)
    BY <1>1, <1>2 DEF Present
<1>5. Cardinality(Present(entry')) = Cardinality(Present(entry)) - 1
    BY <1>4, PresentFinite, FS_RemoveElement
<1>6. /\ Cardinality(Present(entry)) \in Nat /\ Cardinality(Present(entry')) \in Nat
      /\ count \in Nat
    BY PresentFinite DEF PagingType
<1>7. Counted'
  <2>1. FreeFrames(map') = FreeFrames(map) \cup {0}
      BY <1>0, <1>1 DEF FreeFrames, PagingType
  <2>2. Cardinality(FreeFrames(map')) <= Cardinality(FreeFrames(map)) + 1
      BY <2>1, FramesFinite, AddOne
  <2>3. Cardinality(FreeFrames(map)) \in Nat /\ Cardinality(FreeFrames(map')) \in Nat
      BY FramesFinite
  <2>4. Cardinality(FreeFrames(map)) <= count
      BY DEF Counted
  <2>5. Cardinality(FreeFrames(map')) <= count'
      BY <1>1, <1>6, <2>2, <2>3, <2>4
  <2>6. count + Cardinality(Present(entry)) <= FrameMax - 1
      BY DEF Counted
  <2>7. count' + Cardinality(Present(entry')) <= FrameMax - 1
      BY <1>0, <1>1, <1>5, <1>6, <2>6
  <2> QED
      BY <2>5, <2>7 DEF Counted
<1>8. PagingType'
  <2>1. count' + Cardinality(Present(entry')) <= FrameMax - 1
      BY <1>7 DEF Counted
  <2>2. count' \in 0 .. FrameMax - 1
      BY <1>0, <1>1, <1>6, <2>1
  <2> QED
      BY <1>1, <2>2 DEF PagingType
<1>9. Marked'
    BY <1>0, <1>1, <1>2, <1>3 DEF Marked
<1>10. FrameOwnedOnce'
    BY <1>0, <1>1, <1>2 DEF FrameOwnedOnce
<1> QED
    BY <1>7, <1>8, <1>9, <1>10

LEMMA AllocateElsewhereKeeps ==
    ASSUME PagingInv, AllocateElsewhere
    PROVE  PagingInv'
<1> USE DEF PagingInv
<1>1. CASE ~Available
  <2>1. UNCHANGED pvars
      BY <1>1 DEF AllocateElsewhere
  <2> QED
      BY <2>1 DEF pvars, PagingType, Marked, Counted, FrameOwnedOnce
<1>2. CASE Available
  <2>1. PICK f \in 0 .. FrameMax :
            FirstFit(f) /\ Mark(f) /\ gone' = gone \cup {f} /\ UNCHANGED entry
      BY <1>2 DEF AllocateElsewhere
  <2>2. /\ map' \in [Frames -> BOOLEAN] /\ count' \in 0 .. FrameMax - 1
        /\ count' <= count - 1
        /\ Cardinality(FreeFrames(map')) <= count'
      BY <1>2, <2>1, MarkCounts
  <2>3. /\ \A g \in Frames : map[g] => map'[g]
        /\ f \in UserFrames => map'[f]
      BY <2>1, MarkKeepsMarks
  <2>4. PagingType'
      BY <2>1, <2>2 DEF PagingType
  <2>5. Marked'
      BY <2>1, <2>3, UserFramesAreFrames DEF Marked
  <2>6. Counted'
    <3>1. count + Cardinality(Present(entry)) <= FrameMax - 1
        BY DEF Counted
    <3>2. count \in Nat /\ count' \in Nat /\ FrameMax \in Nat
          /\ Cardinality(Present(entry)) \in Nat
        BY <2>2, PresentFinite, PagingAssumption DEF PagingType
    <3>3. count' + Cardinality(Present(entry)) <= FrameMax - 1
        BY <2>2, <3>1, <3>2
    <3> QED
        BY <2>1, <2>2, <3>3 DEF Counted
  <2>7. FrameOwnedOnce'
    <3>1. f \in UserFrames => \A q \in Pages : entry[q] # f
        BY <2>1, FoundIsNew
    <3> QED
        BY <2>1, <3>1 DEF FrameOwnedOnce
  <2> QED
      BY <2>4, <2>5, <2>6, <2>7
<1> QED
    BY <1>1, <1>2

(* When the count is zero, no frame is free. *)
LEMMA NoneLeft == PagingInv => RefusedOnlyWhenFull
<1> SUFFICES ASSUME PagingInv, ~Available
             PROVE  \A f \in Frames : map[f]
    BY DEF RefusedOnlyWhenFull
<1>1. count = 0
    BY DEF PagingInv, PagingType, Available
<1>2. Cardinality(FreeFrames(map)) = 0
    BY <1>1, FramesFinite DEF PagingInv, Counted
<1>3. FreeFrames(map) = {}
    BY <1>2, FramesFinite, FS_EmptySet
<1> QED
    BY <1>3 DEF FreeFrames

-----------------------------------------------------------------------------
(* The scheduler *)

LEMMA MinExists ==
    ASSUME NEW T, T \subseteq Nat, T # {}
    PROVE  \E x \in T : \A y \in T : x <= y
<1>1. PICK x \in T : \A y \in T : <<y, x>> \notin OpToRel(<, Nat)
    BY NatLessThanWellFounded, WFMin
<1>2. ASSUME NEW y \in T
      PROVE  x <= y
  <2>1. x \in Nat /\ y \in Nat
      OBVIOUS
  <2>2. ~(y < x)
      BY <1>1, <2>1 DEF OpToRel
  <2> QED
      BY <2>1, <2>2
<1> QED
    BY <1>2

LEMMA BlocksAreNumbers == Blocks \subseteq Int /\ 0 \in Blocks /\ 1 \in Blocks
    BY ProcessesAssumption DEF Blocks

-----------------------------------------------------------------------------
(* The inductive invariant of the blocks: only block 0 is ever made into a *)
(* process, so another one is there for the scheduler.                     *)
OthersStay == \A b \in Blocks \ {0} : state[b] # "INACTIVE"

BlocksType ==
    /\ state \in [Blocks -> {"READY", "RUN", "INACTIVE"}]
    /\ fresh \in BOOLEAN /\ active \in 0 .. ProcessMax
    /\ current \in Blocks \cup {NoBlock} /\ broken \in {"no", "overrun", "halted"}

BlocksInv == BlocksType /\ OneRuns /\ OthersStay /\ NeverHalts

Inv == PagingInv /\ BlocksInv

(* The first process, and every later one, is made in block 0. *)
LEMMA FirstBlock ==
    ASSUME BlocksType, OthersStay, Inactive # {}
    PROVE  Lowest(Inactive) = 0
<1>1. 0 \in Inactive
  <2>1. CASE fresh
      BY <2>1, BlocksAreNumbers DEF Inactive
  <2>2. CASE ~fresh
      BY <2>2, BlocksAreNumbers DEF Inactive, OthersStay
  <2> QED
      BY <2>1, <2>2
<1>2. \A c \in Inactive : c \in Int /\ 0 <= c
    BY ProcessesAssumption DEF Inactive, Blocks
<1>3. 0 \in Inactive /\ \A c \in Inactive : 0 <= c
    BY <1>1, <1>2
<1>4. /\ Lowest(Inactive) \in Inactive
      /\ \A c \in Inactive : Lowest(Inactive) <= c
    BY <1>3 DEF Lowest
<1>5. Lowest(Inactive) <= 0
    BY <1>1, <1>4
<1> QED
    BY <1>2, <1>4, <1>5

LEMMA InitialBlocks == Init => BlocksInv
    BY ProcessesAssumption DEF Init, BlocksInv, BlocksType, OneRuns, OthersStay, NeverHalts

LEMMA CreateKeeps ==
    ASSUME BlocksInv, NEW frames, Create(frames)
    PROVE  BlocksInv'
<1>1. CASE Inactive = {}
  <2>1. broken' = "overrun" /\ UNCHANGED <<state, fresh, active, current>>
      BY <1>1 DEF Create
  <2> QED
      BY <2>1 DEF BlocksInv, BlocksType, OneRuns, OthersStay, NeverHalts
<1>2. CASE Inactive # {}
  <2>1. Lowest(Inactive) = 0
      BY <1>2, FirstBlock DEF BlocksInv
  <2>2. /\ state' = [state EXCEPT ![0] = "INACTIVE"] /\ fresh' = FALSE
        /\ broken' = broken /\ current' = current
        /\ active' = active + 1 /\ active < ProcessMax
      BY <1>2, <2>1 DEF Create, MayCreate
  <2>3. \A b \in Blocks : state'[b] = IF b = 0 THEN "INACTIVE" ELSE state[b]
      BY <2>2 DEF BlocksInv, BlocksType
  <2>4. BlocksType'
    <3>1. active' \in 0 .. ProcessMax
        BY <2>2, ProcessesAssumption DEF BlocksInv, BlocksType
    <3>2. state' \in [Blocks -> {"READY", "RUN", "INACTIVE"}]
        BY <2>2 DEF BlocksInv, BlocksType
    <3> QED
        BY <2>2, <3>1, <3>2 DEF BlocksInv, BlocksType
  <2> QED
      BY <2>2, <2>3, <2>4 DEF BlocksInv, OneRuns, OthersStay, NeverHalts
<1> QED
    BY <1>1, <1>2

(* Once the running block is READY, block 1 is: the search does not fail. *)
LEMMA SomeReady ==
    ASSUME BlocksInv
    PROVE  Stopped[1] = "READY"
<1>1. 1 \in Blocks /\ 1 # 0
    BY BlocksAreNumbers
<1>2. state[1] \in {"READY", "RUN"}
    BY <1>1 DEF BlocksInv, BlocksType, OthersStay
<1>3. state[1] = "RUN" => current = 1
    BY <1>1 DEF BlocksInv, OneRuns
<1> QED
    BY <1>1, <1>2, <1>3 DEF Stopped

(* The search stops at the first READY block behind the current one. *)
LEMMA ChosenIsReady ==
    ASSUME BlocksType, Stopped[1] = "READY"
    PROVE  /\ Chosen(Stopped) \in Blocks /\ Stopped[Chosen(Stopped)] = "READY"
           /\ \A c \in Blocks : Stopped[c] = "READY" => After(Chosen(Stopped)) <= After(c)
<1>1. ProcessMax \in Nat /\ ProcessMax >= 2 /\ current \in Int
    BY ProcessesAssumption DEF BlocksType, Blocks, NoBlock
<1>2. \A b \in Blocks : After(b) \in Nat
    BY <1>1, BlocksAreNumbers DEF After
<1> DEFINE T == {After(b) : b \in {c \in Blocks : Stopped[c] = "READY"}}
<1>3. T \subseteq Nat /\ T # {}
    BY <1>2, BlocksAreNumbers
<1>4. \A S : S \subseteq Nat /\ S # {} => \E x \in S : \A y \in S : x <= y
    BY MinExists
<1>5. \E x \in T : \A y \in T : x <= y
    BY <1>3, <1>4
<1>6. \E b \in Blocks : /\ Stopped[b] = "READY"
                        /\ \A c \in Blocks : Stopped[c] = "READY" => After(b) <= After(c)
    BY <1>5
<1> QED
    BY <1>6 DEF Chosen

LEMMA TickKeeps ==
    ASSUME BlocksInv, Tick
    PROVE  BlocksInv'
<1>1. ~ \A b \in Blocks : Stopped[b] # "READY"
    BY SomeReady, BlocksAreNumbers
<1>2. /\ current' = Chosen(Stopped) /\ state' = [Stopped EXCEPT ![current'] = "RUN"]
      /\ broken' = broken /\ fresh' = fresh
    BY <1>1 DEF Tick
<1>6. current' \in Blocks /\ active' = active
    BY <1>2, SomeReady, ChosenIsReady DEF BlocksInv, Tick
<1>3. /\ Stopped \in [Blocks -> {"READY", "RUN", "INACTIVE"}]
      /\ \A b \in Blocks : Stopped[b] # "RUN"
      /\ \A b \in Blocks : Stopped[b] = "INACTIVE" => state[b] = "INACTIVE"
    BY DEF Stopped, BlocksInv, BlocksType, OneRuns
<1>4. \A b \in Blocks : state'[b] = IF b = current' THEN "RUN" ELSE Stopped[b]
    BY <1>2, <1>3
<1>5. BlocksType'
    BY <1>2, <1>3, <1>6 DEF BlocksInv, BlocksType
<1> QED
    BY <1>2, <1>3, <1>4, <1>5 DEF BlocksInv, OneRuns, OthersStay, NeverHalts

-----------------------------------------------------------------------------

LEMMA InvHolds == Spec => []Inv
<1>1. Init => Inv
    BY InitialPaging, InitialBlocks DEF Init, Inv
<1>2. Inv /\ [Next]_vars => Inv'
  <2> SUFFICES ASSUME Inv, [Next]_vars
               PROVE  Inv'
      OBVIOUS
  <2>1. CASE Tick
    <3>1. UNCHANGED pvars
        BY <2>1 DEF Tick, pvars
    <3>2. PagingInv'
        BY <3>1 DEF Inv, PagingInv, PagingType, Marked, Counted, FrameOwnedOnce, pvars
    <3> QED
        BY <2>1, <3>2, TickKeeps DEF Inv
  <2>2. ASSUME NEW frames \in 0 .. SizeMax, Create(frames)
        PROVE  Inv'
    <3>1. AllocateElsewhere
        BY <2>2 DEF Create
    <3> QED
        BY <2>2, <3>1, CreateKeeps, AllocateElsewhereKeeps DEF Inv
  <2>3. ASSUME NEW p \in Pages, MapPage(p) \/ UnmapPage(p)
        PROVE  Inv'
    <3>1. /\ Allocate(p) \/ Free(p)
          /\ UNCHANGED <<state, fresh, active, current, broken>>
        BY <2>3 DEF MapPage, UnmapPage
    <3>2. PagingInv'
        BY <3>1, AllocateKeeps, FreeKeeps DEF Inv
    <3>3. BlocksInv'
        BY <3>1 DEF Inv, BlocksInv, BlocksType, OneRuns, OthersStay, NeverHalts
    <3> QED
        BY <3>2, <3>3 DEF Inv
  <2>4. CASE UNCHANGED vars
    <3>1. PagingInv'
        BY <2>4 DEF Inv, PagingInv, PagingType, Marked, Counted, FrameOwnedOnce, vars
    <3>2. BlocksInv'
        BY <2>4 DEF Inv, BlocksInv, BlocksType, OneRuns, OthersStay, NeverHalts, vars
    <3> QED
        BY <3>1, <3>2 DEF Inv
  <2> QED
      BY <2>1, <2>2, <2>3, <2>4 DEF Next
<1> QED
    BY <1>1, <1>2, PTL DEF Spec

(* Every variable keeps its type; in particular the count stays below the  *)
(* number of frames and the number of processes within PROCESS_COUNT_MAX.  *)
THEOREM TypeCorrect == Spec => []TypeOK
<1>1. Inv => TypeOK
    BY DEF Inv, PagingInv, BlocksInv, BlocksType, TypeOK
<1> QED
    BY <1>1, InvHolds, PTL

(* No user frame has two owners, whatever calls and ticks came before, and *)
(* although a free gives away the wrong frame (paging.c:130).              *)
THEOREM FrameOwnedOnceCorrect == Spec => []FrameOwnedOnce
<1>1. Inv => FrameOwnedOnce
    BY DEF Inv, PagingInv
<1> QED
    BY <1>1, InvHolds, PTL

(* paging_allocate_check refuses only when every frame is marked used.     *)
THEOREM RefusedOnlyWhenFullCorrect == Spec => []RefusedOnlyWhenFull
<1>1. Inv => RefusedOnlyWhenFull
    BY NoneLeft DEF Inv
<1> QED
    BY <1>1, InvHolds, PTL

(* At most one block is RUN, and it is the scheduler's current one.        *)
THEOREM OneRunsCorrect == Spec => []OneRuns
<1>1. Inv => OneRuns
    BY DEF Inv, BlocksInv
<1> QED
    BY <1>1, InvHolds, PTL

(* The round robin always finds a READY block: the processor never halts.  *)
THEOREM NeverHaltsCorrect == Spec => []NeverHalts
<1>1. Inv => NeverHalts
    BY DEF Inv, BlocksInv
<1> QED
    BY <1>1, InvHolds, PTL

LEMMA Remainder ==
    ASSUME NEW n \in Nat, n > 0, NEW x \in Int, x < 0, x >= -n
    PROVE  x % n = x + n
    BY SMT

(* How far the search is from a block: from the current one on, and from   *)
(* the end of the list on to its beginning.                                *)
LEMMA Distance ==
    ASSUME NEW n \in Nat, n > 0, NEW b \in 0 .. n - 1, NEW c \in -1 .. n - 1
    PROVE  (b - c - 1) % n = IF b > c THEN b - c - 1 ELSE b - c - 1 + n
<1>1. ASSUME NEW x \in 0 .. n - 1 PROVE x % n = x
    BY SMT
<1> QED
    BY <1>1, Remainder

LEMMA TickBringsNearer ==
    ASSUME BlocksInv, Tick, NEW b \in Blocks, state[b] = "READY", state'[b] = "READY"
    PROVE  After(b)' < After(b)
<1> PICK c, d, n : c = current /\ d = current' /\ n = ProcessMax
    OBVIOUS
<1>1. n \in Nat /\ n > 0 /\ b \in 0 .. n - 1 /\ c \in -1 .. n - 1
    BY ProcessesAssumption DEF BlocksInv, BlocksType, Blocks, NoBlock
<1>2. d = Chosen(Stopped) /\ state' = [Stopped EXCEPT ![d] = "RUN"]
    BY SomeReady, BlocksAreNumbers DEF Tick
<1>3. d \in 0 .. n - 1 /\ \A x \in Blocks : Stopped[x] = "READY" => After(d) <= After(x)
    BY <1>2, SomeReady, ChosenIsReady DEF BlocksInv, Blocks
<1>4. Stopped[b] = "READY" /\ b # d
    BY <1>2, <1>3 DEF Stopped, Blocks
<1>5. (d - c - 1) % n <= (b - c - 1) % n
    BY <1>3, <1>4 DEF After
<1>6. (b - d - 1) % n < (b - c - 1) % n
    BY <1>1, <1>3, <1>4, <1>5, Distance
<1> QED
    BY <1>6 DEF After

(* With every tick a READY block comes nearer to its turn, for any number  *)
(* of blocks: no other block overtakes it, and what is made in between     *)
(* does not take it further away.                                          *)
THEOREM TurnComesNearerCorrect == Spec => TurnComesNearer
<1>1. ASSUME Inv, [Next]_vars, NEW b \in Blocks, state[b] = "READY", state'[b] = "READY"
      PROVE  IF Tick THEN After(b)' < After(b) ELSE After(b)' <= After(b)
  <2>1. CASE Tick
      BY <1>1, <2>1, TickBringsNearer DEF Inv
  <2>2. CASE ~Tick
    <3>1. current' = current
        BY <1>1, <2>2 DEF Next, Create, MapPage, UnmapPage, vars
    <3>2. After(b)' = After(b)
        BY <3>1 DEF After
    <3>3. After(b) \in Int
      <4>1. ProcessMax \in Nat /\ ProcessMax > 0 /\ b \in Int /\ current \in Int
          BY <1>1, ProcessesAssumption DEF Inv, BlocksInv, BlocksType, Blocks, NoBlock
      <4> QED
          BY <4>1 DEF After
    <3> QED
        BY <2>2, <3>2, <3>3
  <2> QED
      BY <2>1, <2>2
<1>2. Inv /\ [Next]_vars =>
          [\A b \in Blocks : state[b] = "READY" /\ state'[b] = "READY" =>
               IF Tick THEN After(b)' < After(b) ELSE After(b)' <= After(b)]_vars
    BY <1>1
<1> QED
    BY <1>2, InvHolds, PTL DEF Spec, TurnComesNearer
=============================================================================
