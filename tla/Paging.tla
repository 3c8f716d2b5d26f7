--------------------------------- MODULE Paging --------------------------------
(***************************************************************************)
(* The page frames and the kernel's page directory, from the moment        *)
(* kernel_setup has given the user program its first frame, for callers    *)
(* that map and unmap user pages in any order.  Addresses are counted in   *)
(* pages and frames of 4 MiB; the page of the kernel's higher half, which  *)
(* no call touches, is left out.                                           *)
(***************************************************************************)
EXTENDS Integers, FiniteSets

CONSTANTS
    FrameMax,  \* PAGE_FRAME_MAX_COUNT
    Pages,     \* user pages
    Program    \* the page of the user program

ASSUME PagingAssumption ==
    /\ FrameMax \in 3 .. 255
    /\ Program \in Pages /\ IsFiniteSet(Pages)

Frames == 0 .. FrameMax - 1
None == -1     \* the present bit is clear

VARIABLES
    map,    \* page_frame_map: the frame is used
    count,  \* free_page_frame_count
    entry,  \* lower_address in the kernel's directory, of the pages present
    gone    \* frames entered in page directories that were local variables

pvars == <<map, count, entry, gone>>

(* Frame 0 is the kernel's; kernel_setup has allocated frame 1. *)
PagingInit ==
    /\ map = [f \in Frames |-> f \in {0, 1}]
    /\ count = FrameMax - 2
    /\ entry = [p \in Pages |-> IF p = Program THEN 1 ELSE None]
    /\ gone = {}

-----------------------------------------------------------------------------
(* Bug: the frame found is not marked. *)
MarkForgotten(f) == map' = map /\ count' = count - 1

(* The byte behind the map is the low one of the count. *)
Mark(f) ==
    IF f = FrameMax THEN map' = map /\ count' = 0
    ELSE map' = [map EXCEPT ![f] = TRUE] /\ count' = count - 1

(* The first free frame, or FrameMax when the search has run to the end. *)
FirstFit(f) ==
    /\ f \in 0 .. FrameMax
    /\ \A g \in 0 .. f - 1 : map[g]
    /\ f < FrameMax => ~map[f]

(* paging_allocate_check of one frame. *)
Available == count >= 1

(* A page that was present loses its frame. *)
Allocate(p) ==
    /\ Available
    /\ \E f \in 0 .. FrameMax :
          FirstFit(f) /\ Mark(f) /\ entry' = [entry EXCEPT ![p] = f]
    /\ UNCHANGED gone

(* Bug: the present bit is not looked at. *)
FreeAbsent(p) ==
    /\ entry' = [entry EXCEPT ![p] = None]
    /\ map' = [map EXCEPT ![0] = FALSE]
    /\ count' = count + 1
    /\ UNCHANGED gone

(* Bug: the count is not increased. *)
FreeUncounted(p) ==
    /\ entry[p] # None
    /\ entry' = [entry EXCEPT ![p] = None]
    /\ map' = [map EXCEPT ![0] = FALSE]
    /\ UNCHANGED <<count, gone>>

(* The entry is cleared before its frame is read from it. *)
Free(p) ==
    /\ entry[p] # None
    /\ entry' = [entry EXCEPT ![p] = None]
    /\ map' = [map EXCEPT ![0] = FALSE]
    /\ count' = count + 1
    /\ UNCHANGED gone

(* In a directory made by paging_create_new_page_directory: a local        *)
(* variable of a call that has returned.                                   *)
AllocateElsewhere ==
    IF Available
    THEN \E f \in 0 .. FrameMax :
             FirstFit(f) /\ Mark(f) /\ gone' = gone \cup {f} /\ UNCHANGED entry
    ELSE UNCHANGED pvars

PagingNext == \E p \in Pages : Allocate(p) \/ Free(p)

-----------------------------------------------------------------------------
(* Properties *)

PagingType ==
    /\ map \in [Frames -> BOOLEAN]
    /\ count \in 0 .. FrameMax - 1
    /\ entry \in [Pages -> 0 .. FrameMax \cup {None}]
    /\ gone \subseteq 0 .. FrameMax

(* Frames of the machine that the kernel's own calls do not hand out twice. *)
UserFrames == 1 .. FrameMax - 1

(* No frame is mapped by two pages, or by a page and by a process; except  *)
(* frame 0, which a free gives away, and the frame behind the memory.      *)
FrameOwnedOnce ==
    \A p \in Pages : entry[p] \in UserFrames =>
        /\ entry[p] \notin gone
        /\ \A q \in Pages \ {p} : entry[q] # entry[p]

(* An allocation is refused only when every frame is marked used, though   *)
(* frees mark the wrong frame and the count can be overwritten.            *)
RefusedOnlyWhenFull == ~Available => \A f \in Frames : map[f]

(* "Deallocate a physical frame from respective virtual address": the      *)
(* frame that the page had is free.                                        *)
FreesFrame ==
    [][\A p \in Pages : entry[p] \in Frames /\ entry'[p] = None => ~map'[entry[p]]]_pvars
=============================================================================
