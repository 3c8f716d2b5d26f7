------------------------------- MODULE Processes -------------------------------
(***************************************************************************)
(* The list of process control blocks: process_create_user_process, and    *)
(* the timer's scheduler_isr_handler, over the page frames of Paging.  The *)
(* two are called in any order.  (Neither is linked into the kernel yet.)  *)
(* Registers are left out: only the state of a block is modelled.          *)
(***************************************************************************)
EXTENDS Paging

CONSTANTS
    ProcessMax,  \* PROCESS_COUNT_MAX
    SizeMax,     \* bound: frames that the executable of a request takes
    NeededMax    \* PROCESS_PAGE_FRAME_COUNT_MAX

ASSUME ProcessesAssumption ==
    /\ ProcessMax \in Nat /\ ProcessMax >= 2
    /\ SizeMax \in Nat /\ NeededMax \in Nat

Blocks == 0 .. ProcessMax - 1
NoBlock == -1

VARIABLES
    state,    \* process_state of every block
    fresh,    \* isEmptyPCB
    active,   \* active_process_count
    current,  \* current_running_process_index
    broken    \* a block behind the list was written, or the processor halted

vars == <<map, count, entry, gone, state, fresh, active, current, broken>>

(* READY is 0, so that is what every block is in the beginning. *)
Init ==
    /\ PagingInit
    /\ state = [b \in Blocks |-> "READY"]
    /\ fresh = TRUE /\ active = 0 /\ current = NoBlock /\ broken = "no"

-----------------------------------------------------------------------------
(* process_list_get_inactive_index: any block does the first time. *)
Inactive == {b \in Blocks : state[b] = "INACTIVE" \/ fresh}

Lowest(S) == CHOOSE b \in S : \A c \in S : b <= c

(* ceil_div rounds a multiple up as well. *)
Needed(frames) == frames + 2

(* The checks of process_create_user_process: of the number of processes,  *)
(* of the memory (any frame will do) and of the size.                      *)
MayCreate(frames) == active < ProcessMax /\ Available /\ Needed(frames) <= NeededMax

(* The block stays INACTIVE.  Without a free block, a block behind the     *)
(* list is written.                                                        *)
Create(frames) ==
    /\ MayCreate(frames)
    /\ IF Inactive = {}
       THEN broken' = "overrun" /\ UNCHANGED <<state, fresh, active>>
       ELSE /\ state' = [state EXCEPT ![Lowest(Inactive)] = "INACTIVE"]
            /\ fresh' = FALSE /\ active' = active + 1
            /\ UNCHANGED broken
    /\ AllocateElsewhere
    /\ UNCHANGED current

-----------------------------------------------------------------------------
(* Bug: the running process stays RUN. *)
StillRunning == state

(* scheduler_isr_handler: the running process becomes READY. *)
Stopped == [b \in Blocks |-> IF b = current THEN "READY" ELSE state[b]]

(* The order in which the blocks are looked at, after the current one. *)
After(b) == (b - current - 1) % ProcessMax

(* Bug: the search begins at block 0. *)
ChosenFirst(s) == Lowest({b \in Blocks : s[b] = "READY"})

Chosen(s) == CHOOSE b \in Blocks : /\ s[b] = "READY"
                                   /\ \A c \in Blocks : s[c] = "READY" => After(b) <= After(c)

(* scheduler_switch_to_next_process *)
Tick ==
    /\ IF \A b \in Blocks : Stopped[b] # "READY"
       THEN broken' = "halted" /\ state' = Stopped /\ UNCHANGED current
       ELSE /\ current' = Chosen(Stopped)
            /\ state' = [Stopped EXCEPT ![Chosen(Stopped)] = "RUN"]
            /\ UNCHANGED broken
    /\ UNCHANGED <<map, count, entry, gone, fresh, active>>

-----------------------------------------------------------------------------
MapPage(p) == Allocate(p) /\ UNCHANGED <<state, fresh, active, current, broken>>
UnmapPage(p) == Free(p) /\ UNCHANGED <<state, fresh, active, current, broken>>

Next ==
    /\ broken = "no"
    /\ \/ Tick
       \/ \E frames \in 0 .. SizeMax : Create(frames)
       \/ \E p \in Pages : MapPage(p) \/ UnmapPage(p)

Spec == Init /\ [][Next]_vars

-----------------------------------------------------------------------------
(* Properties *)

(* Every variable holds a value of its C type. *)
TypeOK ==
    /\ PagingType
    /\ state \in [Blocks -> {"READY", "RUN", "INACTIVE"}]
    /\ fresh \in BOOLEAN /\ active \in 0 .. ProcessMax
    /\ current \in Blocks \cup {NoBlock} /\ broken \in {"no", "overrun", "halted"}

(* At most one block is RUN, and it is the scheduler's current one, also   *)
(* when a process is made in the block that runs.                          *)
OneRuns == \A b \in Blocks : state[b] = "RUN" => b = current

(* The scheduler always has a block to switch to. *)
NeverHalts == broken # "halted"

(* A READY block comes nearer to its turn with every tick, and nothing     *)
(* between two ticks takes it further away: it waits for less than         *)
(* ProcessMax ticks, whatever processes are made meanwhile.  (That there   *)
(* are so many ticks is not said: no handler acknowledges the timer's      *)
(* interrupt.)                                                             *)
TurnComesNearer ==
    [][\A b \in Blocks : state[b] = "READY" /\ state'[b] = "READY" =>
           IF Tick THEN After(b)' < After(b) ELSE After(b)' <= After(b)]_vars
=============================================================================
