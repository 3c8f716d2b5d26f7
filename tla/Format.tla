--------------------------------- MODULE Format --------------------------------
(***************************************************************************)
(* From a blank disk to a file system: initialize_filesystem_fat32 and     *)
(* create_fat32 with the kernel's disk writes one by one and the power cut *)
(* between any two of them, and the inserter, which does the same on an    *)
(* image in memory and saves it at the end.  Of a call of write only the   *)
(* clusters it takes are modelled.                                         *)
(***************************************************************************)
EXTENDS Integers, FiniteSets, FiniteSetsExt

CONSTANTS
    LastCluster,  \* clusters are numbered 0 .. LastCluster, at least three
    FileSizes     \* clusters that a file takes

Words == 0 .. LastCluster
Reserved == {0, 1, 2}  \* CLUSTER_0_VALUE, CLUSTER_1_VALUE, the root's end of file

VARIABLES
    signed,  \* the boot sector holds fs_signature
    fat,     \* the words of the FAT on disk that are not empty
    root,    \* cluster 2 on disk is the root's table
    ram,     \* the words of driver_state.fat_table that are not empty
    pc       \* where the kernel is

vars == <<signed, fat, root, ram, pc>>

(* make disk: 4 MiB of zeroes. *)
Init == signed = FALSE /\ fat = {} /\ root = FALSE /\ ram = {} /\ pc = "off"

(* initialize_filesystem_fat32 *)
PowerOn ==
    /\ pc = "off"
    /\ IF signed THEN ram' = fat /\ pc' = "on" ELSE ram' = {} /\ pc' = "empty"
    /\ UNCHANGED <<signed, fat, root>>

(* create_fat32 *)
WriteSignature ==
    /\ pc = "empty" /\ pc' = "signed"
    /\ signed' = TRUE
    /\ UNCHANGED <<fat, root, ram>>

WriteFat ==
    /\ pc = "signed" /\ pc' = "fat_written"
    /\ fat' = ram
    /\ UNCHANGED <<signed, root, ram>>

WriteRoot ==
    /\ pc = "fat_written" /\ pc' = "created"
    /\ ram' = ram \cup Reserved
    /\ root' = TRUE
    /\ UNCHANGED <<signed, fat>>

PowerOff == pc # "off" /\ pc' = "off" /\ ram' = {} /\ UNCHANGED <<signed, fat, root>>

(* The n lowest words that are empty in t. *)
Lowest(t, n) == {w \in Words \ t : Cardinality({v \in Words \ t : v < w}) < n}

(* write: a file of n clusters in the root, when there is one. *)
Write(n) ==
    /\ pc \in {"created", "on"} /\ root /\ n <= Cardinality(Words \ ram)
    /\ ram' = ram \cup Lowest(ram, n)
    /\ fat' = ram'
    /\ UNCHANGED <<signed, root, pc>>

(* One run of the inserter. *)
Insert(n) ==
    /\ pc = "off"
    /\ signed' = TRUE /\ root' = (root \/ ~signed)
    /\ LET loaded == IF signed THEN fat ELSE Reserved
           saved == IF signed THEN fat ELSE {}
       IN fat' = IF root' /\ n <= Cardinality(Words \ loaded)
                 THEN loaded \cup Lowest(loaded, n) ELSE saved
    /\ UNCHANGED <<ram, pc>>

Next ==
    \/ PowerOn \/ WriteSignature \/ WriteFat \/ WriteRoot \/ PowerOff
    \/ \E n \in FileSizes : Write(n) \/ Insert(n)

Spec == Init /\ [][Next]_vars

(* create_fat32's comment: it writes a "proper FileAllocationTable         *)
(* (contain CLUSTER_0_VALUE, CLUSTER_1_VALUE, and initialized root         *)
(* directory)".  When it has returned, the FAT on disk has these words;    *)
(* without them the next boot takes the clusters for files.                *)
ProperFat == pc = "created" => Reserved \subseteq fat
=============================================================================
