----------------------------- MODULE ShellInvariant -----------------------------
(***************************************************************************)
(* The inductive invariants of Shell: its types; what every sequence of    *)
(* commands keeps of the volume; and what holds while no command makes a   *)
(* second link to a cluster, as cp and mv do: the volume is a tree, the    *)
(* climb to the root leaves a trail that leads back, and a search has done *)
(* with all that is not on its stack.                                      *)
(***************************************************************************)
EXTENDS Shell

AnyName == Names \cup {RootName, NoName, Junk}
Walk == [cur : Clusters, name : AnyName, table : Table, path : Seq(AnyName)]
Hunt == [name : Names \cup {NoName}, ext : BOOLEAN, check : BOOLEAN,
         kind : {"none", "dir", "file"}, at : Clusters, atName : AnyName, code : {0, 1}]
Frame == [table : Table, next : 2 .. TableSize]

ShellType ==
    /\ vol \in VolumeType
    /\ cwd \in Clusters /\ cwdName \in AnyName /\ pc \in Pcs
    /\ walk \in Walk /\ Len(walk.path) <= PathMax
    /\ hunt \in Hunt /\ stack \in Seq(Frame)
    /\ pc = "scan" => stack # <<>>
    /\ victim \in Typed \cup {NoName} /\ (pc = "moving" => victim \in Typed)

-----------------------------------------------------------------------------
(* What every sequence of commands keeps, also cp and mv. *)

(* A slot that is not in use cannot be taken for an entry. *)
CleanSlots ==
    \A d \in Clusters, i \in Slots :
        LET x == vol.tab[d][i]
        IN IF x.used THEN x.name \in Names ELSE x.name \in {NoName, Junk} /\ ~x.dir

(* The shell makes no file: the kernel's and its own are in the root, and  *)
(* neither's cluster is the root's.                                        *)
FilesInRoot ==
    \A d \in Clusters, i \in Slots :
        LET x == vol.tab[d][i] IN x.used /\ ~x.dir => d = Root /\ x.first # Root

(* The root keeps its first two entries and its cluster: the shell can     *)
(* empty it only when it stands there, and then there is nowhere to go.    *)
RootStays ==
    /\ Root \notin vol.free
    /\ vol.tab[Root][0] = Folder(RootName, Root) /\ vol.tab[Root][1] = Folder(RootName, Root)
    /\ InUse(vol.tab[Root]) \/ cwd = Root

SlotsInv == CleanSlots /\ FilesInRoot /\ RootStays

-----------------------------------------------------------------------------
(* The tree, while no command makes a second link *)

(* Cluster c is a directory with this name. *)
IsFolder(c, n) == vol.tab[c][0] = Folder(n, c)

(* Every entry in use is in a directory, and its cluster is its own. *)
EntriesOwn ==
    \A d \in Clusters, i \in Slots : vol.tab[d][i].used =>
        /\ vol.tab[d][0].dir /\ vol.tab[d][i].first \notin vol.free \cup {Root}
        /\ \A f \in Clusters, j \in Slots :
               /\ vol.tab[f][j].used
               /\ \/ vol.tab[f][j].first = vol.tab[d][i].first
                  \/ f = d /\ vol.tab[f][j].name = vol.tab[d][i].name
                           /\ vol.tab[f][j].ext = vol.tab[d][i].ext
               => f = d /\ j = i

(* A directory's table begins with its entry and with that of its parent;  *)
(* a file's cluster is not marked as a directory's.                        *)
TablesMatch ==
    \A d \in Clusters, i \in Slots : vol.tab[d][i].used =>
        LET x == vol.tab[d][i]
        IN IF x.dir
           THEN x = Folder(x.name, x.first) /\ vol.tab[x.first][0] = x
                    /\ vol.tab[x.first][1] = vol.tab[d][0]
           ELSE ~vol.tab[x.first][0].dir

(* What is marked as a directory has an entry, and is not free. *)
FoldersHaveEntry ==
    \A c \in Clusters \ {Root} : vol.tab[c][0].dir =>
        c \notin vol.free /\ \E d \in Clusters, i \in Slots :
            vol.tab[d][i] = vol.tab[c][0] /\ vol.tab[d][i].used /\ vol.tab[d][i].first = c

VolumeInv == EntriesOwn /\ TablesMatch /\ FoldersHaveEntry

-----------------------------------------------------------------------------
(* The prompt and find *)

(* From walk.cur the names of the path lead, one by one, back to c. *)
TrailFrom(c) ==
    /\ IsFolder(walk.cur, walk.name)
    /\ \E way \in [0 .. Len(walk.path) -> Clusters] :
        /\ way[0] = c /\ way[Len(walk.path)] = walk.cur
        /\ \A k \in 1 .. Len(walk.path) :
               walk.path[k] # NoName /\ Opened({way[k]}, walk.path[k]) = {way[k - 1]}

WalkInv ==
    /\ pc = "prompt" => walk.path = <<>>
    /\ pc = "climb" => TrailFrom(cwd)
    /\ pc = "climb_find" => TrailFrom(hunt.at)
    /\ pc = "line" => Place(walk.path) = {cwd}

Hunting == pc \in {"dfs", "scan", "answer"}

(* The entry that find looks for. *)
Wanted(x) == x.used /\ x.name = hunt.name /\ (x.dir \/ x.ext = hunt.ext)

(* The directory of a call of dfs: its table is that directory's. *)
Dir(k) == stack[k].table[0].first

(* The entry x of level k leads to the directory that is entered next. *)
Entering(k, x) == pc = "dfs" /\ k = Len(stack) /\ x.dir /\ x.first = hunt.at

(* Nothing is found yet: what is wanted is neither in the directories that *)
(* are done with nor in the slots that a level has passed.                 *)
SearchedBut ==
    \E done \in SUBSET Clusters :
        /\ \A d \in done, i \in Slots :
               LET x == vol.tab[d][i] IN x.used => ~Wanted(x) /\ (x.dir => x.first \in done)
        /\ \A k \in 1 .. Len(stack) : \A i \in 2 .. stack[k].next - 1 :
               LET x == stack[k].table[i]
               IN x.used => \/ Entering(k, x)
                            \/ /\ ~Wanted(x)
                               /\ x.dir => \/ x.first \in done
                                           \/ k < Len(stack) /\ x.first = Dir(k + 1)
        /\ IF stack # <<>> THEN Dir(1) = Root
           ELSE IF pc = "dfs" THEN hunt.at = Root ELSE Root \in done

HuntInv ==
    /\ pc \notin {"dfs", "scan"} => stack = <<>>
    /\ pc \in {"dfs", "scan"} => hunt.kind # "file"
    /\ Hunting =>
        /\ hunt.code = 0 /\ hunt.name \in Names
        /\ hunt.at \in InTree /\ IsFolder(hunt.at, hunt.atName)
        /\ \A k \in 1 .. Len(stack) :
               Dir(k) \in InTree /\ vol.tab[Dir(k)][0].dir /\ stack[k].table = vol.tab[Dir(k)]
        /\ ~hunt.check => SearchedBut
    /\ FileIsThere

(* While no command makes a second link. *)
ShellInv == pc # "moving" /\ VolumeInv /\ IsFolder(cwd, cwdName) /\ WalkInv /\ HuntInv
=============================================================================
