--------------------------------- MODULE Shell ---------------------------------
(***************************************************************************)
(* The user program (user-shell.c) and its commands (helper/), over the    *)
(* volume the system calls change.  The shell waits for a line, runs one   *)
(* command, and prints its prompt, which is the path of the directory it   *)
(* stands in.  Every system call is a step of its own; so is every turn of *)
(* the loops that walk over the directories.                               *)
(***************************************************************************)
EXTENDS Volume, Sequences, SequencesExt

CONSTANTS
    ShellName,  \* the name of the shell's own file
    Program,    \* the name of the file the kernel writes at boot; it has an extension
    Typed,      \* the names the user types
    Commands,   \* the commands the user gives
    Sought,     \* <<n, e>>: names given to find, without and with an extension
    Garbage,    \* what an uninitialised cluster number can hold
    PathMax     \* components that path[256] has room for

ASSUME ShellAssumption ==
    /\ {ShellName, Program} \cup Typed \subseteq Names
    /\ Sought \subseteq Names \X BOOLEAN
    /\ Garbage \subseteq Clusters /\ PathMax \in Nat

VARIABLES
    vol,      \* the volume
    cwd,      \* current_working_directory_stat
    cwdName,  \* current_working_directory_name_stat
    pc,       \* where the shell is
    walk,     \* locals of cwd and cwd_find
    hunt,     \* what find looks for, and what dfs has found
    stack,    \* the calls of dfs: the table each has read and where it is in it
    victim    \* the name mv is about to remove

vars == <<vol, cwd, cwdName, pc, walk, hunt, stack, victim>>

NoWalk == [cur |-> Root, name |-> NoName, table |-> ZeroTable, path |-> <<>>]
NoHunt == [name |-> NoName, ext |-> FALSE, check |-> FALSE, kind |-> "none",
           at |-> Root, atName |-> NoName, code |-> 0]

(* To the next prompt: the locals of a command are gone. *)
Finish ==
    /\ pc' = "prompt"
    /\ walk' = NoWalk /\ hunt' = NoHunt /\ stack' = <<>> /\ victim' = NoName

(* An interrupt handler that halts, or a user program that runs wild. *)
Stop(how) ==
    /\ pc' = how
    /\ walk' = NoWalk /\ hunt' = NoHunt /\ stack' = <<>> /\ victim' = NoName

(* The user's disk: the shell's file, and the file of the first boot. *)
Init ==
    /\ vol = [tab |-> [c \in Clusters |->
                  IF c = Root
                  THEN [ZeroTable EXCEPT ![0] = Folder(RootName, Root), ![1] = Folder(RootName, Root),
                                         ![2] = File(ShellName, FALSE, 3),
                                         ![3] = File(Program, TRUE, 4)]
                  ELSE IF c \in {0, 3, 4} THEN Bytes ELSE ZeroTable],
              free |-> 5 .. LastCluster]
    /\ cwd = Root /\ cwdName = RootName
    /\ pc = "prompt"
    /\ walk = NoWalk /\ hunt = NoHunt /\ stack = <<>> /\ victim = NoName

-----------------------------------------------------------------------------
(* cwd: climb from the directory to the root and note the names *)

(* reverse_path: the tokens between slashes, in reverse. *)
ReversePath(path) ==
    LET rev[k \in 0 .. Len(path)] ==
            IF k = 0 THEN <<>>
            ELSE IF path[k] = NoName THEN rev[k - 1] ELSE <<path[k]>> \o rev[k - 1]
    IN rev[Len(path)]

(* In the root the path is "~" and nothing is read. *)
Prompt ==
    /\ pc = "prompt"
    /\ IF cwd = Root THEN pc' = "line" /\ UNCHANGED walk
       ELSE /\ walk' = [cur |-> cwd, name |-> cwdName, table |-> ZeroTable, path |-> <<>>]
            /\ pc' = "climb"
    /\ UNCHANGED <<vol, cwd, cwdName, hunt, stack, victim>>


(* One turn: the return code is not looked at, and dir_table keeps what a  *)
(* failed call leaves in it.                                               *)
Climbed(w) ==
    LET r == ReadDirectory(vol, w.cur, w.name)
        t == IF r.rc = 0 THEN r.table ELSE w.table
    IN [cur |-> t[1].first, name |-> t[1].name, table |-> t, path |-> Append(w.path, w.name)]

ClimbCwd ==
    /\ pc = "climb" /\ walk.cur # Root
    /\ IF Len(walk.path) < PathMax
       THEN walk' = Climbed(walk) /\ UNCHANGED <<vol, cwd, cwdName, pc, hunt, stack, victim>>
       ELSE Stop("crashed") /\ UNCHANGED <<vol, cwd, cwdName>>

(* The prompt is complete: syscall 4 waits for a line. *)
ShowCwd ==
    /\ pc = "climb" /\ walk.cur = Root
    /\ walk' = [NoWalk EXCEPT !.path = ReversePath(walk.path)]
    /\ pc' = "line"
    /\ UNCHANGED <<vol, cwd, cwdName, hunt, stack, victim>>

-----------------------------------------------------------------------------
(* cd *)

Here == ReadDirectory(vol, cwd, cwdName)

GoTo(e) == cwd' = e.first /\ cwdName' = e.name

(* Bug: the name of the directory left behind is kept. *)
CdParentNumberOnly ==
    /\ IF Here.rc = 0 THEN cwd' = Here.table[1].first ELSE UNCHANGED cwd
    /\ UNCHANGED <<cwdName, vol>>
    /\ Finish

CdParent ==
    /\ IF Here.rc = 0 THEN GoTo(Here.table[1]) ELSE UNCHANGED <<cwd, cwdName>>
    /\ UNCHANGED vol
    /\ Finish

(* All of the table is searched, entries 0 and 1 too. *)
Cd(n) ==
    /\ LET hits == {i \in Index : Here.table[i].name = n}
       IN IF Here.rc = 0 /\ hits # {} /\ Here.table[Min(hits)].dir
          THEN GoTo(Here.table[Min(hits)])
          ELSE UNCHANGED <<cwd, cwdName>>
    /\ UNCHANGED vol
    /\ Finish

-----------------------------------------------------------------------------
(* mkdir, rm, cat; ls only prints *)

Mkdir(n) ==
    /\ HasRoom(vol, cwd, n, FALSE)
    /\ vol' = WriteFolder(vol, cwd, n, cwdName).vol
    /\ UNCHANGED <<cwd, cwdName>>
    /\ Finish

(* Without an extension, a name that begins with that of the shell is      *)
(* refused; the dispatch has refused "..".                                 *)
Rm(n, e) ==
    /\ UNCHANGED <<cwd, cwdName>>
    /\ IF ~e /\ StartsWith(n, ShellName)
       THEN UNCHANGED vol /\ Finish
       ELSE LET r == Delete(vol, cwd, n, e)
            IN vol' = r.vol /\ IF r.rc = Fault THEN Stop("halted") ELSE Finish

Ls ==
    /\ UNCHANGED <<vol, cwd, cwdName>>
    /\ Finish

(* Only a name with an extension gets as far as read_file. *)
Cat(n, e) ==
    /\ UNCHANGED <<vol, cwd, cwdName>>
    /\ IF e /\ ~StartsWith(n, ShellName) /\ ReadFile(vol, cwd, n, e) = Fault
       THEN Stop("halted") ELSE Finish

-----------------------------------------------------------------------------
(* find: a depth-first search from the root *)

Find(n, e) ==
    /\ hunt' = [NoHunt EXCEPT !.name = n, !.ext = e, !.atName = RootName]
    /\ pc' = "dfs"
    /\ UNCHANGED <<vol, cwd, cwdName, walk, stack, victim>>

Top == stack[Len(stack)]

(* A call of dfs is back in its caller, which goes on with its loop, unless *)
(* the search has found something or failed: then all of them return.      *)
Leave(h) ==
    LET last == Len(stack) <= 1 \/ h.check \/ h.code = 1
    IN /\ hunt' = h
       /\ stack' = IF last THEN <<>> ELSE Front(stack)
       /\ pc' = IF last THEN "answer" ELSE "scan"

(* Entering dfs: the directory's name is compared before it is read. *)
DfsEnter ==
    /\ pc = "dfs"
    /\ LET same == StartsWith(hunt.name, hunt.atName)
           seen == [hunt EXCEPT !.check = @ \/ same, !.kind = IF same THEN "dir" ELSE @]
           r == ReadDirectory(vol, hunt.at, hunt.atName)
       IN \/ r.rc # 0 /\ Leave([seen EXCEPT !.code = 1])
          \/ /\ r.rc = 0
             /\ hunt' = seen /\ pc' = "scan"
             /\ stack' = Append(stack, [table |-> r.table, next |-> 2])
    /\ UNCHANGED <<vol, cwd, cwdName, walk, victim>>

(* What dfs makes of a file: the directory it is in is where it was found. *)
FileMatches(x) == StartsWith(x.name, hunt.name) /\ x.ext = hunt.ext

(* Bug: the place of a file is not noted. *)
InTableOfCaller(t) == [hunt EXCEPT !.check = TRUE, !.kind = "file"]

InTable(t) == [hunt EXCEPT !.check = TRUE, !.kind = "file", !.at = t[0].first,
                           !.atName = t[0].name]

(* Bug: the loop ends at an empty entry. *)
RestToGap(f) == {i \in f.next .. TableSize - 1 :
                     \A j \in f.next .. i : f.table[j].name # NoName}

(* The entries that the loop still has to look at. *)
Rest(f) == {i \in f.next .. TableSize - 1 : f.table[i].name # NoName}

(* Bug: the loop's counter is increased twice. *)
PassedTwo(f) == [f EXCEPT !.next = Min(Rest(f)) + 2]

Passed(f) == [f EXCEPT !.next = Min(Rest(f)) + 1]

(* One entry: a directory is entered, a file is compared. *)
DfsScan ==
    /\ pc = "scan" /\ Rest(Top) # {}
    /\ LET x == Top.table[Min(Rest(Top))]
           on == [stack EXCEPT ![Len(stack)] = Passed(Top)]
       IN \/ /\ x.dir
             /\ hunt' = [hunt EXCEPT !.at = x.first, !.atName = x.name]
             /\ pc' = "dfs" /\ stack' = on
          \/ ~x.dir /\ FileMatches(x) /\ Leave(InTable(Top.table))
          \/ /\ ~x.dir /\ ~FileMatches(x)
             /\ IF hunt.check /\ StartsWith(x.name, hunt.name) THEN Leave(hunt)
                ELSE stack' = on /\ UNCHANGED <<hunt, pc>>
    /\ UNCHANGED <<vol, cwd, cwdName, walk, victim>>

DfsScanned ==
    /\ pc = "scan" /\ Rest(Top) = {}
    /\ Leave(hunt)
    /\ UNCHANGED <<vol, cwd, cwdName, walk, victim>>

(* find prints that it failed, or the path of the place; the root's is known. *)
Answer ==
    /\ pc = "answer"
    /\ UNCHANGED <<vol, cwd, cwdName>>
    /\ IF hunt.code = 1 \/ ~hunt.check \/ hunt.at = Root THEN Finish
       ELSE /\ walk' = [cur |-> hunt.at, name |-> hunt.atName, table |-> ZeroTable, path |-> <<>>]
            /\ pc' = "climb_find"
            /\ UNCHANGED <<hunt, stack, victim>>

(* cwd_find: the loop of cwd, from the place that was found. *)
ClimbFind ==
    /\ pc = "climb_find" /\ walk.cur # Root
    /\ UNCHANGED <<vol, cwd, cwdName>>
    /\ IF Len(walk.path) < PathMax
       THEN walk' = Climbed(walk) /\ UNCHANGED <<pc, hunt, stack, victim>>
       ELSE Stop("crashed")

ShowFind ==
    /\ pc = "climb_find" /\ walk.cur = Root
    /\ UNCHANGED <<vol, cwd, cwdName>>
    /\ Finish

-----------------------------------------------------------------------------
(* cp and mv of a directory n into a directory m, both in the current one *)

Named(t, n) == {i \in Slots : t[i].name = n}

(* The cluster under the source's name, or what the stack held. *)
Source(t, n) == IF Named(t, n) = {} THEN Garbage ELSE {t[Min(Named(t, n))].first}

(* Neither name exists, or the current directory cannot be read. *)
NoTarget(m) == Here.rc # 0 \/ Named(Here.table, m) = {}
Target(m) == Here.table[Min(Named(Here.table, m))].first

Cp(n, m) ==
    /\ UNCHANGED <<cwd, cwdName>>
    /\ IF NoTarget(m) THEN UNCHANGED vol
       ELSE \E c \in Source(Here.table, n) : vol' = Update(vol, Target(m), n, c).vol
    /\ Finish

(* mv: the same link, then the source is removed whatever came of it. *)
Mv(n, m) ==
    /\ UNCHANGED <<cwd, cwdName>>
    /\ IF NoTarget(m) THEN UNCHANGED vol /\ Finish
       ELSE /\ \E c \in Source(Here.table, n) : vol' = Update(vol, Target(m), n, c).vol
            /\ pc' = "moving" /\ victim' = n
            /\ UNCHANGED <<walk, hunt, stack>>

MvRemove ==
    /\ pc = "moving"
    /\ UNCHANGED <<cwd, cwdName>>
    /\ LET r == Delete2(vol, cwd, victim)
       IN vol' = r.vol /\ IF r.rc = Fault THEN Stop("halted") ELSE Finish

-----------------------------------------------------------------------------
(* The dispatch on the first word of a line, and on the number of words.   *)
(* find does not look at the current directory: it is given in the root.   *)
Line ==
    /\ pc = "line"
    /\ \/ "cd" \in Commands /\ (CdParent \/ \E n \in Typed : Cd(n))
       \/ "mkdir" \in Commands /\ \E n \in Typed : Mkdir(n)
       \/ "ls" \in Commands /\ Ls
       \/ \E n \in Typed, e \in BOOLEAN :
             \/ "rm" \in Commands /\ Rm(n, e)
             \/ "cat" \in Commands /\ Cat(n, e)
             \/ <<n, e>> \in Sought /\ cwd = Root /\ Find(n, e)
       \/ \E n, m \in Typed :
             \/ "cp" \in Commands /\ Cp(n, m)
             \/ "mv" \in Commands /\ Mv(n, m)

Continue ==
    \/ Prompt \/ ClimbCwd \/ ShowCwd
    \/ DfsEnter \/ DfsScan \/ DfsScanned \/ Answer \/ ClimbFind \/ ShowFind
    \/ MvRemove

(* A power cut at any moment, and kernel_setup: the FAT is read again, the *)
(* shell's file is loaded and the kernel's own file is written if it can   *)
(* be.  A file that is not there is looked for past the table.             *)
Boot ==
    LET rc == Read(vol, Root, ShellName, FALSE)
    IN /\ HasRoom(vol, Root, Program, TRUE)
       /\ IF rc = Fault THEN UNCHANGED vol ELSE vol' = WriteFile(vol, Root, Program, TRUE).vol
       /\ IF rc = 0 THEN Finish ELSE Stop("no_shell")
       /\ cwd' = Root /\ cwdName' = RootName

Next == Line \/ Continue \/ Boot

Spec == Init /\ [][Next]_vars

(* The user program is the only one; the processor runs it. *)
Fairness == WF_vars(Continue)
LiveSpec == Spec /\ Fairness

-----------------------------------------------------------------------------
(* Properties *)

Pcs == {"prompt", "climb", "line", "dfs", "scan", "answer", "climb_find", "moving",
        "halted", "crashed", "no_shell"}

(* Every variable holds a value of its C type. *)
TypeOK ==
    /\ vol \in VolumeType
    /\ cwd \in Clusters /\ cwdName \in Names \cup {RootName, NoName, Junk}
    /\ pc \in Pcs
    /\ walk.cur \in Clusters /\ walk.table \in Table /\ Len(walk.path) <= PathMax
    /\ hunt.at \in Clusters /\ hunt.check \in BOOLEAN /\ hunt.kind \in {"none", "dir", "file"}
    /\ \A k \in 1 .. Len(stack) : stack[k].table \in Table /\ stack[k].next \in 2 .. TableSize
    /\ victim \in Typed \cup {NoName}

(* The directories that a name n opens from those in D. *)
Opened(D, n) ==
    {c \in Clusters : \E d \in D, i \in Slots :
        LET x == vol.tab[d][i] IN x.used /\ x.dir /\ x.name = n /\ x.first = c}

Place(path) ==
    LET at[k \in 0 .. Len(path)] == IF k = 0 THEN {Root} ELSE Opened(at[k - 1], path[k])
    IN at[Len(path)]

(* The path that the prompt shows leads from the root to the directory the *)
(* shell stands in, and to no other; the same for the path find shows.     *)
PathLeadsBack ==
    /\ pc = "line" => Place(walk.path) = {cwd}
    /\ pc = "climb_find" /\ walk.cur = Root => Place(ReversePath(walk.path)) = {hunt.at}

(* D has the root, and each directory that an entry of D leads to. *)
IsTree(D) ==
    /\ Root \in D
    /\ \A d \in D, i \in Slots : LET x == vol.tab[d][i] IN x.used /\ x.dir => x.first \in D

(* The tables that the tree reaches from the root. *)
InTree ==
    LET trees == {D \in SUBSET Clusters : IsTree(D)}
    IN {c \in Clusters : \A D \in trees : c \in D}

(* When find says that there is no such file or directory, no entry of the *)
(* tree has that name.                                                     *)
FindFindsAll ==
    pc = "answer" /\ ~hunt.check =>
        \A d \in InTree, i \in Slots :
            LET x == vol.tab[d][i]
            IN x.used => ~(x.name = hunt.name /\ (x.dir \/ x.ext = hunt.ext))

(* find can read every directory it comes to, and a file it finds is in    *)
(* the directory whose path it shows, whatever the search went through     *)
(* before and after it.                                                    *)
FileIsThere ==
    pc = "answer" =>
        /\ hunt.code = 0
        /\ hunt.kind = "file" =>
               /\ hunt.at \in InTree
               /\ \E i \in Slots : LET x == vol.tab[hunt.at][i]
                                   IN x.used /\ ~x.dir /\ FileMatches(x)


(* No command, nor a boot, frees the directory that the shell stands in;   *)
(* also when cp and mv have made several entries for one directory, or     *)
(* directories that contain themselves.                                    *)
StandingKept == [][cwd' = cwd /\ cwd \notin vol.free => cwd \notin vol'.free]_vars

(* The entry of a directory that has entries stays. *)
FullFolderStays ==
    \A d \in Clusters, i \in Slots :
        LET x == vol.tab[d][i]
        IN x.used /\ x.dir /\ vol.tab[d][0].dir /\ InUse(vol.tab[x.first]) => vol'.tab[d][i] = x

(* A directory that has entries is never removed, nor its entry.           *)
FullFoldersKept == [][FullFolderStays]_vars

(* Not by rm, by mv or by a mv whose copy failed, either, where cp and mv  *)
(* have made second links and links to a file's cluster.                   *)
CommandsKeepFull == [][Line \/ Continue => FullFolderStays]_vars

(* rm's message: the shell must not be deleted. *)
ShellKept == \E i \in Slots : vol.tab[Root][i] = File(ShellName, FALSE, 3)
=============================================================================
