---------------------------- MODULE ConsoleInvariant ----------------------------
(***************************************************************************)
(* The inductive invariants of Console: what the screen shows of a line,   *)
(* what the steps of system call 4 rely on, and how far strparse has come  *)
(* in the line.                                                            *)
(***************************************************************************)
EXTENDS Console

-----------------------------------------------------------------------------
(* The echo *)

(* The longest line that fits its buffer also fits the screen above the    *)
(* last row: 255 characters, and 24 rows of 80.                            *)
LineFits == BufferSize - 1 <= (Rows - 1) * Columns

(* Every character of the line is still on the screen, at its distance     *)
(* from the cursor.                                                        *)
EchoInv ==
    InCall /\ ~long =>
        /\ index <= At(row, col)
        /\ \A k \in 1 .. index : screen[At(row, col) - k] = keys[index - k]

-----------------------------------------------------------------------------
(* System call 4 *)

(* The keyboard listens in the call only; the buffer holds the line and    *)
(* then NULs, until a character filled it; there are words only while they *)
(* are used.                                                               *)
CallInv ==
    /\ on => pc \in {"activated", "spin"}
    /\ pc = "activated" => on /\ ~flag
    /\ InCall /\ ~long => \A i \in Bytes : keys[i] = Nul <=> i >= index
    /\ Entered \/ pc \in {"copy", "parse", "run"} => \E i \in Bytes : keys[i] = Nul
    /\ pc = "copy" => length = Min({i \in Bytes : keys[i] = Nul})
    /\ pc \notin {"parse", "run"} => args = 0
    /\ pc = "run" => args > 0

-----------------------------------------------------------------------------
(* strparse *)

TypedLine == String(keys, BufferSize - 1)

(* How many words of s begin before a place. *)
WordsBefore(s, i) == Cardinality({j \in Line!Starts(s) : j < i})

(* The k-th word of s is in the places from .. to. *)
IsWord(s, k, from, to) ==
    /\ 1 <= from /\ from <= to /\ to <= Len(s)
    /\ from \in Line!Starts(s) /\ WordsBefore(s, from) = k - 1
    /\ \A i \in from .. to : s[i] # Space
    /\ to = Len(s) \/ s[to + 1] = Space

(* w is what memcpy takes from the buffer that holds s, where a word is and *)
(* has been cut off: up to the end of the kernel's buffer, s and NULs.     *)
IsCopy(w, s, from, to) ==
    \A j \in 0 .. WordMax :
        /\ j = WordMax \/ from + j = to + 1 => w[j] = Nul
        /\ from + j > Len(s) /\ from + j <= BufferSize => w[j] = Nul
        /\ j < WordMax /\ from + j # to + 1 /\ from + j <= Len(s) => w[j] = s[from + j]

(* strtok goes on behind a space, where nothing is cut yet; the words that *)
(* begin before it have been copied.                                       *)
Ahead(s) ==
    IF lasts = None THEN Cardinality(Line!Starts(s)) = args
    ELSE /\ lasts <= Len(s) /\ (lasts = 0 \/ s[lasts] = Space)
         /\ WordsBefore(s, lasts + 1) = args
         /\ \A i \in Bytes : i >= lasts => buf[i] = IF i < Len(s) THEN s[i + 1] ELSE Nul

(* The words copied so far are the first of s, each with its end cut. *)
Copied(s) ==
    \A k \in 1 .. args : \E from, to \in 1 .. Len(s) :
        IsWord(s, k, from, to) /\ IsCopy(command[k], s, from, to)

(* While strparse cuts the line, what it has copied is the line's first    *)
(* words in their order, and what is left to cut is as it was typed; in    *)
(* the end no word is missing but those above WordsMax.                    *)
WordsInv ==
    LET all == Cardinality(Line!Starts(TypedLine))
    IN /\ pc = "parse" => Ahead(TypedLine)
       /\ pc = "run" => args = IF all < WordsMax THEN all ELSE WordsMax
       /\ pc \in {"parse", "run"} => Copied(TypedLine)
=============================================================================
