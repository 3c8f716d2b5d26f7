-------------------------------- MODULE Console --------------------------------
(***************************************************************************)
(* The keyboard interrupt, the text screen, the system calls that read and *)
(* print (4, 6, 8 and 11), and the loop of the user program that calls     *)
(* them and cuts its line into words.                                      *)
(*                                                                         *)
(* A system call begins with interrupts off.  Call 4 turns them on and     *)
(* waits: from there on the keyboard interrupt may run between any two     *)
(* steps of it, and between any two steps of the user program.             *)
(***************************************************************************)
EXTENDS Integers, Sequences, FiniteSets, FiniteSetsExt, TLC

CONSTANTS
    Letters,      \* characters that are not special
    Space,        \* ' '; also an empty cell of the screen
    Nul, Newline, Backspace, Tab,
    NoKey,        \* the controller holds no scancode
    OtherKey,     \* a scancode without a character: a release, Shift, ...
    Digit,        \* what the clock shows
    BufferSize,   \* bytes of the keyboard buffer; its index wraps there too
    UserSize,     \* bytes of the user program's buffer, and of what call 4 copies
    Stack,        \* characters that the kernel's stack may hold behind its buffer
    Columns, Rows,
    ClockWidth,   \* cells that the clock writes
    WordsMax,     \* words that strparse makes
    WordMax,      \* bytes that strparse copies of a word
    NameMax       \* bytes of a name in a request

Typed == Letters \cup {Space}
Chars == Typed \cup {Nul, Newline, Backspace, Tab}
Keys == Typed \cup {Newline, Backspace, Tab, OtherKey}

ASSUME ConsoleAssumption ==
    /\ BufferSize \in Nat \ {0} /\ Columns \in Nat \ {0} /\ Rows \in Nat \ {0}
    /\ UserSize \in Nat /\ BufferSize <= UserSize /\ BufferSize + WordMax <= UserSize + 1
    /\ Stack \subseteq Chars
    /\ ClockWidth \in Nat /\ WordsMax \in Nat /\ WordMax \in Nat /\ NameMax \in Nat
    /\ Space \notin Letters \cup {Digit}
    /\ {Nul, Newline, Backspace, Tab} \cap Typed = {}
    /\ Cardinality({Nul, Newline, Backspace, Tab, NoKey, OtherKey}) = 6
    /\ {NoKey, OtherKey} \cap Chars = {}

Bytes == 0 .. BufferSize - 1
UserBytes == 0 .. UserSize - 1
Cells == 0 .. Rows * Columns - 1

VARIABLES
    on, index, keys,  \* keyboard_input_on, index and keyboard_buffer
    row, col, screen, \* the cursor, and the characters on the screen
    irq,              \* the scancode that waits in the controller
    flag,             \* interrupts are on
    pc,               \* where the user program, or its system call, is
    length,           \* strlen of the buffer, in get_keyboard_buffer
    buf,              \* buf of the user program
    lasts,            \* lasts of strtok
    command, args,    \* the words that strparse made, and their number
    long              \* since the call began, a character filled the buffer

kbd == <<on, index, keys>>
text == <<row, col, screen>>
user == <<buf, lasts, command, args>>
vars == <<on, index, keys, row, col, screen, irq, flag, pc, length, buf, lasts, command, args,
          long>>

None == -1    \* NULL
Empty == [i \in Bytes |-> Nul]
NoLine == [i \in UserBytes |-> Nul]
NoWord == [j \in 0 .. WordMax |-> Nul]
NoWords == [i \in 1 .. WordsMax |-> NoWord]

Init ==
    /\ on = FALSE /\ index = 0 /\ keys = Empty
    /\ row = 0 /\ col = 0 /\ screen = [c \in Cells |-> Space]
    /\ irq = NoKey /\ flag = TRUE /\ pc = "prompt" /\ length = 0
    /\ buf = NoLine /\ lasts = None /\ command = NoWords /\ args = 0 /\ long = FALSE

-----------------------------------------------------------------------------
(* The screen: t is a record of row, col and screen *)

Here == [row |-> row, col |-> col, screen |-> screen]
At(r, c) == r * Columns + c

(* Line 0 is lost, the last one is empty. *)
Scrolled(s) ==
    [c \in Cells |-> IF c < (Rows - 1) * Columns THEN s[c + Columns] ELSE Space]

(* Bug: after scrolling the cursor is not put back into the last row. *)
PutCharBelow(t, c) ==
    LET s == IF c = Newline THEN t.screen ELSE [t.screen EXCEPT ![At(t.row, t.col)] = c]
    IN IF t.col # Columns - 1 /\ c # Newline
       THEN [row |-> t.row, col |-> t.col + 1, screen |-> s]
       ELSE IF t.row + 1 < Rows THEN [row |-> t.row + 1, col |-> 0, screen |-> s]
       ELSE [row |-> Rows, col |-> 0, screen |-> Scrolled(s)]

PutChar(t, c) ==
    LET s == IF c = Newline THEN t.screen ELSE [t.screen EXCEPT ![At(t.row, t.col)] = c]
    IN IF t.col # Columns - 1 /\ c # Newline
       THEN [row |-> t.row, col |-> t.col + 1, screen |-> s]
       ELSE IF t.row + 1 < Rows THEN [row |-> t.row + 1, col |-> 0, screen |-> s]
       ELSE [row |-> Rows - 1, col |-> 0, screen |-> Scrolled(s)]

(* Bug: in column 0 the cursor stays in its row. *)
EraseInRow(t) ==
    LET c == IF t.col = 0 THEN 0 ELSE t.col - 1
    IN [row |-> t.row, col |-> c, screen |-> [t.screen EXCEPT ![At(t.row, c)] = Space]]

(* Back by one cell, over the edge of the row; not out of the screen. *)
Erase(t) ==
    LET r == IF t.col = 0 /\ t.row > 0 THEN t.row - 1 ELSE t.row
        c == IF t.col > 0 THEN t.col - 1 ELSE IF t.row > 0 THEN Columns - 1 ELSE 0
    IN [row |-> r, col |-> c, screen |-> [t.screen EXCEPT ![At(r, c)] = Space]]

Show(t) == row' = t.row /\ col' = t.col /\ screen' = t.screen

-----------------------------------------------------------------------------
(* The keyboard *)

(* The user presses a key while the controller is free. *)
Press(k) ==
    /\ irq = NoKey
    /\ irq' = k
    /\ UNCHANGED <<kbd, text, flag, pc, length, user, long>>

(* keyboard_scancode_1_to_ascii_map: 0 for the keys without a character. *)
Ascii(k) == IF k = OtherKey THEN Nul ELSE k

Ignored == UNCHANGED <<on, keys, text, long>>

(* Bug: a character is kept although nobody listens. *)
IgnoreNotListening(c) ==
    /\ c \in Typed /\ index' = (index + 1) % BufferSize /\ keys' = [keys EXCEPT ![index] = c]
    /\ UNCHANGED <<on, text, long>>

NotListening(c) == index' = 0 /\ Ignored

NoCharacter(c) == c \in {Nul, Tab} /\ UNCHANGED index /\ Ignored

(* At the beginning of the line there is nothing to erase. *)
EraseChar(c) ==
    /\ c = Backspace
    /\ IF index = 0 THEN UNCHANGED <<index, keys, text>>
       ELSE /\ index' = index - 1
            /\ keys' = [keys EXCEPT ![index - 1] = Nul]
            /\ Show(Erase(Here))
    /\ UNCHANGED <<on, long>>

EndLine(c) ==
    /\ c = Newline
    /\ index' = 0 /\ on' = FALSE
    /\ Show(PutChar(Here, Newline))
    /\ UNCHANGED <<keys, long>>

(* The index is 8 bits wide, as the buffer is long. *)
AddChar(c) ==
    /\ c \in Typed
    /\ keys' = [keys EXCEPT ![index] = c]
    /\ index' = (index + 1) % BufferSize
    /\ long' = (long \/ index = BufferSize - 1)
    /\ Show(PutChar(Here, c))
    /\ UNCHANGED on

Listening(c) == NoCharacter(c) \/ EraseChar(c) \/ EndLine(c) \/ AddChar(c)

(* keyboard_isr; the next scancode can come once this one is read. *)
KeyboardIsr ==
    /\ flag /\ irq # NoKey
    /\ irq' = NoKey
    /\ IF on THEN Listening(Ascii(irq)) ELSE NotListening(Ascii(irq))
    /\ UNCHANGED <<flag, pc, length, user>>

-----------------------------------------------------------------------------
(* System call 4, which reads a line *)

(* Interrupts are off until sti. *)
Activate ==
    /\ pc = "ask"
    /\ keys' = Empty /\ index' = 0 /\ on' = TRUE
    /\ flag' = FALSE /\ pc' = "activated" /\ long' = FALSE
    /\ UNCHANGED <<text, irq, length, user>>

(* Bug: the call waits with interrupts off. *)
NoSti ==
    /\ pc = "activated" /\ pc' = "spin"
    /\ UNCHANGED <<kbd, text, irq, flag, length, user, long>>

Sti ==
    /\ pc = "activated" /\ flag' = TRUE /\ pc' = "spin"
    /\ UNCHANGED <<kbd, text, irq, length, user, long>>

Awake ==
    /\ pc = "spin" /\ ~on /\ pc' = "measure"
    /\ UNCHANGED <<kbd, text, irq, flag, length, user, long>>

(* strlen; without a NUL in the buffer it runs past it, and memcpy writes  *)
(* over the kernel's stack.                                                *)
Strlen ==
    /\ pc = "measure"
    /\ IF \E i \in Bytes : keys[i] = Nul
       THEN length' = Min({i \in Bytes : keys[i] = Nul}) /\ pc' = "copy"
       ELSE pc' = "overrun" /\ UNCHANGED length
    /\ UNCHANGED <<kbd, text, irq, flag, user, long>>

(* To buf of the kernel, which is clear and as long as the keyboard's, and *)
(* from there to the user's, which is longer: the rest of what it gets is   *)
(* what lies behind buf on the kernel's stack.                             *)
CopyLine ==
    /\ pc = "copy"
    /\ \E behind \in [UserBytes \ Bytes -> Stack] :
           buf' = [i \in UserBytes |-> IF i < length THEN keys[i]
                                      ELSE IF i \in Bytes THEN Nul ELSE behind[i]]
    /\ pc' = "parse" /\ length' = 0 /\ lasts' = 0
    /\ UNCHANGED <<kbd, text, irq, flag, command, args, long>>

-----------------------------------------------------------------------------
(* strtok and strparse *)

(* Bug: the token is not cut off. *)
StrTokUncut(s, p) ==
    LET starts == {i \in Bytes : i >= p /\ s[i] # Space}
        tok == Min(starts)
        stop == Min({i \in Bytes : i > tok /\ s[i] \in {Space, Nul}})
    IN IF p = None \/ starts = {} \/ s[tok] = Nul THEN [tok |-> None, s |-> s, lasts |-> None]
       ELSE IF s[stop] = Nul THEN [tok |-> tok, s |-> s, lasts |-> None]
       ELSE [tok |-> tok, s |-> s, lasts |-> stop + 1]

(* Bug: the next call begins at the NUL, not behind it. *)
StrTokAtNul(s, p) ==
    LET starts == {i \in Bytes : i >= p /\ s[i] # Space}
        tok == Min(starts)
        stop == Min({i \in Bytes : i > tok /\ s[i] \in {Space, Nul}})
    IN IF p = None \/ starts = {} \/ s[tok] = Nul THEN [tok |-> None, s |-> s, lasts |-> None]
       ELSE IF s[stop] = Nul THEN [tok |-> tok, s |-> s, lasts |-> None]
       ELSE [tok |-> tok, s |-> [s EXCEPT ![stop] = Nul], lasts |-> stop]

(* One call of strtok on s, at p: the token's first byte, the string cut   *)
(* behind the token, and where the next call begins.  It does not come     *)
(* behind Bytes: there is a NUL before.                                    *)
StrTok(s, p) ==
    LET starts == {i \in Bytes : i >= p /\ s[i] # Space}
        tok == Min(starts)
        stop == Min({i \in Bytes : i > tok /\ s[i] \in {Space, Nul}})
    IN IF p = None \/ starts = {} \/ s[tok] = Nul THEN [tok |-> None, s |-> s, lasts |-> None]
       ELSE IF s[stop] = Nul THEN [tok |-> tok, s |-> s, lasts |-> None]
       ELSE [tok |-> tok, s |-> [s EXCEPT ![stop] = Nul],
             lasts |-> IF stop + 1 \in Bytes THEN stop + 1 ELSE None]

(* memcpy of WordMax bytes at the token, whatever follows it, and a NUL. *)
WordAt(s, tok) == [j \in 0 .. WordMax |-> IF j < WordMax THEN s[tok + j] ELSE Nul]

(* One turn of strparse's loop, with the call of strtok that begins it. *)
NextWord ==
    LET r == StrTok(buf, lasts)
    IN /\ pc = "parse"
       /\ buf' = r.s /\ lasts' = r.lasts
       /\ IF r.tok = None \/ args = WordsMax
          THEN pc' = (IF args = 0 THEN "prompt" ELSE "run") /\ UNCHANGED <<command, args>>
          ELSE /\ args' = args + 1
               /\ command' = [command EXCEPT ![args + 1] = WordAt(r.s, r.tok)]
               /\ UNCHANGED pc
       /\ UNCHANGED <<kbd, text, irq, flag, length, long>>

-----------------------------------------------------------------------------
(* The user program's loop, and system calls 6, 8 and 11 *)

(* "$ ": here one character. *)
Prompt ==
    /\ pc = "prompt" /\ pc' = "ask"
    /\ Show(PutChar(Here, Space))
    /\ UNCHANGED <<kbd, irq, flag, length, user, long>>

(* A command prints a line, and the words are not used again. *)
Forget ==
    /\ command' = NoWords /\ args' = 0 /\ lasts' = None /\ buf' = NoLine
    /\ UNCHANGED <<kbd, irq, length, long>>

Reply ==
    /\ pc = "run" /\ pc' = "prompt"
    /\ Show(PutChar(Here, Newline))
    /\ Forget /\ UNCHANGED flag

ClearScreen ==
    /\ pc = "run" /\ pc' = "prompt"
    /\ row' = 0 /\ col' = 0 /\ screen' = [c \in Cells |-> Space]
    /\ Forget /\ UNCHANGED flag

(* System call 11 does not return, and keeps interrupts off. *)
StartClock ==
    /\ pc = "run" /\ pc' = "clock" /\ flag' = FALSE
    /\ UNCHANGED text
    /\ Forget

ShowClock ==
    /\ pc = "clock"
    /\ screen' = [c \in Cells |-> IF c >= Rows * Columns - ClockWidth THEN Digit ELSE screen[c]]
    /\ UNCHANGED <<kbd, row, col, irq, flag, pc, length, user, long>>

SystemCall4 == Activate \/ Sti \/ Awake \/ Strlen \/ CopyLine
Run == Prompt \/ NextWord \/ Reply \/ ClearScreen \/ StartClock \/ ShowClock

Next == SystemCall4 \/ Run \/ KeyboardIsr \/ \E k \in Keys : Press(k)

Spec == Init /\ [][Next]_vars

(* The processor runs the program, and serves an interrupt when it may. *)
Fairness == WF_vars(SystemCall4 \/ Run) /\ WF_vars(KeyboardIsr)
LiveSpec == Spec /\ Fairness

-----------------------------------------------------------------------------
(* Properties *)

(* Every variable holds a value of its C type, and the cursor is on the    *)
(* screen.                                                                 *)
TypeOK ==
    /\ on \in BOOLEAN /\ index \in Bytes /\ keys \in [Bytes -> Chars]
    /\ row \in 0 .. Rows - 1 /\ col \in 0 .. Columns - 1
    /\ screen \in [Cells -> Typed \cup {Digit}]
    /\ irq \in Keys \cup {NoKey} /\ flag \in BOOLEAN /\ long \in BOOLEAN
    /\ pc \in {"prompt", "ask", "activated", "spin", "measure", "copy", "parse", "run",
               "clock", "overrun"}
    /\ length \in Bytes /\ lasts \in Bytes \cup {None} /\ buf \in [UserBytes -> Chars]
    /\ args \in 0 .. WordsMax /\ command \in [1 .. WordsMax -> [0 .. WordMax -> Chars]]

InCall == pc \in {"activated", "spin"} /\ on

(* The characters before the cursor are those in the buffer: what the user *)
(* sees after the prompt is what the shell will read, over the edges of    *)
(* rows, with characters erased, and after the screen has scrolled.        *)
EchoIsBuffer ==
    InCall /\ ~long =>
        \A k \in 1 .. index : screen[At(row, col) - k] = keys[index - k]

(* A string: the bytes before the first NUL. *)
String(w, last) ==
    LET end == Min({j \in 0 .. last : w[j] = Nul} \cup {last + 1})
    IN [j \in 1 .. end |-> w[j - 1]]

Lost == long /\ (InCall \/ pc \in {"spin", "measure", "copy", "parse", "overrun"})
Entered == ~long /\ (pc \in {"measure", "copy", "parse"} \/ (pc = "spin" /\ ~on))

(* What the terminal is doing, the line that it shows, and the words taken *)
(* of it.                                                                  *)
Phase == IF Lost THEN "lost" ELSE IF InCall THEN "typing" ELSE IF Entered THEN "entered" ELSE "busy"

OnLine ==
    CASE Phase = "typing" -> [i \in 1 .. index |-> keys[i - 1]]
      [] Phase = "entered" -> String(keys, BufferSize - 1)
      [] OTHER -> <<>>

Taken == IF pc = "parse" THEN <<>> ELSE [i \in 1 .. args |-> String(command[i], WordMax)]

(* The driver, the system call and strparse together are a terminal. *)
Line == INSTANCE Terminal WITH
    LineMax <- BufferSize, phase <- Phase, line <- OnLine, words <- Taken
IsTerminal == Line!Spec

(* The bytes of the last word that mkdir and cp copy into a request are    *)
(* the word that the user typed, and NULs, when no more words follow than  *)
(* strparse makes, at most one space follows the word, and the bytes of    *)
(* the name come from the kernel's buffer.  (Of two spaces the second      *)
(* becomes a part of the name; from a word that begins too near to the     *)
(* buffer's end, so do bytes of the kernel's stack.)                       *)
NameIsWord ==
    LET typed == String(keys, BufferSize - 1)
        word == Line!Words(typed)[args]
        n == Len(typed)
    IN pc = "run" /\ Cardinality(Line!Starts(typed)) = args /\ Len(word) <= NameMax
           /\ ~(n > 1 /\ typed[n] = Space /\ typed[n - 1] = Space)
           /\ (\A i \in Line!Starts(typed) : i - 1 + NameMax <= BufferSize)
       => \A j \in 0 .. NameMax - 1 :
              command[args][j] = IF j < Len(word) THEN word[j + 1] ELSE Nul

(* When Enter is pressed in system call 4, the shell comes back to its     *)
(* prompt; unless the user has started the clock, or the line was so long  *)
(* that it broke the kernel's stack.                                       *)
EnterReturns == pc = "spin" /\ irq = Newline ~> pc \in {"prompt", "clock", "overrun"}
=============================================================================
