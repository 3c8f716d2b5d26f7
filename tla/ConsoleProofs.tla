----------------------------- MODULE ConsoleProofs -----------------------------
(***************************************************************************)
(* Theorems about Console, for every buffer, screen and set of letters: in *)
(* any interleaving of the keyboard interrupt with the system call and the *)
(* user program, every variable keeps its type, the cursor stays on the    *)
(* screen, what the screen shows of a line is what the buffer holds, and   *)
(* what strparse makes of it are its words: Console implements Terminal.   *)
(***************************************************************************)
EXTENDS ConsoleInvariant, FiniteSetTheorems, WellFoundedInduction, TLAPS

-----------------------------------------------------------------------------
(* Cells, characters, and the least element of a set *)

LEMMA LeastIs ==
    ASSUME NEW S, S \subseteq Nat, S # {}
    PROVE  Min(S) \in S /\ \A x \in S : Min(S) <= x
<1>1. PICK x \in S : \A y \in S : <<y, x>> \notin OpToRel(<, Nat)
    BY NatLessThanWellFounded, WFMin
<1>2. ASSUME NEW y \in S PROVE x <= y
    <2>1. x \in Nat /\ y \in Nat
        OBVIOUS
    <2>2. ~(y < x)
        BY <1>1, <2>1 DEF OpToRel
    <2> QED
        BY <2>1, <2>2
<1> QED
    BY <1>2 DEF Min

LEMMA Sizes ==
    /\ BufferSize \in Nat /\ BufferSize > 0 /\ Columns \in Nat /\ Columns > 0
    /\ Rows \in Nat /\ Rows > 0 /\ Rows * Columns \in Nat
    /\ (Rows - 1) * Columns = Rows * Columns - Columns /\ (Rows - 1) * Columns \in Nat
    /\ 0 \in Bytes
<1>1. BufferSize \in Nat /\ BufferSize > 0 /\ Columns \in Nat /\ Columns > 0
      /\ Rows \in Nat /\ Rows > 0 /\ Rows - 1 \in Nat
    BY ConsoleAssumption
<1>2. (Rows - 1) * Columns = Rows * Columns - Columns
    BY <1>1, SMT
<1>3. Rows * Columns \in Nat /\ (Rows - 1) * Columns \in Nat
    BY <1>1, SMT
<1> QED
    BY <1>1, <1>2, <1>3 DEF Bytes

LEMMA AtCell ==
    ASSUME NEW r \in 0 .. Rows - 1, NEW c \in 0 .. Columns - 1
    PROVE  /\ At(r, c) \in Cells
           /\ r = Rows - 1 => At(r, c) = (Rows - 1) * Columns + c
           /\ r + 1 < Rows => At(r + 1, 0) = At(r, Columns - 1) + 1
           /\ r > 0 => At(r - 1, Columns - 1) = At(r, 0) - 1
<1>1. r \in Nat /\ c \in Nat /\ r <= Rows - 1 /\ c <= Columns - 1
    BY Sizes
<1>2. r * Columns \in Nat /\ r * Columns <= (Rows - 1) * Columns
    BY <1>1, Sizes, SMT
<1>3. (r + 1) * Columns = r * Columns + Columns /\ (r - 1) * Columns = r * Columns - Columns
    BY <1>1, Sizes, SMT
<1>4. At(r, c) \in Cells
    BY <1>1, <1>2, Sizes DEF At, Cells
<1> QED
    BY <1>1, <1>2, <1>3, <1>4, Sizes DEF At

LEMMA Characters ==
    /\ Space \in Typed /\ Space # Nul /\ Nul \in Chars /\ Typed \subseteq Chars
    /\ Newline \in Chars /\ Newline \notin Typed /\ Nul \notin Typed
    /\ Backspace \notin Typed /\ Tab \notin Typed
    BY ConsoleAssumption DEF Typed, Chars

LEMMA UserSizes ==
    /\ UserSize \in Nat /\ BufferSize <= UserSize /\ Bytes \subseteq UserBytes
    /\ \A i \in Bytes, j \in 0 .. WordMax : j < WordMax => i + j \in UserBytes
    BY ConsoleAssumption DEF Bytes, UserBytes

LEMMA AsciiType ==
    ASSUME NEW k \in Keys
    PROVE  Ascii(k) \in Chars
    BY DEF Ascii, Keys, Chars

-----------------------------------------------------------------------------
(* Types *)

ScreenType == [Cells -> Typed \cup {Digit}]

OnScreen(t) ==
    /\ t.row \in 0 .. Rows - 1 /\ t.col \in 0 .. Columns - 1 /\ t.screen \in ScreenType

LEMMA ScrolledType ==
    ASSUME NEW s \in ScreenType
    PROVE  Scrolled(s) \in ScreenType
<1>1. ASSUME NEW c \in Cells, c < (Rows - 1) * Columns PROVE c + Columns \in Cells
    BY <1>1, Sizes DEF Cells
<1> QED
    BY <1>1, Characters DEF Scrolled, ScreenType

LEMMA PutCharType ==
    ASSUME NEW t, OnScreen(t), NEW c \in Typed \cup {Newline}
    PROVE  OnScreen(PutChar(t, c))
<1> DEFINE s == IF c = Newline THEN t.screen ELSE [t.screen EXCEPT ![At(t.row, t.col)] = c]
<1>1. s \in ScreenType /\ Scrolled(s) \in ScreenType
    BY ScrolledType DEF OnScreen, ScreenType
<1>2. t.row \in 0 .. Rows - 1 /\ t.col \in 0 .. Columns - 1
    BY DEF OnScreen
<1>3. /\ t.col # Columns - 1 => t.col + 1 \in 0 .. Columns - 1
      /\ t.row + 1 < Rows => t.row + 1 \in 0 .. Rows - 1
      /\ 0 \in 0 .. Columns - 1 /\ Rows - 1 \in 0 .. Rows - 1
    BY <1>2, Sizes
<1> HIDE DEF s
<1>4. PutChar(t, c) =
          IF t.col # Columns - 1 /\ c # Newline
          THEN [row |-> t.row, col |-> t.col + 1, screen |-> s]
          ELSE IF t.row + 1 < Rows THEN [row |-> t.row + 1, col |-> 0, screen |-> s]
          ELSE [row |-> Rows - 1, col |-> 0, screen |-> Scrolled(s)]
    BY DEF PutChar, s
<1> QED
    BY <1>1, <1>2, <1>3, <1>4 DEF OnScreen

LEMMA EraseType ==
    ASSUME NEW t, OnScreen(t)
    PROVE  OnScreen(Erase(t))
<1> DEFINE r == IF t.col = 0 /\ t.row > 0 THEN t.row - 1 ELSE t.row
           c == IF t.col > 0 THEN t.col - 1 ELSE IF t.row > 0 THEN Columns - 1 ELSE 0
<1>1. r \in 0 .. Rows - 1 /\ c \in 0 .. Columns - 1
    BY Sizes DEF OnScreen
<1>2. [t.screen EXCEPT ![At(r, c)] = Space] \in ScreenType
    BY Characters DEF OnScreen, ScreenType
<1>3. Erase(t) = [row |-> r, col |-> c, screen |-> [t.screen EXCEPT ![At(r, c)] = Space]]
    BY DEF Erase
<1> HIDE DEF r, c
<1> QED
    BY <1>1, <1>2, <1>3 DEF OnScreen

LEMMA HereType == TypeOK => OnScreen(Here)
    BY DEF TypeOK, OnScreen, Here, ScreenType

LEMMA ShownType ==
    ASSUME NEW t, OnScreen(t), Show(t)
    PROVE  row' \in 0 .. Rows - 1 /\ col' \in 0 .. Columns - 1
           /\ screen' \in [Cells -> Typed \cup {Digit}]
    BY DEF OnScreen, Show, ScreenType

LEMMA StrTokType ==
    ASSUME NEW s \in [UserBytes -> Chars], NEW p \in Bytes \cup {None}
    PROVE  /\ StrTok(s, p).tok \in Bytes \cup {None}
           /\ StrTok(s, p).s \in [UserBytes -> Chars]
           /\ StrTok(s, p).lasts \in Bytes \cup {None}
<1> DEFINE starts == {i \in Bytes : i >= p /\ s[i] # Space}
           tok == Min(starts)
           stop == Min({i \in Bytes : i > tok /\ s[i] \in {Space, Nul}})
<1>1. starts # {} => tok \in Bytes
    <2>1. starts \subseteq Nat
        BY DEF Bytes
    <2> HIDE DEF starts
    <2>2. starts # {} => tok \in starts
        BY <2>1, LeastIs
    <2> QED
        BY <2>2 DEF starts
<1>2. [s EXCEPT ![stop] = Nul] \in [UserBytes -> Chars]
    BY Characters
<1>3. StrTok(s, p) =
          IF p = None \/ starts = {} \/ s[tok] = Nul
          THEN [tok |-> None, s |-> s, lasts |-> None]
          ELSE IF s[stop] = Nul THEN [tok |-> tok, s |-> s, lasts |-> None]
          ELSE [tok |-> tok, s |-> [s EXCEPT ![stop] = Nul],
                lasts |-> IF stop + 1 \in Bytes THEN stop + 1 ELSE None]
    BY DEF StrTok
<1> HIDE DEF starts, tok, stop
<1> QED
    BY <1>1, <1>2, <1>3

LEMMA WordAtType ==
    ASSUME NEW s \in [UserBytes -> Chars], NEW tok \in Bytes
    PROVE  WordAt(s, tok) \in [0 .. WordMax -> Chars]
    BY Characters, UserSizes DEF WordAt

LEMMA NoWordsType == NoWords \in [1 .. WordsMax -> [0 .. WordMax -> Chars]]
    BY Characters DEF NoWords, NoWord

LEMMA EmptyType == Empty \in [Bytes -> Chars]
    BY Characters DEF Empty

LEMMA NoLineType == NoLine \in [UserBytes -> Chars]
    BY Characters DEF NoLine

LEMMA KeyboardType ==
    ASSUME TypeOK, KeyboardIsr
    PROVE  TypeOK'
<1> USE DEF TypeOK
<1> PICK c : c = Ascii(irq)
    OBVIOUS
<1>1. c \in Chars
    BY AsciiType DEF KeyboardIsr
<1>2. /\ irq' = NoKey /\ UNCHANGED <<flag, pc, length, user>>
      /\ IF on THEN Listening(c) ELSE NotListening(c)
    BY DEF KeyboardIsr
<1>3. CASE NotListening(c) \/ NoCharacter(c)
    BY <1>2, <1>3, Sizes DEF NotListening, NoCharacter, Ignored, text, user
<1>4. CASE EraseChar(c)
    <2>1. CASE index = 0
        BY <1>2, <1>4, <2>1 DEF EraseChar, text, user
    <2>2. CASE index # 0
        <3>1. Show(Erase(Here)) /\ keys' = [keys EXCEPT ![index - 1] = Nul] /\ index' = index - 1
              /\ UNCHANGED <<on, long>>
            BY <1>4, <2>2 DEF EraseChar
        <3>2. row' \in 0 .. Rows - 1 /\ col' \in 0 .. Columns - 1
              /\ screen' \in [Cells -> Typed \cup {Digit}]
            BY <3>1, HereType, EraseType, ShownType
        <3>3. index' \in Bytes /\ keys' \in [Bytes -> Chars]
            BY <2>2, <3>1, Characters, Sizes DEF Bytes
        <3> QED
            BY <1>2, <3>1, <3>2, <3>3 DEF user
    <2> QED
        BY <2>1, <2>2
<1>5. CASE EndLine(c)
    <2>1. row' \in 0 .. Rows - 1 /\ col' \in 0 .. Columns - 1
          /\ screen' \in [Cells -> Typed \cup {Digit}]
        BY <1>5, HereType, PutCharType, ShownType DEF EndLine
    <2> QED
        BY <1>2, <1>5, <2>1, Sizes DEF EndLine, user
<1>6. CASE AddChar(c)
    <2>1. row' \in 0 .. Rows - 1 /\ col' \in 0 .. Columns - 1
          /\ screen' \in [Cells -> Typed \cup {Digit}]
        BY <1>6, HereType, PutCharType, ShownType DEF AddChar
    <2>2. index' \in Bytes
        BY <1>6, Sizes DEF AddChar, Bytes
    <2>3. keys' \in [Bytes -> Chars]
        BY <1>1, <1>6 DEF AddChar
    <2> QED
        BY <1>2, <1>6, <2>1, <2>2, <2>3 DEF AddChar, user
<1> QED
    BY <1>2, <1>3, <1>4, <1>5, <1>6 DEF Listening

LEMMA SystemCallType ==
    ASSUME TypeOK, SystemCall4
    PROVE  TypeOK'
<1> USE DEF TypeOK
<1>1. CASE Activate
    BY <1>1, EmptyType, Sizes DEF Activate, text, user
<1>2. CASE Sti \/ Awake
    BY <1>2 DEF Sti, Awake, kbd, text, user
<1>3. CASE Strlen
    <2>1. {i \in Bytes : keys[i] = Nul} \subseteq Nat
        BY DEF Bytes
    <2>2. length' \in Bytes
        <3>1. CASE \E i \in Bytes : keys[i] = Nul
            <4> PICK S : S = {i \in Bytes : keys[i] = Nul}
                OBVIOUS
            <4>1. Min(S) \in S
                BY <2>1, <3>1, LeastIs
            <4>2. length' = Min(S)
                BY <1>3, <3>1 DEF Strlen
            <4> QED
                BY <4>1, <4>2
        <3>2. CASE ~ \E i \in Bytes : keys[i] = Nul
            BY <1>3, <3>2 DEF Strlen
        <3> QED
            BY <3>1, <3>2
    <2> QED
        BY <1>3, <2>2 DEF Strlen, kbd, text, user
<1>4. CASE CopyLine
    <2>1. buf' \in [UserBytes -> Chars]
        <3> PICK behind \in [UserBytes \ Bytes -> Stack] :
                buf' = [i \in UserBytes |-> IF i < length THEN keys[i]
                                           ELSE IF i \in Bytes THEN Nul ELSE behind[i]]
            BY <1>4 DEF CopyLine
        <3>1. ASSUME NEW i \in UserBytes, i < length PROVE i \in Bytes
            BY <3>1, Sizes DEF Bytes, UserBytes
        <3>2. ASSUME NEW i \in UserBytes, i \notin Bytes PROVE behind[i] \in Chars
            BY <3>2, ConsoleAssumption
        <3> QED
            BY <3>1, <3>2, Characters
    <2> QED
        BY <1>4, <2>1, Sizes DEF CopyLine, kbd, text
<1> QED
    BY <1>1, <1>2, <1>3, <1>4 DEF SystemCall4

LEMMA ForgetType ==
    ASSUME TypeOK, Forget
    PROVE  /\ command' \in [1 .. WordsMax -> [0 .. WordMax -> Chars]] /\ args' \in 0 .. WordsMax
           /\ lasts' \in Bytes \cup {None} /\ buf' \in [UserBytes -> Chars]
           /\ UNCHANGED <<on, index, keys, irq, length, long>>
    BY NoWordsType, NoLineType, ConsoleAssumption DEF Forget, kbd

LEMMA RunType ==
    ASSUME TypeOK, Run
    PROVE  TypeOK'
<1> USE DEF TypeOK
<1>1. CASE Prompt
    <2>1. row' \in 0 .. Rows - 1 /\ col' \in 0 .. Columns - 1
          /\ screen' \in [Cells -> Typed \cup {Digit}]
        BY <1>1, HereType, PutCharType, ShownType, Characters DEF Prompt
    <2> QED
        BY <1>1, <2>1 DEF Prompt, kbd, user
<1>2. CASE NextWord
    <2> PICK r : r = StrTok(buf, lasts)
        OBVIOUS
    <2>1. buf' = r.s /\ lasts' = r.lasts
        BY <1>2 DEF NextWord
    <2>2. buf' \in [UserBytes -> Chars] /\ lasts' \in Bytes \cup {None}
          /\ r.s \in [UserBytes -> Chars] /\ r.tok \in Bytes \cup {None}
        BY <2>1, StrTokType
    <2>3. CASE r.tok = None \/ args = WordsMax
        BY <1>2, <2>2, <2>3 DEF NextWord, kbd, text
    <2>4. CASE ~(r.tok = None \/ args = WordsMax)
        <3>1. args' = args + 1 /\ command' = [command EXCEPT ![args + 1] = WordAt(r.s, r.tok)]
              /\ UNCHANGED pc
            BY <1>2, <2>4 DEF NextWord
        <3>2. args' \in 0 .. WordsMax
            BY <2>4, <3>1, ConsoleAssumption
        <3>3. command' \in [1 .. WordsMax -> [0 .. WordMax -> Chars]]
            <4>1. WordAt(r.s, r.tok) \in [0 .. WordMax -> Chars]
                BY <2>2, <2>4, WordAtType
            <4> QED
                BY <3>1, <4>1
        <3> QED
            BY <1>2, <2>2, <3>1, <3>2, <3>3 DEF NextWord, kbd, text
    <2> QED
        BY <2>3, <2>4
<1>3. CASE Reply
    <2>1. row' \in 0 .. Rows - 1 /\ col' \in 0 .. Columns - 1
          /\ screen' \in [Cells -> Typed \cup {Digit}]
        BY <1>3, HereType, PutCharType, ShownType DEF Reply
    <2> QED
        BY <1>3, <2>1, ForgetType DEF Reply
<1>4. CASE ClearScreen
    BY <1>4, ForgetType, Sizes, Characters DEF ClearScreen
<1>5. CASE StartClock
    BY <1>5, ForgetType DEF StartClock, text
<1>6. CASE ShowClock
    BY <1>6 DEF ShowClock, kbd, user
<1> QED
    BY <1>1, <1>2, <1>3, <1>4, <1>5, <1>6 DEF Run

LEMMA ConsoleInitType == Init => TypeOK
<1> SUFFICES ASSUME Init PROVE TypeOK
    OBVIOUS
<1>1. on \in BOOLEAN /\ index \in Bytes /\ keys \in [Bytes -> Chars]
    BY Sizes, EmptyType DEF Init
<1>2. row \in 0 .. Rows - 1 /\ col \in 0 .. Columns - 1
    BY Sizes DEF Init
<1>3. screen \in [Cells -> Typed \cup {Digit}]
    BY Characters DEF Init
<1>4. irq \in Keys \cup {NoKey} /\ flag \in BOOLEAN /\ long \in BOOLEAN /\ pc = "prompt"
    BY DEF Init
<1>5. length \in Bytes /\ lasts \in Bytes \cup {None} /\ buf \in [UserBytes -> Chars]
    BY Sizes, NoLineType DEF Init
<1>6. args \in 0 .. WordsMax /\ command \in [1 .. WordsMax -> [0 .. WordMax -> Chars]]
    BY NoWordsType, ConsoleAssumption DEF Init
<1> QED
    BY <1>1, <1>2, <1>3, <1>4, <1>5, <1>6 DEF TypeOK

LEMMA ConsoleTypeStep == TypeOK /\ [Next]_vars => TypeOK'
<1> SUFFICES ASSUME TypeOK, [Next]_vars PROVE TypeOK'
    OBVIOUS
<1>1. ASSUME NEW k \in Keys, Press(k) PROVE TypeOK'
    BY <1>1 DEF TypeOK, Press, kbd, text, user
<1>2. CASE UNCHANGED vars
    BY <1>2 DEF TypeOK, vars
<1> QED
    BY <1>1, <1>2, KeyboardType, SystemCallType, RunType DEF Next

(* In any interleaving every variable keeps the type the code gives it,    *)
(* and the cursor stays on the screen: after scrolling, and after erasing  *)
(* over the edge of a row.                                                 *)
THEOREM ConsoleTypeCorrect == Spec => []TypeOK
    BY ConsoleInitType, ConsoleTypeStep, PTL DEF Spec

-----------------------------------------------------------------------------
(* The echo *)

(* Behind the new cursor are the new character and what was there before,  *)
(* on the same cells or, when the screen scrolls, one row higher.          *)
LEMMA PutCharEcho ==
    ASSUME NEW t, OnScreen(t), NEW c \in Typed, NEW u, u = PutChar(t, c)
    PROVE  /\ \/ At(u.row, u.col) = At(t.row, t.col) + 1
              \/ At(u.row, u.col) = (Rows - 1) * Columns
           /\ At(u.row, u.col) \in Nat
           /\ \A k \in 1 .. At(u.row, u.col) :
                 u.screen[At(u.row, u.col) - k] =
                     IF k = 1 THEN c ELSE t.screen[At(t.row, t.col) - (k - 1)]
<1> PICK at : at = At(t.row, t.col)
    OBVIOUS
<1> PICK s : s = [t.screen EXCEPT ![at] = c]
    OBVIOUS
<1>1. /\ t.row \in 0 .. Rows - 1 /\ t.col \in 0 .. Columns - 1 /\ t.screen \in ScreenType
      /\ t.row \in Nat /\ t.col \in Nat
    BY Sizes DEF OnScreen
<1>2. at \in Cells /\ at \in Nat
    BY <1>1, AtCell, Sizes DEF Cells
<1>3. \A i \in Cells : s[i] = IF i = at THEN c ELSE t.screen[i]
    BY <1>1 DEF ScreenType
<1>4. c # Newline
    BY Characters
<1>5. u = IF t.col # Columns - 1 THEN [row |-> t.row, col |-> t.col + 1, screen |-> s]
          ELSE IF t.row + 1 < Rows THEN [row |-> t.row + 1, col |-> 0, screen |-> s]
          ELSE [row |-> Rows - 1, col |-> 0, screen |-> Scrolled(s)]
    BY <1>4 DEF PutChar
<1>6. CASE t.col # Columns - 1 \/ t.row + 1 < Rows
    <2>1. u.screen = s
        BY <1>5, <1>6
    <2>2. At(u.row, u.col) = at + 1
        <3>1. CASE t.col # Columns - 1
            <4>1. u.row = t.row /\ u.col = t.col + 1
                BY <1>5, <3>1
            <4>2. t.row * Columns \in Nat
                BY <1>1, Sizes, SMT
            <4> QED
                BY <1>1, <4>1, <4>2 DEF At
        <3>2. CASE t.col = Columns - 1
            <4>1. u.row = t.row + 1 /\ u.col = 0
                BY <1>5, <1>6, <3>2
            <4> QED
                BY <1>1, <1>6, <3>2, <4>1, AtCell
        <3> QED
            BY <3>1, <3>2
    <2>3. ASSUME NEW k \in 1 .. at + 1
          PROVE  s[at + 1 - k] = IF k = 1 THEN c ELSE t.screen[at - (k - 1)]
        <3>1. at + 1 - k \in Cells /\ at + 1 - k = at - (k - 1) /\ (at + 1 - k = at <=> k = 1)
            BY <1>2, <2>3, Sizes DEF Cells
        <3> QED
            BY <1>3, <3>1
    <2> QED
        BY <1>2, <2>1, <2>2, <2>3
<1>7. CASE t.col = Columns - 1 /\ ~(t.row + 1 < Rows)
    <2>1. u.screen = Scrolled(s) /\ u.row = Rows - 1 /\ u.col = 0
        BY <1>5, <1>7
    <2>2. At(u.row, u.col) = (Rows - 1) * Columns
        <3>1. 0 \in 0 .. Columns - 1 /\ Rows - 1 \in 0 .. Rows - 1
            BY Sizes
        <3> QED
            BY <2>1, <3>1, AtCell, Sizes
    <2>3. at = (Rows - 1) * Columns + Columns - 1
        <3>1. t.row = Rows - 1
            BY <1>1, <1>7, Sizes
        <3> QED
            BY <1>1, <1>7, <3>1, AtCell, Sizes
    <2>4. ASSUME NEW k \in 1 .. (Rows - 1) * Columns
          PROVE  Scrolled(s)[(Rows - 1) * Columns - k] =
                     IF k = 1 THEN c ELSE t.screen[at - (k - 1)]
        <3> PICK i : i = (Rows - 1) * Columns - k
            OBVIOUS
        <3>1. i \in Cells /\ i < (Rows - 1) * Columns
            BY <2>4, Sizes DEF Cells
        <3>2. i + Columns \in Cells /\ i + Columns = at - (k - 1) /\ (i + Columns = at <=> k = 1)
            BY <2>3, <2>4, <1>2, Sizes DEF Cells
        <3>3. Scrolled(s)[i] = s[i + Columns]
            BY <3>1 DEF Scrolled
        <3> QED
            BY <1>3, <3>2, <3>3
    <2> QED
        BY <2>1, <2>2, <2>4, Sizes
<1> QED
    BY <1>6, <1>7

(* Behind the new cursor is what was there before.                         *)
LEMMA EraseEcho ==
    ASSUME NEW t, OnScreen(t), At(t.row, t.col) > 0, NEW u, u = Erase(t)
    PROVE  /\ At(u.row, u.col) = At(t.row, t.col) - 1 /\ At(u.row, u.col) \in Nat
           /\ \A k \in 1 .. At(u.row, u.col) :
                 u.screen[At(u.row, u.col) - k] = t.screen[At(t.row, t.col) - (k + 1)]
<1> PICK at : at = At(t.row, t.col)
    OBVIOUS
<1>1. /\ t.row \in 0 .. Rows - 1 /\ t.col \in 0 .. Columns - 1 /\ t.screen \in ScreenType
      /\ t.row \in Nat /\ t.col \in Nat
    BY Sizes DEF OnScreen
<1>2. at \in Cells /\ at \in Nat /\ at > 0
    BY <1>1, AtCell, Sizes DEF Cells
<1>3. t.col = 0 => t.row > 0
    <2>1. t.col = 0 /\ t.row = 0 => At(t.row, t.col) = 0
        BY Sizes DEF At
    <2> QED
        BY <1>1, <1>2, <2>1
<1>4. u = IF t.col = 0
          THEN [row |-> t.row - 1, col |-> Columns - 1,
                screen |-> [t.screen EXCEPT ![At(t.row - 1, Columns - 1)] = Space]]
          ELSE [row |-> t.row, col |-> t.col - 1,
                screen |-> [t.screen EXCEPT ![At(t.row, t.col - 1)] = Space]]
    BY <1>1, <1>3 DEF Erase
<1>5. u.screen = [t.screen EXCEPT ![At(u.row, u.col)] = Space]
    BY <1>4
<1>6. At(u.row, u.col) = at - 1
    <2>1. CASE t.col = 0
        BY <1>1, <1>3, <1>4, <2>1, AtCell
    <2>2. CASE t.col # 0
        <3>1. t.row * Columns \in Nat
            BY <1>1, Sizes, SMT
        <3> QED
            BY <1>1, <1>4, <2>2, <3>1 DEF At
    <2> QED
        BY <2>1, <2>2
<1>7. ASSUME NEW k \in 1 .. at - 1
      PROVE  u.screen[at - 1 - k] = t.screen[at - (k + 1)]
    <2>1. at - 1 - k \in Cells /\ at - 1 - k # at - 1 /\ at - 1 - k = at - (k + 1)
        BY <1>2, <1>7, Sizes DEF Cells
    <2> QED
        BY <1>1, <1>5, <1>6, <2>1 DEF ScreenType
<1> QED
    BY <1>2, <1>6, <1>7

LEMMA EchoStep ==
    ASSUME LineFits, TypeOK, EchoInv, [Next]_vars
    PROVE  EchoInv'
<1> SUFFICES ASSUME InCall', ~long'
             PROVE  /\ index' <= At(row', col')
                    /\ \A k \in 1 .. index' : screen'[At(row', col') - k] = keys'[index' - k]
    BY DEF EchoInv, At
<1>1. row \in 0 .. Rows - 1 /\ col \in 0 .. Columns - 1 /\ index \in Nat /\ index < BufferSize
      /\ keys \in [Bytes -> Chars]
    BY Sizes DEF TypeOK, Bytes
<1>2. At(row, col) \in Nat
    BY <1>1, AtCell, Sizes DEF Cells
<1>3. CASE /\ UNCHANGED <<on, index, keys, row, col, screen, long>>
           /\ pc' \in {"activated", "spin"} => pc \in {"activated", "spin"}
    BY <1>3 DEF EchoInv, InCall, At
<1>4. CASE Activate
    BY <1>1, <1>2, <1>4 DEF Activate, At, text
<1>5. CASE Prompt \/ NextWord \/ Reply \/ ClearScreen \/ StartClock \/ ShowClock
    <2>1. pc' \notin {"activated", "spin"}
        BY <1>5 DEF Prompt, NextWord, Reply, ClearScreen, StartClock, ShowClock
    <2> QED
        BY <2>1 DEF InCall
<1>6. CASE KeyboardIsr
    <2> PICK c : c = Ascii(irq)
        OBVIOUS
    <2>1. pc' = pc
        BY <1>6 DEF KeyboardIsr
    <2>2. CASE ~on
        BY <1>6, <2>2 DEF KeyboardIsr, NotListening, Ignored, InCall
    <2>3. CASE on
        <3>1. Listening(c) /\ InCall
            BY <1>6, <2>1, <2>3 DEF KeyboardIsr, InCall
        <3>2. OnScreen(Here) /\ Here.row = row /\ Here.col = col /\ Here.screen = screen
            BY HereType DEF Here
        <3>3. CASE NoCharacter(c)
            BY <1>3, <2>1, <3>3 DEF NoCharacter, Ignored, text
        <3>4. CASE EraseChar(c)
            <4>1. CASE index = 0
                BY <1>3, <2>1, <3>4, <4>1 DEF EraseChar, text
            <4>2. CASE index # 0
                <5> PICK u : u = Erase(Here)
                    OBVIOUS
                <5>1. index' = index - 1 /\ keys' = [keys EXCEPT ![index - 1] = Nul]
                      /\ row' = u.row /\ col' = u.col /\ screen' = u.screen /\ long' = long
                    BY <3>4, <4>2 DEF EraseChar, Show
                <5>2. index <= At(row, col)
                      /\ \A k \in 1 .. index : screen[At(row, col) - k] = keys[index - k]
                    BY <3>1, <5>1 DEF EchoInv
                <5>3. At(row, col) > 0
                    BY <1>1, <1>2, <4>2, <5>2
                <5>4. /\ At(u.row, u.col) = At(row, col) - 1
                      /\ \A k \in 1 .. At(u.row, u.col) :
                            u.screen[At(u.row, u.col) - k] = screen[At(row, col) - (k + 1)]
                    BY <3>2, <5>3, EraseEcho
                <5>5. ASSUME NEW k \in 1 .. index'
                      PROVE  screen'[At(row', col') - k] = keys'[index' - k]
                    <6>1. k \in 1 .. At(u.row, u.col) /\ k + 1 \in 1 .. index
                        BY <1>1, <1>2, <5>1, <5>2, <5>4, <5>5
                    <6>2. u.screen[At(u.row, u.col) - k] = keys[index - (k + 1)]
                        BY <5>2, <5>4, <6>1
                    <6>3. index - (k + 1) \in Bytes /\ index - (k + 1) # index - 1
                          /\ index' - k = index - (k + 1)
                        BY <1>1, <5>1, <6>1, Sizes DEF Bytes
                    <6>4. keys'[index' - k] = keys[index - (k + 1)]
                        BY <1>1, <5>1, <6>3
                    <6> QED
                        BY <5>1, <6>2, <6>4
                <5>6. index' <= At(row', col')
                    BY <1>1, <1>2, <5>1, <5>2, <5>4
                <5> QED
                    BY <5>5, <5>6
            <4> QED
                BY <4>1, <4>2
        <3>5. CASE EndLine(c)
            BY <3>5 DEF EndLine, InCall
        <3>6. CASE AddChar(c)
            <4> PICK u : u = PutChar(Here, c)
                OBVIOUS
            <4>1. c \in Typed /\ keys' = [keys EXCEPT ![index] = c]
                  /\ index' = (index + 1) % BufferSize
                  /\ row' = u.row /\ col' = u.col /\ screen' = u.screen
                  /\ long' = (long \/ index = BufferSize - 1)
                BY <3>6 DEF AddChar, Show
            <4>2. ~long /\ index # BufferSize - 1
                BY <4>1
            <4>3. index' = index + 1 /\ index + 1 <= BufferSize - 1
                <5>1. index + 1 < BufferSize
                    BY <1>1, <4>2, Sizes
                <5> QED
                    BY <1>1, <4>1, <5>1, Sizes
            <4>4. index <= At(row, col)
                  /\ \A k \in 1 .. index : screen[At(row, col) - k] = keys[index - k]
                BY <3>1, <4>2 DEF EchoInv
            <4>5. /\ \/ At(u.row, u.col) = At(row, col) + 1
                     \/ At(u.row, u.col) = (Rows - 1) * Columns
                  /\ At(u.row, u.col) \in Nat
                  /\ \A k \in 1 .. At(u.row, u.col) :
                        u.screen[At(u.row, u.col) - k] =
                            IF k = 1 THEN c ELSE screen[At(row, col) - (k - 1)]
                BY <3>2, <4>1, PutCharEcho
            <4>6. index' <= At(row', col')
                BY <1>1, <1>2, <4>1, <4>3, <4>4, <4>5, Sizes DEF LineFits
            <4>7. ASSUME NEW k \in 1 .. index'
                  PROVE  screen'[At(row', col') - k] = keys'[index' - k]
                <5>1. k \in 1 .. At(u.row, u.col)
                    BY <1>1, <4>1, <4>3, <4>5, <4>6, <4>7
                <5>2. index' - k \in Bytes /\ index' - k = index - (k - 1)
                      /\ (index' - k = index <=> k = 1)
                    BY <1>1, <4>3, <4>7, Sizes DEF Bytes
                <5>3. keys'[index' - k] = IF k = 1 THEN c ELSE keys[index - (k - 1)]
                    BY <1>1, <4>1, <5>2
                <5>4. k # 1 => k - 1 \in 1 .. index
                    BY <1>1, <4>3, <4>7
                <5> QED
                    BY <4>1, <4>4, <4>5, <5>1, <5>3, <5>4
            <4> QED
                BY <4>6, <4>7
        <3> QED
            BY <3>1, <3>3, <3>4, <3>5, <3>6 DEF Listening
    <2> QED
        BY <2>2, <2>3
<1>7. CASE Sti \/ Awake \/ Strlen \/ CopyLine
    BY <1>3, <1>7 DEF Sti, Awake, Strlen, CopyLine, kbd, text, InCall
<1>8. ASSUME NEW k \in Keys, Press(k) PROVE EchoInv'
    BY <1>8 DEF EchoInv, Press, InCall, kbd, text, At
<1>9. CASE UNCHANGED vars
    BY <1>3, <1>9 DEF vars
<1> QED
    BY <1>4, <1>5, <1>6, <1>7, <1>8, <1>9 DEF Next, SystemCall4, Run, EchoInv, At

(* Where a line fits the screen, what the user sees after the prompt is    *)
(* what the buffer holds: with the keyboard interrupt between any two      *)
(* steps of the system call, over the edges of rows, after erasing and     *)
(* after the screen has scrolled, until the buffer was once filled.        *)
THEOREM EchoIsBufferCorrect ==
    ASSUME LineFits
    PROVE  Spec => []EchoIsBuffer
<1>1. Init => EchoInv
    BY DEF Init, EchoInv, InCall
<1>2. TypeOK /\ EchoInv /\ [Next]_vars => EchoInv'
    BY EchoStep
<1>3. EchoInv => EchoIsBuffer
    BY DEF EchoInv, EchoIsBuffer
<1> QED
    BY <1>1, <1>2, <1>3, ConsoleTypeCorrect, PTL DEF Spec
-----------------------------------------------------------------------------
(* Strings, and system call 4 *)

LEMMA StringIs ==
    ASSUME NEW w, NEW last \in Nat, NEW end \in 0 .. last + 1,
           \A j \in 0 .. last : j < end => w[j] # Nul,
           end = last + 1 \/ w[end] = Nul
    PROVE  String(w, last) = [j \in 1 .. end |-> w[j - 1]]
<1> DEFINE S == {j \in 0 .. last : w[j] = Nul} \cup {last + 1}
<1>1. S \subseteq Nat /\ end \in S /\ \A j \in S : end <= j
    OBVIOUS
<1>2. Min(S) \in S /\ \A j \in S : Min(S) <= j
    <2> HIDE DEF S
    <2> QED
        BY <1>1, LeastIs
<1>3. Min(S) = end
    <2> HIDE DEF S
    <2> QED
        <3>1. Min(S) \in Nat /\ end \in Nat /\ Min(S) <= end /\ end <= Min(S)
            BY <1>1, <1>2
        <3> QED
            BY <3>1
<1> QED
    BY <1>3 DEF String

(* The line in the buffer, and where it ends. *)
LEMMA LineIs ==
    ASSUME TypeOK, \E i \in Bytes : keys[i] = Nul
    PROVE  \E n \in Bytes :
               /\ n = Min({i \in Bytes : keys[i] = Nul}) /\ keys[n] = Nul
               /\ \A i \in Bytes : i < n => keys[i] # Nul
               /\ TypedLine = [j \in 1 .. n |-> keys[j - 1]]
               /\ TypedLine \in Seq(Chars) /\ Len(TypedLine) = n
<1> DEFINE S == {i \in Bytes : keys[i] = Nul}
           n == Min(S)
<1>1. S \subseteq Nat /\ S # {}
    BY DEF Bytes
<1>2. n \in S /\ \A i \in S : n <= i
    <2> HIDE DEF S
    <2> QED
        BY <1>1, LeastIs
<1>3. n \in Bytes /\ keys[n] = Nul
    BY <1>2
<1>4. \A i \in Bytes : i < n => keys[i] # Nul
    BY <1>2 DEF Bytes
<1>5. TypedLine = [j \in 1 .. n |-> keys[j - 1]]
    <2> HIDE DEF n
    <2> QED
        BY <1>3, <1>4, Sizes, StringIs DEF TypedLine, Bytes
<1>6. \A j \in 1 .. n : keys[j - 1] \in Chars
    <2> HIDE DEF n
    <2> QED
        BY <1>3, Sizes DEF TypeOK, Bytes
<1>7. n \in Nat
    BY <1>3 DEF Bytes
<1>8. TypedLine \in Seq(Chars) /\ Len(TypedLine) = n
    <2> HIDE DEF n
    <2> QED
        BY <1>5, <1>6, <1>7
<1> QED
    BY <1>3, <1>4, <1>5, <1>8

(* The line does not change unless the keyboard writes. *)
LEMMA LineSame == keys' = keys => TypedLine' = TypedLine
    BY DEF TypedLine, String

LEMMA CallInit == Init => CallInv
    BY DEF Init, CallInv, InCall, Entered

LEMMA ListenKeeps ==
    ASSUME TypeOK, CallInv, NEW c \in Chars, on, pc = "spin", pc' = pc, args' = args, Listening(c)
    PROVE  CallInv'
<1>1. CASE NoCharacter(c)
    BY <1>1 DEF NoCharacter, Ignored, CallInv, InCall, Entered
<1>2. CASE EraseChar(c)
    <2>1. CASE index = 0
        BY <1>2, <2>1 DEF EraseChar, CallInv, InCall, Entered
    <2>2. CASE index # 0
        <3>1. /\ index' = index - 1 /\ keys' = [keys EXCEPT ![index - 1] = Nul]
              /\ on' = on /\ long' = long
            BY <1>2, <2>2 DEF EraseChar
        <3>2. index \in Bytes /\ index - 1 \in Bytes /\ keys \in [Bytes -> Chars]
            BY <2>2, Sizes DEF TypeOK, Bytes
        <3>3. ~long => \A i \in Bytes : keys'[i] = Nul <=> i >= index'
            <4> SUFFICES ASSUME ~long, NEW i \in Bytes PROVE keys'[i] = Nul <=> i >= index'
                OBVIOUS
            <4>1. keys[i] = Nul <=> i >= index
                BY DEF CallInv, InCall
            <4>2. i >= index - 1 <=> i = index - 1 \/ i >= index
                BY <3>2 DEF Bytes
            <4> QED
                BY <3>1, <3>2, <4>1, <4>2
        <3> QED
            BY <3>1, <3>3 DEF CallInv, InCall, Entered
    <2> QED
        BY <2>1, <2>2
<1>3. CASE EndLine(c)
    <2>1. on' = FALSE /\ keys' = keys /\ long' = long
        BY <1>3 DEF EndLine
    <2>2. ~long => \E i \in Bytes : keys[i] = Nul
        <3>1. index \in Bytes
            BY DEF TypeOK
        <3> QED
            BY <3>1 DEF CallInv, InCall, Bytes
    <2> QED
        BY <2>1, <2>2 DEF CallInv, InCall, Entered
<1>4. CASE AddChar(c)
    <2>1. /\ keys' = [keys EXCEPT ![index] = c] /\ index' = (index + 1) % BufferSize
          /\ long' = (long \/ index = BufferSize - 1) /\ on' = on /\ c \in Typed
        BY <1>4 DEF AddChar
    <2>2. index \in Bytes /\ keys \in [Bytes -> Chars] /\ c # Nul
        BY <2>1, Characters DEF TypeOK
    <2>3. ASSUME ~long' PROVE \A i \in Bytes : keys'[i] = Nul <=> i >= index'
        <3>1. ~long /\ index # BufferSize - 1
            BY <2>1, <2>3 DEF TypeOK
        <3>2. index' = index + 1
            <4>1. index \in Nat /\ index + 1 < BufferSize
                BY <2>2, <3>1, Sizes DEF Bytes
            <4> QED
                BY <2>1, <4>1, Sizes
        <3>3. ASSUME NEW i \in Bytes PROVE keys'[i] = Nul <=> i >= index'
            <4>1. keys[i] = Nul <=> i >= index
                BY <3>1 DEF CallInv, InCall
            <4>2. i >= index + 1 <=> i # index /\ i >= index
                BY <2>2 DEF Bytes
            <4> QED
                BY <2>1, <2>2, <3>2, <4>1, <4>2
        <3> QED
            BY <3>3
    <2> QED
        BY <2>1, <2>3 DEF CallInv, InCall, Entered
<1> QED
    BY <1>1, <1>2, <1>3, <1>4 DEF Listening

LEMMA CallStep ==
    ASSUME TypeOK, CallInv, [Next]_vars
    PROVE  CallInv'
<1>1. CASE KeyboardIsr
    <2>1. pc' = pc /\ args' = args /\ flag /\ length' = length /\ flag' = flag
        BY <1>1 DEF KeyboardIsr, user
    <2>2. CASE on
        <3>1. pc = "spin"
            BY <2>1, <2>2 DEF CallInv
        <3>2. Ascii(irq) \in Chars /\ Listening(Ascii(irq))
            BY <1>1, <2>2, AsciiType DEF KeyboardIsr, TypeOK
        <3> QED
            BY <2>1, <2>2, <3>1, <3>2, ListenKeeps
    <2>3. CASE ~on
        <3>1. on' = on /\ keys' = keys /\ long' = long
            BY <1>1, <2>3 DEF KeyboardIsr, NotListening, Ignored
        <3> QED
            BY <2>1, <2>3, <3>1 DEF CallInv, InCall, Entered
    <2> QED
        BY <2>2, <2>3
<1>2. CASE Activate
    <2>1. \A i \in Bytes : Empty[i] = Nul /\ i >= 0
        BY DEF Empty, Bytes
    <2> QED
        BY <1>2, <2>1 DEF Activate, user, CallInv, InCall, Entered
<1>3. CASE Sti \/ Awake
    BY <1>3 DEF Sti, Awake, kbd, user, CallInv, InCall, Entered
<1>4. CASE Strlen
    <2>1. kbd' = kbd /\ args' = args /\ long' = long /\ pc = "measure"
        BY <1>4 DEF Strlen, user
    <2>2. \/ pc' = "overrun"
          \/ /\ pc' = "copy" /\ length' = Min({i \in Bytes : keys[i] = Nul})
             /\ \E i \in Bytes : keys[i] = Nul
        BY <1>4 DEF Strlen
    <2> QED
        BY <2>1, <2>2 DEF kbd, CallInv, InCall, Entered
<1>5. CASE CopyLine
    BY <1>5 DEF CopyLine, kbd, CallInv, InCall, Entered
<1>6. CASE NextWord
    <2>1. kbd' = kbd /\ long' = long /\ pc = "parse"
        BY <1>6 DEF NextWord
    <2>2. \/ pc' = "parse"
          \/ pc' = (IF args = 0 THEN "prompt" ELSE "run") /\ args' = args
        BY <1>6 DEF NextWord
    <2>3. args \in Nat
        BY DEF TypeOK
    <2> QED
        BY <2>1, <2>2, <2>3 DEF kbd, CallInv, InCall, Entered
<1>7. CASE Prompt \/ ShowClock
    BY <1>7 DEF Prompt, ShowClock, kbd, user, CallInv, InCall, Entered
<1>8. CASE Reply \/ ClearScreen \/ StartClock
    BY <1>8 DEF Reply, ClearScreen, StartClock, Forget, kbd, CallInv, InCall, Entered
<1>9. ASSUME NEW k \in Keys, Press(k) PROVE CallInv'
    BY <1>9 DEF Press, kbd, user, CallInv, InCall, Entered
<1>10. CASE UNCHANGED vars
    BY <1>10 DEF vars, CallInv, InCall, Entered
<1> QED
    BY <1>1, <1>2, <1>3, <1>4, <1>5, <1>6, <1>7, <1>8, <1>9, <1>10 DEF Next, SystemCall4, Run

-----------------------------------------------------------------------------
(* Words of a line *)

LEMMA StartsAre ==
    ASSUME NEW s \in Seq(Chars)
    PROVE  /\ Line!Starts(s) \subseteq 1 .. Len(s) /\ IsFiniteSet(Line!Starts(s))
           /\ Cardinality(Line!Starts(s)) \in Nat
<1>1. Line!Starts(s) \subseteq 1 .. Len(s)
    BY DEF Line!Starts
<1>2. Len(s) \in Nat /\ IsFiniteSet(1 .. Len(s))
    BY FS_Interval
<1> QED
    BY <1>1, <1>2, FS_Subset, FS_CardinalityType

Before(S, i) == {j \in S : j < i}

(* Fewer starts lie before a start than before a later place. *)
LEMMA StartsBefore ==
    ASSUME NEW S, IsFiniteSet(S), S \subseteq Nat, NEW i \in S, NEW k \in Nat, i < k
    PROVE  /\ Cardinality(Before(S, i)) \in Nat /\ Cardinality(Before(S, k)) \in Nat
           /\ Cardinality(Before(S, i)) + 1 <= Cardinality(Before(S, k))
           /\ Cardinality(Before(S, i)) + 1 <= Cardinality(S)
<1> USE DEF Before
<1> DEFINE A == Before(S, i)
           B == Before(S, k)
<1>1. IsFiniteSet(A) /\ IsFiniteSet(B) /\ Cardinality(A) \in Nat /\ Cardinality(B) \in Nat
    <2>1. A \in SUBSET S /\ B \in SUBSET S
        OBVIOUS
    <2> HIDE DEF A, B
    <2> QED
        BY <2>1, FS_Subset, FS_CardinalityType
<1>2. A \cup {i} \in SUBSET B /\ A \cup {i} \in SUBSET S /\ i \notin A
    <2>1. i \in Nat /\ k \in Nat /\ ~(i < i)
        OBVIOUS
    <2>2. ASSUME NEW j \in S, j < i PROVE j < k
        <3>1. j \in Nat
            OBVIOUS
        <3> QED
            BY <2>1, <2>2, <3>1
    <2> QED
        BY <2>1, <2>2
<1>3. Cardinality(A \cup {i}) = Cardinality(A) + 1
    <2> HIDE DEF A
    <2> QED
        BY <1>1, <1>2, FS_AddElement
<1>4. Cardinality(A \cup {i}) <= Cardinality(B) /\ Cardinality(A \cup {i}) <= Cardinality(S)
    <2> HIDE DEF A, B
    <2> QED
        BY <1>1, <1>2, FS_Subset
<1> QED
    BY <1>1, <1>3, <1>4

LEMMA OneStart ==
    ASSUME NEW S, IsFiniteSet(S), S \subseteq Nat, NEW i \in S, NEW k \in S,
           Cardinality(Before(S, i)) = Cardinality(Before(S, k))
    PROVE  i = k
<1>1. ASSUME NEW x \in S, NEW y \in S, x < y,
             Cardinality(Before(S, x)) = Cardinality(Before(S, y))
      PROVE  FALSE
    <2>1. y \in Nat
        OBVIOUS
    <2>2. /\ Cardinality(Before(S, x)) \in Nat
          /\ Cardinality(Before(S, x)) + 1 <= Cardinality(Before(S, y))
        BY <1>1, <2>1, StartsBefore
    <2> QED
        BY <1>1, <2>2
<1>2. i \in Nat /\ k \in Nat
    OBVIOUS
<1>3. ~(i < k) /\ ~(k < i)
    BY <1>1
<1> QED
    BY <1>2, <1>3

(* The length of a word, once it is cut. *)
Shown(from, to) == IF to - from + 1 < WordMax THEN to - from + 1 ELSE WordMax

LEMMA ShownIs ==
    ASSUME NEW s \in Seq(Chars), NEW k, NEW from \in Nat, NEW to \in Nat, IsWord(s, k, from, to)
    PROVE  /\ Shown(from, to) \in 0 .. WordMax /\ Shown(from, to) <= to - from + 1
           /\ Shown(from, to) = WordMax \/ Shown(from, to) = to - from + 1
    BY ConsoleAssumption DEF Shown, IsWord

LEMMA SameCount == \A S : Line!Cardinality(S) = Cardinality(S)
    BY DEF Line!Cardinality, Cardinality

(* The words of Terminal, one by one. *)
LEMMA WordIs ==
    ASSUME NEW s \in Seq(Chars), NEW k \in Nat \ {0}, k <= WordsMax,
           NEW from \in Nat, NEW to \in Nat, IsWord(s, k, from, to)
    PROVE  /\ k <= Cardinality(Line!Starts(s))
           /\ Line!Words(s)[k] = [j \in 1 .. Shown(from, to) |-> s[from + j - 1]]
<1> DEFINE starts == Line!Starts(s)
           Smaller(x, y) == IF x < y THEN x ELSE y
           Start(n) == CHOOSE i \in starts : Line!Cardinality({j \in starts : j < i}) = n - 1
           WordFrom(i) == SubSeq(s, i, CHOOSE j \in i .. Len(s) :
                                     /\ \A h \in i .. j : s[h] # Space
                                     /\ j = Len(s) \/ s[j + 1] = Space)
<1>1. starts \subseteq Nat /\ IsFiniteSet(starts) /\ Cardinality(starts) \in Nat
    BY StartsAre
<1>2. from \in starts /\ Cardinality({j \in starts : j < from}) = k - 1
    BY DEF IsWord, WordsBefore
<1>3. k <= Cardinality(starts)
    <2>1. from + 1 \in Nat /\ from < from + 1
        OBVIOUS
    <2> HIDE DEF starts
    <2>2. Cardinality({j \in starts : j < from}) + 1 <= Cardinality(starts)
        BY <1>1, <1>2, <2>1, StartsBefore DEF Before
    <2> QED
        BY <1>1, <1>2, <2>2
<1>4. Start(k) = from
    <2> HIDE DEF starts
    <2>1. Start(k) \in starts /\ Line!Cardinality({j \in starts : j < Start(k)}) = k - 1
        BY <1>2, SameCount
    <2>2. Cardinality({j \in starts : j < Start(k)}) = k - 1
        BY <2>1, SameCount
    <2> PICK x : x = Start(k)
        OBVIOUS
    <2>3. x \in starts /\ Cardinality(Before(starts, x)) = Cardinality(Before(starts, from))
        <3> HIDE DEF Start
        <3> QED
            BY <1>2, <2>1, <2>2 DEF Before
    <2>4. x = from
        BY <1>1, <1>2, <2>3, OneStart
    <2> QED
        BY <2>4
<1>5. /\ 1 <= from /\ from <= to /\ to <= Len(s) /\ Len(s) \in Nat
      /\ \A i \in from .. to : s[i] # Space
      /\ to = Len(s) \/ s[to + 1] = Space
    BY DEF IsWord
<1>6. WordFrom(from) = SubSeq(s, from, to)
    <2> DEFINE End(j) == /\ \A h \in from .. j : s[h] # Space
                         /\ j = Len(s) \/ s[j + 1] = Space
    <2>1. to \in from .. Len(s) /\ End(to)
        BY <1>5
    <2>2. ASSUME NEW j \in from .. Len(s), End(j) PROVE j = to
        <3>1. j < to => j + 1 \in from .. to /\ j # Len(s)
            BY <1>5
        <3>2. to < j => to + 1 \in from .. j /\ to # Len(s)
            BY <1>5
        <3>3. ~(j < to) /\ ~(to < j)
            BY <1>5, <2>2, <3>1, <3>2
        <3> QED
            BY <3>3
    <2> HIDE DEF End
    <2>3. (CHOOSE j \in from .. Len(s) : End(j)) = to
        BY <2>1, <2>2
    <2> QED
        BY <2>3 DEF End
<1>7. Line!Words(s)[k] = SubSeq(WordFrom(Start(k)), 1, Smaller(Len(WordFrom(Start(k))), WordMax))
    <2>1. k \in 1 .. Smaller(Line!Cardinality(starts), WordsMax)
        BY <1>1, <1>3, SameCount, ConsoleAssumption
    <2>2. Line!Words(s) = [n \in 1 .. Smaller(Line!Cardinality(starts), WordsMax) |->
                SubSeq(WordFrom(Start(n)), 1, Smaller(Len(WordFrom(Start(n))), WordMax))]
        BY DEF Line!Words
    <2> HIDE DEF starts, Smaller, Start, WordFrom
    <2> QED
        BY <2>1, <2>2
<1>8. Len(SubSeq(s, from, to)) = to - from + 1
    BY <1>5
<1>9. Line!Words(s)[k] = SubSeq(SubSeq(s, from, to), 1, Shown(from, to))
    BY <1>4, <1>6, <1>7, <1>8 DEF Shown
<1>10. SubSeq(SubSeq(s, from, to), 1, Shown(from, to))
            = [j \in 1 .. Shown(from, to) |-> s[from + j - 1]]
    <2> DEFINE u == SubSeq(s, from, to)
    <2>1. u \in Seq(Chars) /\ Len(u) = to - from + 1
          /\ \A i \in 1 .. to - from + 1 : u[i] = s[from + i - 1]
        BY <1>5
    <2>2. Shown(from, to) \in Nat /\ Shown(from, to) <= to - from + 1
        BY ShownIs
    <2> HIDE DEF u
    <2> QED
        BY <2>1, <2>2
<1> QED
    BY <1>3, <1>9, <1>10

ShownWord(s, from, to) == [j \in 1 .. Shown(from, to) |-> s[from + j - 1]]

(* The same word, where strparse has put it. *)
LEMMA CopiedIs ==
    ASSUME NEW s \in Seq(Chars), \A i \in 1 .. Len(s) : s[i] # Nul, NEW k,
           NEW from \in Nat, NEW to \in Nat, IsWord(s, k, from, to),
           NEW w, IsCopy(w, s, from, to)
    PROVE  String(w, WordMax) = ShownWord(s, from, to)
<1> DEFINE m == Shown(from, to)
<1>1. m \in 0 .. WordMax /\ m <= to - from + 1 /\ (m = WordMax \/ m = to - from + 1)
    BY ShownIs
<1>2. 1 <= from /\ from <= to /\ to <= Len(s) /\ Len(s) \in Nat /\ WordMax \in Nat
    BY ConsoleAssumption DEF IsWord
<1>3. \A j \in 0 .. WordMax : j < m => w[j] = s[from + j] /\ from + j \in 1 .. Len(s)
    <2> HIDE DEF m
    <2> QED
        BY <1>1, <1>2 DEF IsCopy
<1>4. w[m] = Nul
    <2> HIDE DEF m
    <2> QED
        BY <1>1, <1>2 DEF IsCopy
<1>5. String(w, WordMax) = [j \in 1 .. m |-> w[j - 1]]
    <2> HIDE DEF m
    <2>1. \A j \in 0 .. WordMax : j < m => w[j] # Nul
        BY <1>3
    <2>2. m \in 0 .. WordMax + 1
        BY <1>1, <1>2
    <2> QED
        BY <1>2, <1>4, <2>1, <2>2, StringIs
<1>6. \A j \in 1 .. m : w[j - 1] = s[from + j - 1]
    <2> HIDE DEF m
    <2> SUFFICES ASSUME NEW j \in 1 .. m PROVE w[j - 1] = s[from + j - 1]
        OBVIOUS
    <2>1. j - 1 \in 0 .. WordMax /\ j - 1 < m /\ from + (j - 1) = from + j - 1
        BY <1>1, <1>2
    <2> QED
        BY <1>3, <2>1
<1> QED
    BY <1>5, <1>6 DEF ShownWord

-----------------------------------------------------------------------------
(* strtok and strparse *)

(* From p on b is what it was, and no word goes over p. *)
Uncut(s, b, p) ==
    /\ p <= Len(s) /\ (p = 0 \/ s[p] = Space)
    /\ \A i \in Bytes : i >= p => b[i] = IF i < Len(s) THEN s[i + 1] ELSE Nul

(* The next word of s behind p. *)
NextAt(s, p, from, to) ==
    /\ p < from /\ from <= to /\ to <= Len(s)
    /\ from \in Line!Starts(s)
    /\ \A j \in Line!Starts(s) : j <= p \/ from <= j
    /\ \A j \in Line!Starts(s) : j <= from \/ to + 1 < j
    /\ \A i \in from .. to : s[i] # Space
    /\ to = Len(s) \/ s[to + 1] = Space

(* What strtok gives at p: nothing when no word is left, or the next word, *)
(* cut off behind its end.                                                 *)
TokenAt(s, b, p, r) ==
    \/ r.tok = None /\ \A j \in Line!Starts(s) : j <= p
    \/ \E from, to \in 1 .. Len(s) :
          /\ NextAt(s, p, from, to) /\ r.tok = from - 1
          /\ IF to = Len(s) THEN r.lasts = None /\ r.s = b
             ELSE r.lasts = to + 1 /\ r.s = [b EXCEPT ![to] = Nul]

LEMMA StrTokIs ==
    ASSUME NEW s \in Seq(Chars), Len(s) \in Bytes, \A i \in 1 .. Len(s) : s[i] # Nul,
           NEW b \in [UserBytes -> Chars], NEW p \in Bytes, Uncut(s, b, p),
           NEW r, r = StrTok(b, p)
    PROVE  TokenAt(s, b, p, r)
<1> DEFINE n == Len(s)
           starts == {i \in Bytes : i >= p /\ b[i] # Space}
           tok == Min(starts)
           stops == {i \in Bytes : i > tok /\ b[i] \in {Space, Nul}}
           stop == Min(stops)
<1>1. n \in Nat /\ p \in Nat /\ p <= n /\ n < BufferSize /\ BufferSize \in Nat
    BY Sizes DEF Bytes, Uncut
<1>2. \A i \in p .. n - 1 : i \in Bytes /\ b[i] = s[i + 1] /\ s[i + 1] # Nul
    BY <1>1 DEF Uncut, Bytes
<1>3. b[n] = Nul /\ n \in Bytes
    BY <1>1 DEF Uncut
<1>4. tok \in starts /\ tok <= n /\ tok \in Nat /\ p <= tok
      /\ \A i \in p .. tok - 1 : s[i + 1] = Space
    <2>1. starts \subseteq Nat /\ n \in starts
        BY <1>1, <1>3, Characters DEF Bytes
    <2>2. tok \in starts /\ \A x \in starts : tok <= x
        <3> HIDE DEF starts
        <3> QED
            BY <2>1, LeastIs
    <2>3. tok <= n /\ tok \in Nat /\ p <= tok
        <3> HIDE DEF tok
        <3> QED
            BY <2>1, <2>2
    <2>4. ASSUME NEW i \in p .. tok - 1 PROVE s[i + 1] = Space
        <3> HIDE DEF tok
        <3>1. i \in p .. n - 1 /\ ~(tok <= i)
            BY <1>1, <2>3, <2>4
        <3>2. i \in Bytes /\ i >= p /\ b[i] = s[i + 1]
            BY <1>1, <1>2, <3>1
        <3> QED
            BY <2>2, <3>1, <3>2
    <2> QED
        BY <2>2, <2>3, <2>4
<1>5. StrTok(b, p) =
          IF p = None \/ starts = {} \/ b[tok] = Nul THEN [tok |-> None, s |-> b, lasts |-> None]
          ELSE IF b[stop] = Nul THEN [tok |-> tok, s |-> b, lasts |-> None]
          ELSE [tok |-> tok, s |-> [b EXCEPT ![stop] = Nul],
                lasts |-> IF stop + 1 \in Bytes THEN stop + 1 ELSE None]
    BY DEF StrTok
<1>6. p # None /\ starts # {}
    <2>1. p # None
        BY <1>1 DEF None
    <2> HIDE DEF starts
    <2> QED
        BY <1>4, <2>1
<1>7. ASSUME NEW j \in Line!Starts(s), j > p PROVE j >= tok + 1
    <2>1. j \in 1 .. n /\ s[j] # Space
        BY DEF Line!Starts
    <2>2. ~(j - 1 \in p .. tok - 1)
        <3> HIDE DEF tok
        <3>1. j - 1 + 1 = j
            BY <2>1
        <3> QED
            BY <1>4, <2>1, <3>1
    <2> HIDE DEF tok
    <2> QED
        BY <1>1, <1>4, <1>7, <2>1, <2>2
<1>8. CASE b[tok] = Nul
    <2>1. r.tok = None
        <3> HIDE DEF tok, starts, stop
        <3> QED
            BY <1>5, <1>8
    <2>2. tok = n
        <3> HIDE DEF tok
        <3> QED
            BY <1>1, <1>2, <1>4, <1>8
    <2>3. ASSUME NEW j \in Line!Starts(s) PROVE j <= p
        <3>1. j \in 1 .. n
            BY DEF Line!Starts
        <3> QED
            BY <1>1, <1>7, <2>2, <3>1
    <2> QED
        BY <2>1, <2>3 DEF TokenAt
<1>9. CASE b[tok] # Nul
    <2>1. tok < n
        <3> HIDE DEF tok
        <3> QED
            BY <1>1, <1>3, <1>4, <1>9
    <2>2. stops \subseteq Nat /\ n \in stops
        <3> HIDE DEF tok
        <3> QED
            BY <1>3, <2>1 DEF Bytes
    <2>3. stop \in stops /\ \A x \in stops : stop <= x
        <3> HIDE DEF stops
        <3> QED
            BY <2>2, LeastIs
    <2>4. stop \in Nat /\ stop <= n /\ tok < stop /\ stop \in Bytes /\ b[stop] \in {Space, Nul}
        <3> HIDE DEF tok, stop
        <3> QED
            BY <1>4, <2>2, <2>3
    <2> DEFINE from == tok + 1
               to == stop
    <2>5. from \in 1 .. n /\ to \in 1 .. n /\ p < from /\ from <= to
        <3> HIDE DEF tok, stop
        <3> QED
            BY <1>1, <1>4, <2>1, <2>4
    <2>6. ASSUME NEW i \in from .. to PROVE s[i] # Space
        <3> HIDE DEF tok, stop
        <3>1. i - 1 \in p .. n - 1 /\ i - 1 + 1 = i /\ ~(stop <= i - 1)
            BY <1>1, <1>4, <2>4, <2>6
        <3>2. i - 1 \in Bytes /\ b[i - 1] = s[i]
            BY <1>2, <3>1
        <3>3. CASE i - 1 = tok
            BY <1>4, <3>2, <3>3
        <3>4. CASE i - 1 > tok
            BY <2>3, <3>1, <3>2, <3>4
        <3> QED
            BY <1>4, <2>6, <3>3, <3>4
    <2>7. b[to] = Nul <=> to = n
        <3> HIDE DEF stop
        <3> QED
            BY <1>1, <1>2, <1>3, <1>4, <2>4
    <2>8. to = n \/ s[to + 1] = Space
        <3> HIDE DEF stop
        <3> QED
            BY <1>1, <1>2, <1>4, <2>4, <2>7
    <2>9. from \in Line!Starts(s)
        <3>1. s[from] # Space
            <4> HIDE DEF tok, stop
            <4> QED
                BY <2>5, <2>6
        <3>2. from = 1 \/ s[from - 1] = Space
            <4> HIDE DEF tok
            <4>1. CASE p = tok
                BY <1>1, <1>4, <4>1 DEF Uncut
            <4>2. CASE p < tok
                <5>1. tok - 1 \in p .. tok - 1 /\ from - 1 = tok /\ tok - 1 + 1 = tok
                    BY <1>1, <1>4, <4>2
                <5> QED
                    BY <1>4, <5>1
            <4> QED
                BY <1>1, <1>4, <4>1, <4>2
        <3> QED
            BY <2>5, <3>1, <3>2 DEF Line!Starts
    <2>10. ASSUME NEW j \in Line!Starts(s) PROVE j <= p \/ from <= j
        <3>1. j \in Nat
            BY DEF Line!Starts
        <3> HIDE DEF tok
        <3> QED
            BY <1>1, <1>4, <1>7, <2>10, <3>1
    <2>11. ASSUME NEW j \in Line!Starts(s) PROVE j <= from \/ to + 1 < j
        <3>1. j \in 1 .. n /\ s[j] # Space /\ (j = 1 \/ s[j - 1] = Space)
            BY DEF Line!Starts
        <3> HIDE DEF tok, stop
        <3>2. j # to + 1
            BY <2>8, <3>1
        <3>3. ASSUME from < j, j <= to PROVE FALSE
            <4>1. j - 1 \in from .. to /\ j # 1
                BY <1>4, <2>4, <3>1, <3>3
            <4> QED
                BY <2>6, <3>1, <4>1
        <3> QED
            BY <1>4, <2>4, <3>1, <3>2, <3>3
    <2>12. NextAt(s, p, from, to)
        <3> HIDE DEF tok, stop
        <3> QED
            BY <2>5, <2>6, <2>8, <2>9, <2>10, <2>11 DEF NextAt
    <2>13. r.tok = tok /\ IF to = n THEN r.lasts = None /\ r.s = b
                         ELSE r.lasts = to + 1 /\ r.s = [b EXCEPT ![to] = Nul]
        <3>1. to # n => stop + 1 \in Bytes
            <4> HIDE DEF stop
            <4> QED
                BY <1>1, <2>4 DEF Bytes
        <3> HIDE DEF tok, starts, stop
        <3> QED
            BY <1>5, <1>6, <1>9, <2>7, <3>1
    <2> HIDE DEF tok, stop
    <2>14. r.tok = from - 1
        BY <1>4, <2>13
    <2> QED
        BY <2>5, <2>12, <2>13, <2>14 DEF TokenAt
<1> QED
    BY <1>8, <1>9

(* How many words begin up to the end of the next one. *)
LEMMA NextCount ==
    ASSUME NEW s \in Seq(Chars), NEW p \in Nat, NEW from \in Nat, NEW to \in Nat,
           NextAt(s, p, from, to),
           NEW a, a = WordsBefore(s, p + 1)
    PROVE  /\ a \in Nat
           /\ WordsBefore(s, from) = a /\ WordsBefore(s, to + 2) = a + 1
           /\ to = Len(s) => Cardinality(Line!Starts(s)) = a + 1
<1> DEFINE S == Line!Starts(s)
           A == {j \in S : j < p + 1}
<1>1. S \subseteq 1 .. Len(s) /\ S \subseteq Nat /\ IsFiniteSet(S)
    BY StartsAre
<1>2. from \in S /\ p < from /\ from <= to /\ \A j \in S : (j <= p \/ from <= j) /\ (j <= from \/ to + 1 < j)
    BY DEF NextAt
<1>3. IsFiniteSet(A) /\ Cardinality(A) \in Nat
    <2>1. A \in SUBSET S
        OBVIOUS
    <2> HIDE DEF A, S
    <2> QED
        BY <1>1, <2>1, FS_Subset, FS_CardinalityType
<1>4. from \notin A
    BY <1>2
<1>5. Cardinality(A \cup {from}) = Cardinality(A) + 1
    <2> HIDE DEF A
    <2> QED
        BY <1>3, <1>4, FS_AddElement
<1> HIDE DEF S
<1>6. {j \in S : j < from} = A
    <2>1. ASSUME NEW j \in S PROVE j < from <=> j < p + 1
        <3>1. j \in Nat
            BY <1>1
        <3> QED
            BY <1>2, <3>1
    <2> QED
        BY <2>1
<1>7. ASSUME NEW j \in S PROVE (j < to + 2 <=> j < p + 1 \/ j = from)
    <2>1. j \in Nat
        BY <1>1
    <2> QED
        BY <1>2, <2>1
<1>8. {j \in S : j < to + 2} = A \cup {from}
    BY <1>2, <1>7
<1>9. ASSUME to = Len(s) PROVE S = A \cup {from}
    <2>1. ASSUME NEW j \in S PROVE j < to + 2
        BY <1>1, <1>9
    <2> QED
        BY <1>2, <1>7, <2>1
<1> QED
    BY <1>3, <1>5, <1>6, <1>8, <1>9 DEF S, WordsBefore

(* b, with a NUL behind a word that ends at to. *)
CutOff(s, b, to, c) == c = IF to = Len(s) THEN b ELSE [b EXCEPT ![to] = Nul]

(* memcpy behind the token takes the word, the NUL behind it and the rest  *)
(* of the line.                                                            *)
LEMMA CutIs ==
    ASSUME NEW s \in Seq(Chars), Len(s) \in Bytes, NEW b \in [UserBytes -> Chars], NEW p \in Bytes,
           Uncut(s, b, p), NEW from \in 1 .. Len(s), NEW to \in 1 .. Len(s),
           NextAt(s, p, from, to),
           NEW c, CutOff(s, b, to, c)
    PROVE  IsCopy(WordAt(c, from - 1), s, from, to)
<1>1. p < from /\ from <= to /\ to <= Len(s) /\ Len(s) \in Nat /\ p \in Nat /\ Len(s) < BufferSize
    BY Sizes DEF NextAt, Bytes
<1>2. ASSUME NEW j \in 0 .. WordMax, j < WordMax, NEW i, i = from - 1 + j
      PROVE  /\ from + j = to + 1 \/ (from + j > Len(s) /\ from + j <= BufferSize) => c[i] = Nul
             /\ from + j # to + 1 /\ from + j <= Len(s) => c[i] = s[from + j]
    <2>1. i \in Nat /\ p <= i /\ i + 1 = from + j /\ (i \in Bytes <=> i < BufferSize)
        BY <1>1, <1>2, Sizes, ConsoleAssumption DEF Bytes
    <2>2. (i = to <=> from + j = to + 1) /\ (i < Len(s) <=> from + j <= Len(s))
          /\ (i \in Bytes <=> from + j <= BufferSize)
        BY <1>1, <1>2, <2>1, Sizes
    <2>3. i \in Bytes => b[i] = IF i < Len(s) THEN s[from + j] ELSE Nul
        BY <2>1 DEF Uncut
    <2>4. i \in Bytes => c[i] = IF i = to THEN Nul ELSE b[i]
        BY <1>1, <2>3, UserSizes DEF CutOff
    <2>5. (i < Len(s) \/ i = to) => i \in Bytes
        BY <1>1, <2>1, Sizes
    <2> QED
        BY <1>1, <2>1, <2>2, <2>3, <2>4, <2>5, Sizes
<1>3. ASSUME NEW j \in 0 .. WordMax, j < WordMax
      PROVE  /\ from + j = to + 1 \/ (from + j > Len(s) /\ from + j <= BufferSize)
                 => c[from - 1 + j] = Nul
             /\ from + j # to + 1 /\ from + j <= Len(s) => c[from - 1 + j] = s[from + j]
    BY <1>2, <1>3
<1>4. ASSUME NEW j \in 0 .. WordMax
      PROVE  WordAt(c, from - 1)[j] = IF j < WordMax THEN c[from - 1 + j] ELSE Nul
    BY DEF WordAt
<1>5. \A j \in 0 .. WordMax : ~(j < WordMax) <=> j = WordMax
    BY ConsoleAssumption
<1> QED
    BY <1>3, <1>4, <1>5 DEF IsCopy

LEMMA NewWord ==
    ASSUME TypeOK, NEW s \in Seq(Chars), Len(s) \in Bytes, \A i \in 1 .. Len(s) : s[i] # Nul,
           pc = "parse", NextWord, pc' = "parse", Ahead(s), Copied(s)
    PROVE  Ahead(s)' /\ Copied(s)'
<1> PICK p, b : p = lasts /\ b = buf
    OBVIOUS
<1> PICK r : r = StrTok(b, p)
    OBVIOUS
<1>1. /\ r.tok # None /\ args # WordsMax /\ buf' = r.s /\ lasts' = r.lasts /\ args' = args + 1
      /\ command' = [command EXCEPT ![args + 1] = WordAt(r.s, r.tok)]
    BY DEF NextWord
<1>2. lasts # None
    BY <1>1 DEF StrTok
<1>3. lasts \in Bytes /\ p \in Bytes /\ p \in Nat /\ args \in Nat /\ args + 1 \in 1 .. WordsMax
      /\ b \in [UserBytes -> Chars] /\ command \in [1 .. WordsMax -> [0 .. WordMax -> Chars]]
    BY <1>1, <1>2, ConsoleAssumption DEF TypeOK, Bytes
<1>4. Uncut(s, b, p) /\ WordsBefore(s, p + 1) = args
    BY <1>2 DEF Ahead, Uncut
<1>5. PICK from, to \in 1 .. Len(s) :
          /\ NextAt(s, p, from, to) /\ r.tok = from - 1
          /\ IF to = Len(s) THEN r.lasts = None /\ r.s = b
             ELSE r.lasts = to + 1 /\ r.s = [b EXCEPT ![to] = Nul]
    <2>1. TokenAt(s, b, p, r)
        BY <1>3, <1>4, StrTokIs
    <2> QED
        BY <1>1, <2>1 DEF TokenAt
<1>6. from \in Nat /\ to \in Nat /\ Len(s) \in Nat /\ from <= to /\ to <= Len(s) /\ 1 <= from
      /\ p < from /\ Len(s) < BufferSize /\ BufferSize \in Nat
    BY <1>5, Sizes DEF NextAt, Bytes
<1>7. /\ WordsBefore(s, from) = args /\ WordsBefore(s, to + 2) = args + 1
      /\ to = Len(s) => Cardinality(Line!Starts(s)) = args + 1
    BY <1>3, <1>4, <1>5, <1>6, NextCount
<1>8. IsCopy(WordAt(r.s, r.tok), s, from, to)
    <2> PICK c : c = r.s
        OBVIOUS
    <2>1. CutOff(s, b, to, c)
        BY <1>5 DEF CutOff
    <2>2. IsCopy(WordAt(c, from - 1), s, from, to)
        <3>1. NextAt(s, p, from, to) /\ from \in 1 .. Len(s) /\ to \in 1 .. Len(s)
            BY <1>5
        <3> QED
            BY <1>3, <1>4, <2>1, <3>1, CutIs
    <2> QED
        BY <1>5, <2>2
<1>9. IsWord(s, args + 1, from, to)
    BY <1>3, <1>5, <1>6, <1>7 DEF IsWord, NextAt
<1>10. Copied(s)'
    <2>1. ASSUME NEW k \in 1 .. args'
          PROVE  \E f, t \in 1 .. Len(s) : IsWord(s, k, f, t) /\ IsCopy(command'[k], s, f, t)
        <3>1. CASE k = args + 1
            BY <1>1, <1>3, <1>5, <1>8, <1>9, <3>1
        <3>2. CASE k # args + 1
            <4>1. k \in 1 .. args /\ k \in 1 .. WordsMax
                BY <1>1, <1>3, <2>1, <3>2, ConsoleAssumption
            <4>2. command'[k] = command[k]
                BY <1>1, <1>3, <3>2, <4>1
            <4> QED
                BY <4>1, <4>2 DEF Copied
        <3> QED
            BY <3>1, <3>2
    <2> QED
        BY <2>1 DEF Copied, IsCopy, IsWord
<1>11. CASE to = Len(s)
    BY <1>1, <1>5, <1>7, <1>10, <1>11 DEF Ahead
<1>12. CASE to # Len(s)
    <2>1. lasts' = to + 1 /\ lasts' + 1 = to + 2 /\ buf' = [b EXCEPT ![to] = Nul] /\ lasts' # None
        BY <1>1, <1>5, <1>6, <1>12 DEF None
    <2>2. to + 1 <= Len(s) /\ s[to + 1] = Space
        BY <1>5, <1>6, <1>12 DEF NextAt
    <2>3. ASSUME NEW i \in Bytes, i >= to + 1
          PROVE  buf'[i] = IF i < Len(s) THEN s[i + 1] ELSE Nul
        <3>1. i # to /\ i >= p
            BY <1>3, <1>6, <2>3 DEF Bytes
        <3> QED
            BY <1>3, <1>4, <2>1, <3>1, UserSizes DEF Uncut
    <2> QED
        BY <1>1, <1>7, <1>10, <2>1, <2>2, <2>3 DEF Ahead
<1> QED
    BY <1>11, <1>12

(* At the end of the loop all words are there, or as many as there can be. *)
LEMMA LastWord ==
    ASSUME TypeOK, NEW s \in Seq(Chars), Len(s) \in Bytes, \A i \in 1 .. Len(s) : s[i] # Nul,
           pc = "parse", NextWord, pc' # "parse", Ahead(s), NEW all, all = Cardinality(Line!Starts(s))
    PROVE  args = IF all < WordsMax THEN all ELSE WordsMax
<1> DEFINE S == Line!Starts(s)
           A == {j \in S : j < lasts + 1}
<1> PICK p, b : p = lasts /\ b = buf
    OBVIOUS
<1> PICK r : r = StrTok(b, p)
    OBVIOUS
<1>1. r.tok = None \/ args = WordsMax
    BY DEF NextWord
<1>2. S \subseteq Nat /\ IsFiniteSet(S) /\ all \in Nat
    BY StartsAre
<1>3. args \in Nat /\ args <= WordsMax /\ WordsMax \in Nat /\ b \in [UserBytes -> Chars]
    BY ConsoleAssumption DEF TypeOK
<1>4. CASE lasts = None
    BY <1>2, <1>3, <1>4 DEF Ahead
<1>5. CASE lasts # None
    <2>1. p \in Bytes /\ p \in Nat
        BY <1>5 DEF TypeOK, Bytes
    <2>2. Uncut(s, b, p) /\ Cardinality(A) = args
        BY <1>5 DEF Ahead, Uncut, WordsBefore
    <2>3. A \in SUBSET S
        OBVIOUS
    <2>4. Cardinality(A) <= all
        <3> HIDE DEF A
        <3> QED
            BY <1>2, <2>3, FS_Subset
    <2>5. ASSUME r.tok = None PROVE A = S
        <3>1. \A j \in S : j <= p
            <4>1. TokenAt(s, b, p, r)
                BY <1>3, <2>1, <2>2, StrTokIs
            <4>2. \A from \in 1 .. Len(s) : from - 1 # None
                BY DEF None
            <4> QED
                BY <2>5, <4>1, <4>2 DEF TokenAt
        <3>2. \A j \in S : j < lasts + 1
            <4> HIDE DEF S
            <4> QED
                BY <1>2, <2>1, <3>1
        <3> QED
            BY <3>2
    <2> HIDE DEF A, S
    <2> QED
        BY <1>1, <1>2, <1>3, <2>2, <2>4, <2>5 DEF S
<1> QED
    BY <1>4, <1>5

LEMMA LineParts ==
    ASSUME TypeOK, \E i \in Bytes : keys[i] = Nul
    PROVE  /\ TypedLine \in Seq(Chars) /\ Len(TypedLine) \in Bytes
           /\ Len(TypedLine) = Min({i \in Bytes : keys[i] = Nul})
           /\ \A i \in 1 .. Len(TypedLine) : TypedLine[i] = keys[i - 1] /\ TypedLine[i] # Nul
<1> PICK n \in Bytes :
        /\ n = Min({i \in Bytes : keys[i] = Nul}) /\ keys[n] = Nul
        /\ \A i \in Bytes : i < n => keys[i] # Nul
        /\ TypedLine = [j \in 1 .. n |-> keys[j - 1]]
        /\ TypedLine \in Seq(Chars) /\ Len(TypedLine) = n
    BY LineIs
<1>1. ASSUME NEW i \in 1 .. n PROVE i - 1 \in Bytes /\ i - 1 < n
    BY Sizes DEF Bytes
<1> QED
    BY <1>1

(* The call copies the line, and strparse begins in front of it. *)
LEMMA CopyAhead ==
    ASSUME TypeOK, CallInv, CopyLine
    PROVE  WordsInv'
<1> PICK s : s = TypedLine
    OBVIOUS
<1>1. pc = "copy" /\ pc' = "parse" /\ kbd' = kbd /\ lasts' = 0 /\ args' = args /\ args = 0
    BY DEF CopyLine, CallInv
<1>2. s \in Seq(Chars) /\ Len(s) \in Bytes /\ length = Len(s)
      /\ \A i \in 1 .. Len(s) : s[i] = keys[i - 1]
    BY <1>1, LineParts DEF CallInv
<1>3. TypedLine' = s
    BY <1>1, LineSame DEF kbd
<1>4. WordsBefore(s, 1) = 0
    <2>1. {j \in Line!Starts(s) : j < 1} = {}
        BY <1>2, StartsAre
    <2> QED
        BY <2>1, FS_EmptySet DEF WordsBefore
<1>5. ASSUME NEW i \in Bytes PROVE buf'[i] = IF i < Len(s) THEN s[i + 1] ELSE Nul
    <2>1. buf'[i] = IF i < Len(s) THEN keys[i] ELSE Nul
        <3> PICK behind \in [UserBytes \ Bytes -> Stack] :
                buf' = [x \in UserBytes |-> IF x < length THEN keys[x]
                                           ELSE IF x \in Bytes THEN Nul ELSE behind[x]]
            BY DEF CopyLine
        <3> QED
            BY <1>2, UserSizes
    <2>2. i < Len(s) => s[i + 1] = keys[i]
        <3> SUFFICES ASSUME NEW k, k = i + 1, i < Len(s) PROVE s[k] = keys[i]
            OBVIOUS
        <3>1. k \in 1 .. Len(s) /\ k - 1 = i
            BY <1>2 DEF Bytes
        <3> QED
            BY <1>2, <3>1
    <2> QED
        BY <2>1, <2>2
<1>6. Len(s) \in Nat /\ 0 # None
    BY <1>2 DEF None
<1>7. Ahead(s)'
    BY <1>1, <1>4, <1>5, <1>6 DEF Ahead
<1>8. Copied(s)'
    BY <1>1 DEF Copied
<1> QED
    BY <1>1, <1>3, <1>7, <1>8 DEF WordsInv, Ahead, Copied

LEMMA WordsStep ==
    ASSUME TypeOK, CallInv, WordsInv, [Next]_vars
    PROVE  WordsInv'
<1> PICK s : s = TypedLine
    OBVIOUS
<1>1. ASSUME keys' = keys, UNCHANGED <<pc, buf, lasts, command, args>>
      PROVE  WordsInv'
    <2>1. TypedLine' = TypedLine
        BY <1>1, LineSame
    <2> QED
        BY <1>1, <2>1 DEF WordsInv, Ahead, Copied
<1>2. CASE KeyboardIsr
    <2>1. UNCHANGED <<pc, buf, lasts, command, args>>
        BY <1>2 DEF KeyboardIsr, user
    <2>2. CASE on
        BY <2>1, <2>2 DEF CallInv, WordsInv
    <2>3. CASE ~on
        BY <1>1, <1>2, <2>1, <2>3 DEF KeyboardIsr, NotListening, Ignored
    <2> QED
        BY <2>2, <2>3
<1>3. CASE Activate \/ Sti \/ Awake \/ Strlen \/ Prompt
    BY <1>3 DEF Activate, Sti, Awake, Strlen, Prompt, WordsInv
<1>4. CASE CopyLine
    BY <1>4, CopyAhead
<1>5. CASE NextWord
    <2>1. pc = "parse" /\ keys' = keys
        BY <1>5 DEF NextWord, kbd
    <2>2. TypedLine' = s
        BY <2>1, LineSame
    <2>3. s \in Seq(Chars) /\ Len(s) \in Bytes /\ \A i \in 1 .. Len(s) : s[i] # Nul
        BY <2>1, LineParts DEF CallInv
    <2>4. Ahead(s) /\ Copied(s)
        BY <2>1 DEF WordsInv
    <2>5. CASE pc' = "parse"
        <3>1. Ahead(s)' /\ Copied(s)'
            BY <1>5, <2>1, <2>3, <2>4, <2>5, NewWord
        <3> QED
            BY <2>2, <2>5, <3>1 DEF WordsInv, Ahead, Copied
    <2>6. CASE pc' # "parse"
        <3>1. args = IF Cardinality(Line!Starts(s)) < WordsMax
                     THEN Cardinality(Line!Starts(s)) ELSE WordsMax
            BY <1>5, <2>1, <2>3, <2>4, <2>6, LastWord
        <3>2. args' = args /\ command' = command
            BY <1>5, <2>6 DEF NextWord
        <3> QED
            BY <2>2, <2>4, <2>6, <3>1, <3>2 DEF WordsInv, Copied
    <2> QED
        BY <2>5, <2>6
<1>6. CASE Reply \/ ClearScreen \/ StartClock
    BY <1>6 DEF Reply, ClearScreen, StartClock, WordsInv
<1>7. CASE ShowClock
    BY <1>7 DEF ShowClock, WordsInv
<1>8. ASSUME NEW k \in Keys, Press(k) PROVE WordsInv'
    BY <1>1, <1>8 DEF Press, kbd, user
<1>9. CASE UNCHANGED vars
    BY <1>1, <1>9 DEF vars
<1> QED
    BY <1>2, <1>3, <1>4, <1>5, <1>6, <1>7, <1>8, <1>9 DEF Next, SystemCall4, Run

LEMMA WordsHold == Spec => [](CallInv /\ WordsInv)
<1>1. Init => CallInv /\ WordsInv
    BY CallInit DEF Init, WordsInv
<1>2. TypeOK /\ CallInv /\ WordsInv /\ [Next]_vars => (CallInv /\ WordsInv)'
    BY CallStep, WordsStep
<1> QED
    BY <1>1, <1>2, ConsoleTypeCorrect, PTL DEF Spec

(* Wherever an interrupt comes between two turns of strparse, what it has  *)
(* copied are the first words of the line, and it misses none.             *)
THEOREM WordsInvCorrect == Spec => []WordsInv
    BY WordsHold, PTL

-----------------------------------------------------------------------------
(* The bytes behind a word *)

(* Behind the last word are only spaces. *)
LEMMA TailIs ==
    ASSUME NEW s \in Seq(Chars), NEW k \in Nat, NEW from \in Nat, NEW to \in Nat,
           IsWord(s, k, from, to), Cardinality(Line!Starts(s)) = k
    PROVE  \A i \in to + 1 .. Len(s) : s[i] = Space
<1> DEFINE B == {i \in to + 1 .. Len(s) : s[i] # Space}
           S == Line!Starts(s)
<1>1. Len(s) \in Nat /\ from <= to /\ from \in S /\ (to = Len(s) \/ s[to + 1] = Space)
    BY DEF IsWord
<1>2. S \subseteq Nat /\ IsFiniteSet(S)
    BY StartsAre
<1>3. ASSUME B # {} PROVE FALSE
    <2>1. B \subseteq Nat
        OBVIOUS
    <2> PICK x : x = Min(B)
        OBVIOUS
    <2>2. x \in B /\ \A y \in B : x <= y
        <3> HIDE DEF B
        <3> QED
            BY <1>3, <2>1, LeastIs
    <2>3. x \in to + 1 .. Len(s) /\ s[x] # Space /\ x # to + 1
        BY <1>1, <2>2
    <2>4. x - 1 \in to + 1 .. Len(s) /\ ~(x <= x - 1)
        BY <1>1, <2>3
    <2>5. s[x - 1] = Space
        BY <2>2, <2>4
    <2>6. x \in S /\ x \in Nat /\ from < x
        BY <1>1, <2>3, <2>5 DEF Line!Starts
    <2> HIDE DEF S
    <2>7. Cardinality(Before(S, from)) + 1 <= Cardinality(Before(S, x))
          /\ Cardinality(Before(S, x)) \in Nat
        BY <1>1, <1>2, <2>6, StartsBefore
    <2>8. Cardinality(Before(S, x)) + 1 <= Cardinality(S)
        <3>1. x + 1 \in Nat /\ x < x + 1
            BY <2>6
        <3> QED
            BY <1>2, <2>6, <3>1, StartsBefore
    <2>9. Cardinality(Before(S, from)) = k - 1 /\ Cardinality(S) = k
        BY DEF IsWord, WordsBefore, Before, S
    <2> QED
        BY <2>7, <2>8, <2>9
<1> QED
    BY <1>3

(* The bytes that mkdir and cp take for the name are the last word and     *)
(* NULs, whatever the kernel's stack holds behind its buffer, for every    *)
(* line with at most one space behind the word whose word does not begin   *)
(* in the last bytes of that buffer: where a name has at most as many      *)
(* bytes as strparse copies (8 and 127).                                   *)
THEOREM NameIsWordCorrect ==
    ASSUME NameMax <= WordMax
    PROVE  Spec => []NameIsWord
<1>1. ASSUME TypeOK, CallInv, WordsInv PROVE NameIsWord
    <2> PICK s, a : s = TypedLine /\ a = args
        OBVIOUS
    <2> PICK word : word = Line!Words(s)[a]
        OBVIOUS
    <2> SUFFICES ASSUME pc = "run", Cardinality(Line!Starts(s)) = a, Len(word) <= NameMax,
                        ~(Len(s) > 1 /\ s[Len(s)] = Space /\ s[Len(s) - 1] = Space),
                        \A i \in Line!Starts(s) : i - 1 + NameMax <= BufferSize,
                        NEW j \in 0 .. NameMax - 1
                 PROVE  command[a][j] = IF j < Len(word) THEN word[j + 1] ELSE Nul
        BY DEF NameIsWord, TypedLine
    <2>1. s \in Seq(Chars) /\ Len(s) \in Nat
        BY <1>1, LineParts DEF CallInv
    <2>2. a \in Nat \ {0} /\ a <= WordsMax /\ WordMax \in Nat /\ NameMax \in Nat
        BY <1>1, ConsoleAssumption DEF TypeOK, CallInv
    <2>3. PICK from, to \in 1 .. Len(s) : IsWord(s, a, from, to) /\ IsCopy(command[a], s, from, to)
        BY <1>1, <2>2 DEF WordsInv, Copied
    <2>4. from \in Nat /\ to \in Nat /\ from <= to /\ to <= Len(s)
        BY <2>1, <2>3
           DEF IsWord
    <2> PICK m : m = Shown(from, to)
        OBVIOUS
    <2>5. m \in 0 .. WordMax /\ m <= to - from + 1 /\ (m = WordMax \/ m = to - from + 1)
        BY <2>1, <2>3, <2>4, ShownIs
    <2>6. word = [i \in 1 .. m |-> s[from + i - 1]] /\ Len(word) = m
        <3>1. word = [i \in 1 .. m |-> s[from + i - 1]]
            BY <2>1, <2>2, <2>3, <2>4, WordIs
        <3> QED
            BY <2>5, <3>1
    <2>7. command[a][j] = IF from + j # to + 1 /\ from + j <= Len(s) THEN s[from + j] ELSE Nul
        <3>1. j \in 0 .. WordMax /\ j < WordMax
            BY <2>2
        <3>2. from - 1 + NameMax <= BufferSize
            BY <2>3 DEF IsWord
        <3>3. from + j <= BufferSize
            BY <2>2, <2>4, <3>2, Sizes
        <3> QED
            BY <2>1, <2>3, <2>4, <3>1, <3>3 DEF IsCopy
    <2>8. CASE j < m
        <3>1. word[j + 1] = s[from + j]
            BY <2>4, <2>5, <2>6, <2>8
        <3>2. from + j # to + 1 /\ from + j <= Len(s)
            BY <2>1, <2>2, <2>4, <2>5, <2>8
        <3> QED
            BY <2>6, <2>7, <2>8, <3>1, <3>2
    <2>9. CASE ~(j < m)
        <3>1. m = to - from + 1
            BY <2>2, <2>5, <2>9
        <3>2. Len(s) <= to + 1
            <4>1. \A i \in to + 1 .. Len(s) : s[i] = Space
                BY <2>1, <2>2, <2>3, <2>4, TailIs
            <4>2. ASSUME to + 1 < Len(s) PROVE FALSE
                <5>1. Len(s) \in to + 1 .. Len(s) /\ Len(s) - 1 \in to + 1 .. Len(s) /\ Len(s) > 1
                    BY <2>1, <2>4, <4>2
                <5> QED
                    BY <4>1, <5>1
            <4> QED
                BY <2>1, <2>4, <4>2
        <3>3. ~(from + j # to + 1 /\ from + j <= Len(s))
            BY <2>1, <2>2, <2>4, <2>9, <3>1, <3>2
        <3> QED
            BY <2>6, <2>7, <2>9, <3>3
    <2> QED
        BY <2>8, <2>9
<1> QED
    BY <1>1, ConsoleTypeCorrect, WordsHold, PTL

-----------------------------------------------------------------------------
(* The terminal *)

LEMMA PhaseIs ==
    /\ Phase = "typing" <=> InCall /\ ~long
    /\ Phase = "entered" <=> Entered
    /\ Phase = "lost" <=> Lost
    /\ Phase \in {"typing", "entered", "lost", "busy"}
    BY DEF Phase, Lost, Entered, InCall

LEMMA OnLineIs ==
    /\ Phase = "typing" => OnLine = [i \in 1 .. index |-> keys[i - 1]]
    /\ Phase = "entered" => OnLine = TypedLine
    /\ Phase \in {"busy", "lost"} => OnLine = <<>>
    BY DEF OnLine, TypedLine

LEMMA OnLineSame ==
    Phase' = Phase /\ keys' = keys /\ index' = index => OnLine' = OnLine
    BY LineSame DEF OnLine, TypedLine

LEMMA NoneTaken ==
    ASSUME NEW w, NEW a, a = 0
    PROVE  [i \in 1 .. a |-> String(w[i], WordMax)] = <<>>
<1>1. 1 .. a = {}
    OBVIOUS
<1> QED
    BY <1>1

LEMMA TakenSame ==
    UNCHANGED <<pc, command, args>> => Taken' = Taken
    BY DEF Taken, String

(* What is before the cursor, as a sequence. *)
LEMMA Prefix ==
    ASSUME NEW f \in [Bytes -> Chars], NEW n \in Bytes, NEW s, s = [i \in 1 .. n |-> f[i - 1]]
    PROVE  n \in Nat /\ s \in Seq(Chars) /\ Len(s) = n /\ \A i \in 1 .. n : s[i] = f[i - 1]
<1>1. n \in Nat /\ \A i \in 1 .. n : i - 1 \in Bytes
    BY Sizes DEF Bytes
<1>2. \A i \in 1 .. n : f[i - 1] \in Chars
    BY <1>1
<1> QED
    BY <1>1, <1>2

LEMMA TerminalInit == Init => Line!Init
<1> SUFFICES ASSUME Init PROVE Line!Init
    OBVIOUS
<1>1. Phase = "busy"
    BY DEF Init, Phase, Lost, InCall, Entered
<1>2. Taken = <<>>
    BY NoneTaken DEF Init, Taken
<1> QED
    BY <1>1, <1>2, OnLineIs DEF Line!Init

(* A key while the shell waits for its line. *)
LEMMA TerminalKey ==
    ASSUME TypeOK, CallInv, on, pc = "spin", ~long, UNCHANGED <<pc, command, args>>,
           NEW c \in Chars, Listening(c)
    PROVE  Line!Next \/ UNCHANGED Line!vars
<1>1. Phase = "typing" /\ Taken' = Taken
    BY PhaseIs, TakenSame DEF InCall
<1> PICK s, t : s = OnLine /\ t = OnLine'
    OBVIOUS
<1>2. s = [i \in 1 .. index |-> keys[i - 1]] /\ index \in Bytes /\ keys \in [Bytes -> Chars]
    BY <1>1, OnLineIs DEF TypeOK
<1>3. index \in Nat /\ s \in Seq(Chars) /\ Len(s) = index /\ \A i \in 1 .. index : s[i] = keys[i - 1]
    BY <1>2, Prefix
<1>4. index < BufferSize
    BY <1>2, Sizes DEF Bytes
<1>5. Phase' = "typing" => t = [i \in 1 .. index' |-> keys'[i - 1]]
    BY DEF OnLine
<1>6. on' /\ ~long' => Phase' = "typing"
    BY DEF Phase, Lost, InCall
<1>7. CASE NoCharacter(c)
    <2>1. Phase' = Phase /\ keys' = keys /\ index' = index
        BY <1>1, <1>6, <1>7 DEF NoCharacter, Ignored
    <2> QED
        BY <1>1, <2>1, OnLineSame DEF Line!vars
<1>8. CASE EraseChar(c)
    <2>1. Phase' = "typing"
        BY <1>6, <1>8 DEF EraseChar
    <2>2. CASE index = 0
        <3>1. keys' = keys /\ index' = index
            BY <1>8, <2>2 DEF EraseChar
        <3> QED
            BY <1>1, <2>1, <3>1, OnLineSame DEF Line!vars
    <2>3. CASE index # 0
        <3>1. index' = index - 1 /\ keys' = [keys EXCEPT ![index - 1] = Nul]
            BY <1>8, <2>3 DEF EraseChar
        <3> PICK f, n : f = keys' /\ n = index'
            OBVIOUS
        <3>2. n \in Bytes /\ f \in [Bytes -> Chars] /\ n = index - 1
            BY <1>2, <2>3, <3>1, Sizes, Characters DEF Bytes
        <3>3. n \in Nat /\ t \in Seq(Chars) /\ Len(t) = n /\ \A i \in 1 .. n : t[i] = f[i - 1]
            BY <1>5, <2>1, <3>2, Prefix
        <3>4. ASSUME NEW i \in 1 .. n PROVE t[i] = s[i]
            <4>1. i - 1 \in Bytes /\ i - 1 # index - 1 /\ i \in 1 .. index
                BY <1>3, <1>4, <3>2, Sizes DEF Bytes
            <4>2. f[i - 1] = keys[i - 1]
                BY <1>2, <3>1, <4>1
            <4> QED
                BY <1>3, <3>3, <4>1, <4>2
        <3>5. t = SubSeq(s, 1, Len(s) - 1)
            BY <1>3, <3>2, <3>3, <3>4
        <3>6. s # <<>>
            BY <1>3, <2>3
        <3> QED
            BY <1>1, <2>1, <3>5, <3>6 DEF Line!Next, Line!Erase, Line!Front
    <2> QED
        BY <2>2, <2>3
<1>9. CASE EndLine(c)
    <2>1. on' = FALSE /\ long' = long /\ keys' = keys
        BY <1>9 DEF EndLine
    <2>2. Phase' = "entered"
        BY <2>1 DEF Phase, Lost, InCall, Entered
    <2>3. TypedLine = s
        <3>1. \A j \in 0 .. BufferSize - 1 : j < index => keys[j] # Nul
            BY <1>3 DEF CallInv, InCall, Bytes
        <3>2. keys[index] = Nul
            BY <1>2, <1>3 DEF CallInv, InCall
        <3>3. index \in 0 .. BufferSize - 1 + 1 /\ BufferSize - 1 \in Nat
            BY <1>3, <1>4, Sizes
        <3> QED
            BY <1>2, <3>1, <3>2, <3>3, StringIs DEF TypedLine
    <2>4. OnLine' = TypedLine'
        BY <2>2 DEF OnLine, TypedLine
    <2> QED
        BY <1>1, <2>1, <2>2, <2>3, <2>4, LineSame DEF Line!Next, Line!Enter
<1>10. CASE AddChar(c)
    <2>1. /\ c \in Letters \cup {Space} /\ keys' = [keys EXCEPT ![index] = c]
          /\ index' = (index + 1) % BufferSize /\ on' = on
          /\ long' = (long \/ index = BufferSize - 1)
        BY <1>10 DEF AddChar, Typed
    <2>2. CASE index = BufferSize - 1
        <3>1. Phase' = "lost"
            BY <2>1, <2>2 DEF Phase, Lost, InCall
        <3>2. OnLine' = <<>>
            BY <3>1 DEF OnLine
        <3> QED
            BY <1>1, <1>3, <2>2, <3>1, <3>2 DEF Line!Next, Line!Lose
    <2>3. CASE index # BufferSize - 1
        <3>1. Phase' = "typing"
            BY <1>6, <2>1, <2>3
        <3> PICK f, n : f = keys' /\ n = index'
            OBVIOUS
        <3>2. n = index + 1 /\ n \in Bytes /\ f \in [Bytes -> Chars]
            <4>1. index + 1 < BufferSize /\ index + 1 \in Nat
                BY <1>3, <1>4, <2>3, Sizes
            <4>2. (index + 1) % BufferSize = index + 1
                BY <4>1, Sizes
            <4> QED
                BY <1>2, <2>1, <4>1, <4>2, Sizes, Characters DEF Bytes
        <3>3. n \in Nat /\ t \in Seq(Chars) /\ Len(t) = n /\ \A i \in 1 .. n : t[i] = f[i - 1]
            BY <1>5, <3>1, <3>2, Prefix
        <3>4. ASSUME NEW i \in 1 .. n PROVE t[i] = IF i = n THEN c ELSE s[i]
            <4>1. i - 1 \in Bytes /\ (i = n <=> i - 1 = index) /\ (i # n => i \in 1 .. index)
                BY <1>3, <1>4, <3>2, Sizes DEF Bytes
            <4>2. f[i - 1] = IF i - 1 = index THEN c ELSE keys[i - 1]
                BY <1>2, <2>1, <4>1
            <4> QED
                BY <1>3, <3>3, <4>1, <4>2
        <3>5. t = Append(s, c)
            BY <1>3, <3>2, <3>3, <3>4
        <3>6. Len(s) < BufferSize - 1
            BY <1>3, <1>4, <2>3, Sizes
        <3> QED
            BY <1>1, <2>1, <3>1, <3>5, <3>6 DEF Line!Next, Line!Type
    <2> QED
        BY <2>2, <2>3
<1> QED
    BY <1>7, <1>8, <1>9, <1>10 DEF Listening

(* strparse gives the shell the words of the line. *)
LEMMA TerminalReturn ==
    ASSUME TypeOK, CallInv, WordsInv, NextWord, pc' # "parse"
    PROVE  Line!Next
<1> PICK s : s = TypedLine
    OBVIOUS
<1>1. /\ pc = "parse" /\ pc' \in {"prompt", "run"} /\ UNCHANGED <<on, long, keys, index>>
      /\ args' = args /\ command' = command
    BY DEF NextWord, kbd
<1>2. Phase \in {"entered", "lost"} /\ (Phase = "entered" => OnLine = s)
    BY <1>1, OnLineIs DEF Phase, Lost, InCall, Entered
<1>3. Phase' = "busy" /\ OnLine' = <<>>
    BY <1>1 DEF Phase, OnLine, Lost, InCall, Entered
<1>4. s \in Seq(Chars) /\ Len(s) \in Bytes /\ \A i \in 1 .. Len(s) : s[i] # Nul
    BY <1>1, LineParts DEF CallInv
<1>5. Ahead(s) /\ Copied(s)
    BY <1>1 DEF WordsInv
<1>6. args = IF Cardinality(Line!Starts(s)) < WordsMax
             THEN Cardinality(Line!Starts(s)) ELSE WordsMax
    BY <1>1, <1>4, <1>5, LastWord
<1> PICK w : w = Line!Words(s)
    OBVIOUS
<1>7. w = [n \in 1 .. args |-> w[n]]
    <2> DEFINE starts == Line!Starts(s)
               Smaller(x, y) == IF x < y THEN x ELSE y
               Start(n) == CHOOSE i \in starts : Line!Cardinality({j \in starts : j < i}) = n - 1
               WordFrom(i) == SubSeq(s, i, CHOOSE j \in i .. Len(s) :
                                     /\ \A h \in i .. j : s[h] # Space
                                     /\ j = Len(s) \/ s[j + 1] = Space)
               Word(n) == SubSeq(WordFrom(Start(n)), 1, Smaller(Len(WordFrom(Start(n))), WordMax))
    <2>1. w = [n \in 1 .. Smaller(Line!Cardinality(starts), WordsMax) |-> Word(n)]
        BY DEF Line!Words
    <2>2. Smaller(Line!Cardinality(starts), WordsMax) = args
        BY <1>6, SameCount
    <2> HIDE DEF starts, Smaller, Word
    <2> QED
        BY <2>1, <2>2
<1>8. ASSUME NEW n \in 1 .. args PROVE String(command[n], WordMax) = w[n]
    <2>1. n \in Nat \ {0} /\ n <= WordsMax
        BY <1>8, ConsoleAssumption DEF TypeOK
    <2>2. PICK from, to \in 1 .. Len(s) : IsWord(s, n, from, to) /\ IsCopy(command[n], s, from, to)
        BY <1>5 DEF Copied
    <2>3. from \in Nat /\ to \in Nat
        OBVIOUS
    <2>4. w[n] = ShownWord(s, from, to)
        BY <1>4, <2>1, <2>2, <2>3, WordIs DEF ShownWord
    <2>5. String(command[n], WordMax) = ShownWord(s, from, to)
        <3> PICK u : u = command[n]
            OBVIOUS
        <3>1. IsWord(s, n, from, to) /\ IsCopy(u, s, from, to)
            BY <2>2
        <3>2. String(u, WordMax) = ShownWord(s, from, to)
            BY <1>4, <2>3, <3>1, CopiedIs
        <3> QED
            BY <3>2
    <2> QED
        BY <2>2, <2>4, <2>5
<1>9. Taken' = [n \in 1 .. args |-> String(command[n], WordMax)]
    BY <1>1 DEF Taken, String
<1>10. Taken' = w
    <2>1. [n \in 1 .. args |-> String(command[n], WordMax)] = [n \in 1 .. args |-> w[n]]
        BY <1>8
    <2> QED
        BY <1>7, <1>9, <2>1
<1> QED
    BY <1>2, <1>3, <1>10 DEF Line!Next, Line!Return

LEMMA TerminalStep ==
    ASSUME TypeOK, CallInv, WordsInv, [Next]_vars
    PROVE  [Line!Next]_Line!vars
<1> SUFFICES Line!Next \/ UNCHANGED Line!vars
    OBVIOUS
<1>1. ASSUME Phase' = Phase, Phase # "typing", keys' = keys, Taken' = Taken
      PROVE  UNCHANGED Line!vars
    BY <1>1, LineSame DEF Line!vars, OnLine, TypedLine
<1>2. CASE KeyboardIsr
    <2>1. UNCHANGED <<pc, command, args>>
        BY <1>2 DEF KeyboardIsr, user
    <2>2. Taken' = Taken
        BY <2>1, TakenSame
    <2>3. CASE on
        <3>1. pc = "spin" /\ Ascii(irq) \in Chars /\ Listening(Ascii(irq))
            BY <1>2, <2>3, AsciiType DEF KeyboardIsr, CallInv, TypeOK
        <3>2. CASE ~long
            BY <2>1, <2>3, <3>1, <3>2, TerminalKey
        <3>3. CASE long
            <4>1. long'
                BY <3>1, <3>3 DEF Listening, NoCharacter, EraseChar, EndLine, AddChar, Ignored
            <4>2. Phase = "lost" /\ Phase' = "lost"
                BY <2>1, <3>1, <3>3, <4>1 DEF Phase, Lost
            <4> QED
                BY <2>2, <4>2 DEF Line!vars, OnLine
        <3> QED
            BY <3>2, <3>3
    <2>4. CASE ~on
        <3>1. on' = on /\ keys' = keys /\ long' = long
            BY <1>2, <2>4 DEF KeyboardIsr, NotListening, Ignored
        <3>2. Phase' = Phase /\ Phase # "typing"
            BY <2>1, <2>4, <3>1 DEF Phase, Lost, InCall, Entered
        <3> QED
            BY <1>1, <2>2, <3>1, <3>2
    <2> QED
        BY <2>3, <2>4
<1>3. CASE Activate
    <2>1. Phase = "busy" /\ Phase' = "typing"
        BY <1>3 DEF Activate, Phase, Lost, InCall, Entered
    <2>2. Taken' = Taken
        BY <1>3 DEF Activate, user, Taken, String
    <2>3. OnLine' = <<>>
        <3>1. OnLine' = [i \in 1 .. index' |-> keys'[i - 1]] /\ index' = 0
            BY <1>3, <2>1 DEF OnLine, Activate
        <3> QED
            BY <3>1
    <2> QED
        BY <2>1, <2>2, <2>3 DEF Line!Next, Line!Ask
<1>4. CASE Sti \/ Awake
    <2>1. kbd' = kbd /\ user' = user /\ long' = long /\ pc # "parse" /\ pc' # "parse"
        BY <1>4 DEF Sti, Awake
    <2>2. Taken' = Taken
        BY <2>1 DEF user, Taken, String
    <2>3. Phase' = Phase
        BY <1>4, <2>1 DEF Sti, Awake, kbd, Phase, Lost, InCall, Entered, CallInv
    <2> QED
        BY <2>1, <2>2, <2>3, OnLineSame DEF kbd, Line!vars
<1>5. CASE Strlen
    <2>1. kbd' = kbd /\ user' = user /\ long' = long /\ pc = "measure" /\ pc' \in {"copy", "overrun"}
        BY <1>5 DEF Strlen
    <2>2. Taken' = Taken
        BY <2>1 DEF user, Taken, String
    <2>3. ~long => pc' = "copy"
        BY <1>5 DEF Strlen, CallInv, Entered
    <2>4. Phase' = Phase
        BY <2>1, <2>3 DEF kbd, Phase, Lost, InCall, Entered
    <2> QED
        BY <2>1, <2>2, <2>4, OnLineSame DEF kbd, Line!vars
<1>6. CASE CopyLine
    <2>1. kbd' = kbd /\ long' = long /\ pc = "copy" /\ pc' = "parse"
        BY <1>6 DEF CopyLine
    <2>2. Taken = <<>> /\ Taken' = <<>>
        BY <2>1, NoneTaken DEF Taken, CallInv
    <2>3. Phase' = Phase
        BY <2>1 DEF kbd, Phase, Lost, InCall, Entered
    <2> QED
        BY <2>1, <2>2, <2>3, OnLineSame DEF kbd, Line!vars
<1>7. CASE NextWord
    <2>1. CASE pc' = "parse"
        <3>1. kbd' = kbd /\ long' = long /\ pc = "parse"
            BY <1>7 DEF NextWord
        <3>2. Taken = <<>> /\ Taken' = <<>> /\ Phase' = Phase
            BY <2>1, <3>1 DEF kbd, Taken, Phase, Lost, InCall, Entered
        <3> QED
            BY <3>1, <3>2, OnLineSame DEF kbd, Line!vars
    <2>2. CASE pc' # "parse"
        BY <1>7, <2>2, TerminalReturn
    <2> QED
        BY <2>1, <2>2
<1>8. CASE Prompt \/ ShowClock
    <2>1. kbd' = kbd /\ user' = user /\ long' = long
          /\ pc \in {"prompt", "clock"} /\ pc' \in {"ask", "clock"}
        BY <1>8 DEF Prompt, ShowClock
    <2>2. Taken' = Taken
        BY <2>1 DEF user, Taken, String
    <2>3. Phase' = Phase
        BY <2>1 DEF Phase, Lost, InCall, Entered
    <2> QED
        BY <2>1, <2>2, <2>3, OnLineSame DEF kbd, Line!vars
<1>9. CASE Reply \/ ClearScreen \/ StartClock
    <2>1. pc = "run" /\ pc' \in {"prompt", "clock"} /\ args' = 0
        BY <1>9 DEF Reply, ClearScreen, StartClock, Forget
    <2>2. Phase = "busy" /\ Phase' = "busy"
        BY <2>1 DEF Phase, Lost, InCall, Entered
    <2>3. Taken' = <<>>
        <3>1. Taken' = [i \in 1 .. args' |-> String(command'[i], WordMax)]
            BY <2>1 DEF Taken, String
        <3> QED
            BY <2>1, <3>1, NoneTaken
    <2>4. OnLine' = OnLine
        BY <2>2 DEF OnLine
    <2> QED
        BY <2>2, <2>3, <2>4 DEF Line!Next, Line!Use
<1>10. ASSUME NEW k \in Keys, Press(k) PROVE UNCHANGED Line!vars
    <2>1. kbd' = kbd /\ user' = user /\ long' = long /\ pc' = pc
        BY <1>10 DEF Press
    <2>2. Phase' = Phase /\ Taken' = Taken
        BY <2>1, TakenSame DEF kbd, user, Phase, Lost, InCall, Entered
    <2> QED
        BY <2>1, <2>2, OnLineSame DEF kbd, Line!vars
<1>11. CASE UNCHANGED vars
    <2>1. Phase' = Phase /\ Taken' = Taken
        BY <1>11, TakenSame DEF vars, Phase, Lost, InCall, Entered
    <2> QED
        BY <1>11, <2>1, OnLineSame DEF vars, Line!vars
<1> QED
    BY <1>2, <1>3, <1>4, <1>5, <1>6, <1>7, <1>8, <1>9, <1>10, <1>11 DEF Next, SystemCall4, Run

(* The keyboard interrupt, system call 4, strtok and strparse implement    *)
(* Terminal: whatever is pressed and whenever, the shell gets the words of *)
(* the line that stood behind the prompt, for a buffer of any size.        *)
THEOREM IsTerminalCorrect == Spec => IsTerminal
    BY TerminalInit, TerminalStep, ConsoleTypeCorrect, WordsHold, PTL
       DEF Spec, IsTerminal, Line!Spec
=============================================================================
