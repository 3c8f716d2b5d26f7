------------------------------- MODULE Terminal --------------------------------
(***************************************************************************)
(* What the keyboard and system call 4 promise the shell: it asks for a    *)
(* line, the user types and erases characters, and after Enter the shell   *)
(* has the words of the line that stands on the screen.  A line that grows *)
(* to LineMax characters is lost, and nothing is promised about it.        *)
(***************************************************************************)
EXTENDS Integers, FiniteSets, Sequences, SequencesExt

CONSTANTS
    Letters,   \* what words are made of
    Space,     \* what separates them
    LineMax,   \* characters that a line cannot have
    WordMax,   \* a longer word is cut
    WordsMax   \* more words are dropped

VARIABLES
    phase,   \* the shell is busy, or waits for a line
    line,    \* the characters on the screen after the prompt
    words    \* what the shell made of the last line

vars == <<phase, line, words>>

Starts(s) == {i \in 1 .. Len(s) : s[i] # Space /\ (i = 1 \/ s[i - 1] = Space)}

(* The words of s: the longest runs of letters. *)
Words(s) ==
    LET Smaller(x, y) == IF x < y THEN x ELSE y
        starts == Starts(s)
        Start(n) == CHOOSE i \in starts : Cardinality({j \in starts : j < i}) = n - 1
        WordFrom(i) == SubSeq(s, i, CHOOSE j \in i .. Len(s) :
                                     /\ \A k \in i .. j : s[k] # Space
                                     /\ j = Len(s) \/ s[j + 1] = Space)
    IN [n \in 1 .. Smaller(Cardinality(starts), WordsMax) |->
            SubSeq(WordFrom(Start(n)), 1, Smaller(Len(WordFrom(Start(n))), WordMax))]

Init == phase = "busy" /\ line = <<>> /\ words = <<>>

Ask == phase = "busy" /\ phase' = "typing" /\ line' = <<>> /\ UNCHANGED words

Type ==
    /\ phase = "typing" /\ Len(line) < LineMax - 1
    /\ \E c \in Letters \cup {Space} : line' = Append(line, c)
    /\ UNCHANGED <<phase, words>>

Lose == phase = "typing" /\ Len(line) = LineMax - 1 /\ phase' = "lost" /\ line' = <<>>
        /\ UNCHANGED words

Erase == phase = "typing" /\ line # <<>> /\ line' = Front(line) /\ UNCHANGED <<phase, words>>

Enter == phase = "typing" /\ phase' = "entered" /\ UNCHANGED <<line, words>>

Return ==
    /\ phase \in {"entered", "lost"} /\ phase' = "busy" /\ line' = <<>>
    /\ phase = "entered" => words' = Words(line)

Use == phase = "busy" /\ words' = <<>> /\ UNCHANGED <<phase, line>>

Next == Ask \/ Type \/ Lose \/ Erase \/ Enter \/ Return \/ Use

Spec == Init /\ [][Next]_vars
=============================================================================
