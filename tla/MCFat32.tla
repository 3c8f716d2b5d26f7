-------------------------------- MODULE MCFat32 --------------------------------
(* Instances of Fat32 for TLC. *)
EXTENDS Fat32Invariant

CONSTANTS shell, s, none, root, text, other

MCNames == {shell, s}

(* "s" is a prefix of "shell". *)
MCPrefix == {<<shell, shell>>, <<s, s>>, <<s, shell>>}

(* Files that differ in what they hold, and files that do not. *)
MCTexts == [n \in MCNames \cup {none} |->
               IF n = none THEN none ELSE IF n = shell THEN text ELSE other]
MCOneText == [n \in MCNames \cup {none} |-> IF n = none THEN none ELSE text]
=============================================================================
