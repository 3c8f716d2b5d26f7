------------------------------- MODULE MCConsole -------------------------------
(* An instance of Console for TLC. *)
EXTENDS ConsoleInvariant

CONSTANTS a, b, sp, digit, nul, newline, backspace, tab, nokey, other

OneLetter == {a}
TwoLetters == {a, b}
=============================================================================
