-------------------------------- MODULE MCShell --------------------------------
(* Instances of Shell for TLC. *)
EXTENDS ShellInvariant

CONSTANTS shell, trojan, s, none, root, bytes

MCNames == {shell, trojan, s}

(* "s" begins the kernel's own file, or the shell. *)
MCPrefixOfProgram == {<<s, trojan>>}
MCPrefixOfShell == {<<s, shell>>}

MCTyped == {s, trojan}

(* A folder that may be anywhere; it also begins the name of the kernel's file. *)
MCSought == {<<s, TRUE>>}
=============================================================================
