----------------------------- MODULE MCIoManager -----------------------------
(***************************************************************************)
(* Instances of IoManager for TLC.                                         *)
(***************************************************************************)
EXTENDS IoManager

CONSTANTS p1, p2, stdin1, stdout1

\* No SLEEP device: a SLEEP stays pending.
InAndOut == [d \in Device |-> IF d = stdin1 THEN "STDIN" ELSE "STDOUT"]
Calls == [p \in Proc |-> IF p = p1 THEN {"SLEEP", "STDIN"} ELSE {"STDIN", "STDOUT", "STDIN_0"}]
Transfers == [p \in Proc |-> IF p = p1 THEN {"STDIN"} ELSE {"STDIN", "STDOUT"}]
OneEach == [p \in Proc |-> 1]
TwoAndOne == [p \in Proc |-> IF p = p1 THEN 2 ELSE 1]
ByName == [p \in Proc |-> IF p = p1 THEN 1 ELSE 0]
==============================================================================
