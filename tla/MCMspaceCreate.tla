--------------------------- MODULE MCMspaceCreate ---------------------------
(* Memories in the 64-bit layout: one that is refused, the least that is   *)
(* accepted, and one that is no multiple of a page.                        *)
EXTENDS MspaceCreate

CONSTANTS m1, m2, m3

MCSize == [m \in Mems |-> CASE m = m1 -> 8191 [] m = m2 -> 8192 [] OTHER -> 20000]
Aligned == [m \in Mems |-> CASE m = m1 -> 8192 [] m = m2 -> 65536 [] OTHER -> 131080]
Misaligned == [m \in Mems |-> 65540]
=============================================================================
