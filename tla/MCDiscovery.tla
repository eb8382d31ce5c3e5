----------------------------- MODULE MCDiscovery -----------------------------
(* Instances of Discovery for TLC. *)
EXTENDS Discovery, TLC
CONSTANTS honest, cheat, third, d1, d2

MCVias1 == <<d1>>
MCVias2 == <<d1, d2>>

(* One clock is as far ahead as is tolerated. *)
MCAhead == [p \in Nodes |-> IF p = cheat THEN Skew ELSE 0]
MCAgree == [p \in Nodes |-> 0]

(* `reputation: 0.0' of main.rs, and the most another program can claim. *)
MCSelfReport == [p \in Nodes |-> IF p = cheat THEN Scale ELSE 0]

(* The two others differ in nothing. *)
MCSymmetry == Permutations({honest, third})

(* The cheat has a long clean record, the others none. *)
MCPrior == [p \in Nodes |-> IF p = cheat THEN [score |-> 8000, pass |-> 32, fail |-> 0] ELSE Unprobed]
(* Nobody is known. *)
MCFresh == [p \in Nodes |-> Unprobed]
==============================================================================
