------------------------------ MODULE MCMcpHttp ------------------------------
(***************************************************************************)
(* An instance of McpHttp for TLC.                                         *)
(***************************************************************************)
EXTENDS McpHttp, TLC

CONSTANTS c1, c2, c3, p1

ClientLimit == [k \in Keys |-> 2]
PrincipalLimit == [c \in {"read", "write"} |-> IF c = "read" THEN 2 ELSE 1]
Symmetry == Permutations(Calls)
Expiries == {None, 2}
=============================================================================
