--------------------------- MODULE MCMemoryStore ---------------------------
(* Two processes, three memories, chains of up to three revisions: two      *)
(* writers can propose different successors of one head.  The first process *)
(* opens with a limit one below the second's, so that the second can        *)
(* publish a revision that the first may no longer read.                    *)
EXTENDS MemoryStore, TLC

CONSTANTS p1, p2, m1, m2, m3

MCProcs == {p1, p2}
MCMemories == {m1, m2, m3}
MCLimits == {2, 3}
MCOpenLimit == (p1 :> 2) @@ (p2 :> 3)
=============================================================================
