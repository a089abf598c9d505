----------------------- MODULE MCPolicyCacheHistory ------------------------
(***************************************************************************)
(* A small instance of PolicyCacheHistory: two evaluations that overlap,   *)
(* one row that permits and one that denies, and a clock that outlives an  *)
(* entry written from a stale read.                                        *)
(***************************************************************************)
EXTENDS PolicyCacheHistory, TLC

CONSTANTS s1, s2, allowRow, denyRow

MCSlots == {s1, s2}
MCRows == {allowRow, denyRow}
MCPermitting == {allowRow}

Symmetry == Permutations(MCSlots)
=============================================================================
