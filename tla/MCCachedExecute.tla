-------------------------- MODULE MCCachedExecute --------------------------
(***************************************************************************)
(* CachedExecute on small instances: two threads and two connections, so   *)
(* that each thread has a peer to sweep.                                   *)
(***************************************************************************)
EXTENDS CachedExecute, TLC

CONSTANTS t1, t2, c1, c2

MCThreads == {t1, t2}
MCConns == {c1, c2}
Symmetry == Permutations(MCThreads) \cup Permutations(MCConns)
=============================================================================
