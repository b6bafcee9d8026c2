---------------------------- MODULE MCReplyCache ----------------------------
(***************************************************************************)
(* ReplyCache on a small instance: two keys, three commands of which two   *)
(* depend on the same key, two readers, and room for two entries, so that  *)
(* every offer beyond the second must evict.                               *)
(***************************************************************************)
EXTENDS ReplyCache, TLC

CONSTANTS k1, k2, get1, len1, get2, r1, r2, v1, v2

MCKeys == {k1, k2}
MCCommands == {get1, len1, get2}
MCKeyOf == (get1 :> k1) @@ (len1 :> k1) @@ (get2 :> k2)
MCReaders == {r1, r2}
MCValues == {v1, v2}
Symmetry == Permutations(MCValues) \cup Permutations(MCReaders)
=============================================================================
