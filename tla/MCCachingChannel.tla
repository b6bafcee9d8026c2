-------------------------- MODULE MCCachingChannel --------------------------
(***************************************************************************)
(* Every case of the caching channel.                                      *)
(***************************************************************************)
EXTENDS CachingChannel

CONSTANTS c1, c2

MCThreads == {One, Two}
MCConns == {c1, c2}
MCKeys == {tracked, k2, k3}
AllCases == DOMAIN Scripts
=============================================================================
