---------------------------- MODULE MCPoolChannel ----------------------------
(***************************************************************************)
(* Every case of the pool channel, and the pool misused.                   *)
(***************************************************************************)
EXTENDS PoolChannel

MCConns == 1..3
AllCases == DOMAIN Script
=============================================================================
