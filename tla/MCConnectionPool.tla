-------------------------- MODULE MCConnectionPool --------------------------
(***************************************************************************)
(* ConnectionPool on small instances.                                      *)
(***************************************************************************)
EXTENDS ConnectionPool

CONSTANTS t1, t2, t3, c1, c2

ThreeThreads == {t1, t2, t3}
TwoConns == {c1, c2}
=============================================================================
