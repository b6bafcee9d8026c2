---------------------------- MODULE MCConnection ----------------------------
(***************************************************************************)
(* Connection on small instances: a RESP2 connection and a RESP3 one, each *)
(* with a name and a database to select, and a caching one.                *)
(***************************************************************************)
EXTENDS Connection

MCConfigs ==
    {[protocol |-> 2, db |-> TRUE, named |-> TRUE, caching |-> FALSE],
     [protocol |-> 3, db |-> TRUE, named |-> TRUE, caching |-> FALSE],
     [protocol |-> 3, db |-> FALSE, named |-> FALSE, caching |-> TRUE]}
=============================================================================
