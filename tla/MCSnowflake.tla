---------------------------- MODULE MCSnowflake ----------------------------
(* Instances of Snowflake for TLC. *)
EXTENDS Snowflake

CONSTANTS w0, w1

TwoWorkers == {w0, w1}
DistinctIDs == [w \in TwoWorkers |-> IF w = w0 THEN 0 ELSE 1]
=============================================================================
