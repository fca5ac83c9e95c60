------------------------------ MODULE MCFailover ------------------------------
(****************************************************************************)
(* Instances of Failover.  Ports do not follow the order of the Ids, so that *)
(* the loops over a map meet higher and lower ports in between.              *)
(****************************************************************************)
EXTENDS Failover

PortOf == [c \in Clients |-> IF c \in {2, 4} THEN 10 * c ELSE c]
=============================================================================
