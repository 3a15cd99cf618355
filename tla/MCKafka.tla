------------------------------ MODULE MCKafka ------------------------------
(* Two consumers of a group compete for a partition with two records and    *)
(* one with a single record.                                                *)
EXTENDS Kafka, TLC

CONSTANTS p1, p2

MCLogEnd == p1 :> 2 @@ p2 :> 1
=============================================================================
