------------------------------ MODULE MCGoLane ------------------------------
(* GoLane for TLC: reads of one URL, orders that repeat one key. *)
EXTENDS GoLane

MCKeyOf == [r \in Requests |-> IF r \in Reads THEN "positions" ELSE "order"]

=============================================================================
