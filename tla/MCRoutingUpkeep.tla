-------------------------- MODULE MCRoutingUpkeep --------------------------
(***************************************************************************)
(* An instance of RoutingUpkeep: one bootstrap peer in the bucket next to  *)
(* the first, and one peer in either bucket that only lookups bring.  A    *)
(* bucket holds one peer, so that buckets are full, and gaps, too.         *)
(***************************************************************************)
EXTENDS RoutingUpkeep

CONSTANTS p1, p2, p3

MCCpl == [p \in Peers |-> IF p = p1 THEN 0 ELSE 1]

=============================================================================
