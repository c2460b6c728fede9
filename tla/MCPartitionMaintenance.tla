----------------------- MODULE MCPartitionMaintenance -----------------------
(***************************************************************************)
(* Two replicas, one with two sessions in its pool, over four months.      *)
(***************************************************************************)
EXTENDS PartitionMaintenance

CONSTANTS r1, r2, s1, s2, s3

Replicas == {r1, r2}

Sessions == {s1, s2, s3}

Owners == [s \in Sessions |-> IF s = s3 THEN r2 ELSE r1]
=============================================================================
