------------------------------ MODULE MCGrowth ------------------------------
(* Small instances of StorageGrowth: GrowthAssumption is evaluated here. *)
EXTENDS GrowthInvariant
=============================================================================
