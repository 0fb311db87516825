--------------------------- MODULE MCRegionPlanner ---------------------------
(* Model-checking instance of RegionPlanner.  A symbol stands for a chunk   *)
(* of bytes, so MC_ReadSize plays the 300,000-byte IO_READ_SIZE.            *)
EXTENDS RegionPlanner

(* Files without a From line in some window of the backward scan make a   *)
(* SeekStart loop spin at offset 0 (run MCRegionPlanner_Terminates); the  *)
(* runs checking safety consider every file.                               *)
=============================================================================
