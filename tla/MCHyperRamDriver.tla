-------------------------- MODULE MCHyperRamDriver --------------------------
(* The driver with lengths around its phase boundaries, the documented     *)
(* maximum, and the longest a read can have before totalTime + 1 leaves 11 *)
(* bits.                                                                   *)
EXTENDS HyperRamDriver

MCLengths == {0, 1, 2, 13, 1280, 2012}
MCPowerUpTotals == {1, 2047}
=============================================================================
