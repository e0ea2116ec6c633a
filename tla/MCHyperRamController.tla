------------------------- MODULE MCHyperRamController -------------------------
(* The controller with a queue of two words and a user that asks for more  *)
(* transactions than fit: one that ends before the state machine has seen  *)
(* setupDone (3 bytes), and one that is long enough to move data (17); with *)
(* an empty flag of either kind, and powered up with a total of 0 or not.  *)
EXTENDS HyperRamController

MCLengths == {3, 17}
MCAddresses == {5}
MCPowerUpTotals == {0, 1}
=============================================================================
