----------------------------- MODULE MCEthFirmware -----------------------------
(* The firmware with two frames, good or bad, waiting in the MAC at most.  *)
EXTENDS EthFirmware

MCSinkFrames == 2
=============================================================================
