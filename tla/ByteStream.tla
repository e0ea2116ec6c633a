-------------------------------- MODULE ByteStream --------------------------------
(***************************************************************************)
(* What one direction of the JTAG UART promises: the bytes one end accepts *)
(* come out at the other end, each once and in the order they were given.  *)
(***************************************************************************)
EXTENDS Sequences, SequencesExt

CONSTANT Byte

VARIABLES
  stream,               \* bytes accepted and not yet delivered
  delivered             \* the bytes of the last delivery

streamVars == <<stream, delivered>>

Init == stream = << >> /\ delivered = << >>

Accept ==
  /\ stream' \in Seq(Byte)
  /\ IsPrefix(stream, stream')
  /\ UNCHANGED delivered

Deliver ==
  /\ delivered' \in Seq(Byte)
  /\ stream = delivered' \o stream'

Next == Accept \/ Deliver

Spec == Init /\ [][Next]_streamVars
===================================================================================
