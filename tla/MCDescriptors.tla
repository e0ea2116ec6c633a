------------------------------ MODULE MCDescriptors ------------------------------
(***************************************************************************)
(* Descriptors under TLC: chains in memory and cache as the firmware is    *)
(* linked, or the bytes of one descriptor.  A behaviour is of one part.    *)
(***************************************************************************)
EXTENDS DescriptorCache

\* In halves of a line, 0x33a0 being 0 (eth_3.map, lines 443-448).
FirmwareAddress ==
  [tx_descriptor_header |-> 1, rx_descriptor_end |-> 3, rx_descriptor |-> 5,
   tx_descriptor_end |-> 7, tx_descriptor_data |-> 9]
FirmwareChains ==
  [tx |-> {<<"tx_descriptor_header", "tx_descriptor_data", "tx_descriptor_end">>},
   rx |-> {<<"rx_descriptor", "rx_descriptor_end">>}]
FirmwareWaits == {"tx"}
Rx == {"rx"}
\* The variables in front of tx_descriptor_header.
FirmwareNeighbours == {0}

\* Under TLC, addresses with four different bytes, the lengths at the ends of their
\* 16 bits, and channels on both sides of the field's four bits and at the end of the
\* argument's eight (0 is that of the constructors that have no channel).
CONSTANTS ReadAddresses, WriteAddresses, Lengths, Channels, NextAddress
VARIABLES part, bytes, nextMemory, request, stage, command, token, check

Layout == INSTANCE SgdmaDescriptor WITH memory <- bytes

ASSUME ArgumentsAssumption == Layout!WidthsAssumption

layoutVars == <<bytes, nextMemory, request, stage, command, token, check>>

PartInit ==
  /\ part \in {"chains", "bytes"} /\ ChainsInit /\ Layout!Init
  /\ part = "chains" => nextMemory[31] = 0
  /\ part = "bytes" => serving = "tx"

PartNext ==
  /\ \/ part = "chains" /\ ChainsNext /\ UNCHANGED layoutVars
     \/ part = "bytes" /\ Layout!Next /\ UNCHANGED chainVars
  /\ UNCHANGED part

PartSpec == PartInit /\ [][PartNext]_<<part, chainVars, layoutVars>>

\* The descriptors of a chain are owned by one side at a time, whole when the
\* controller reads them, and no line written back for a neighbour changes that
\* (altera_avalon_sgdma.c:662-716).
ChainsOfFirmware == ChainsKept

\* The bytes the constructors store are what the controller reads as the request, of
\* the channel the four bits its field has,
\* and the status it writes back is what check_descriptor_status tells
\* (altera_avalon_sgdma.c:503-527, 662-709).
BytesOfDescriptor == Layout!BytesAgree
=============================================================================
