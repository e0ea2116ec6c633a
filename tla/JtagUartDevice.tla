------------------------------- MODULE JtagUartDevice -------------------------------
(***************************************************************************)
(* The JTAG UART as its driver sees it: two FIFOs of Depth bytes, the two  *)
(* interrupt enables of the CONTROL register, and the AC bit that tells    *)
(* that a host has been there since the bit was last cleared.  The host at *)
(* the other end of the cable may come and go.                             *)
(***************************************************************************)
EXTENDS Integers, Sequences

CONSTANTS
  Byte,                 \* the values of a byte
  Depth                 \* of each FIFO of the device

ASSUME DeviceAssumption == Depth \in Nat \ {0}

VARIABLES
  control,              \* the enables RE and WE of the CONTROL register
  ac,                   \* its AC bit
  rx_fifo,              \* from the host
  tx_fifo,              \* to the host
  host,                 \* a host is connected
  host_got              \* the bytes of the host's last read

deviceVars == <<control, ac, rx_fifo, tx_fifo, host, host_got>>

DeviceInit ==
  /\ ac = FALSE /\ rx_fifo = << >> /\ tx_fifo = << >>
  /\ host \in BOOLEAN /\ host_got = << >>

DeviceTypeOK ==
  /\ control \subseteq {"RE", "WE"}
  /\ ac \in BOOLEAN /\ host \in BOOLEAN
  /\ rx_fifo \in Seq(Byte) /\ Len(rx_fifo) <= Depth
  /\ tx_fifo \in Seq(Byte) /\ Len(tx_fifo) <= Depth
  /\ host_got \in Seq(Byte) /\ Len(host_got) <= 1

WSpace == Depth - Len(tx_fifo)
RI == "RE" \in control /\ rx_fifo # << >>
WI == "WE" \in control /\ WSpace > 0

HostSends(bytes) ==
  /\ host /\ Len(rx_fifo) < Depth
  /\ \E b \in bytes : rx_fifo' = Append(rx_fifo, b)
  /\ ac' = TRUE
  /\ UNCHANGED <<control, tx_fifo, host, host_got>>

HostReads ==
  /\ host /\ tx_fifo # << >>
  /\ host_got' = <<Head(tx_fifo)>> /\ tx_fifo' = Tail(tx_fifo)
  /\ ac' = TRUE
  /\ UNCHANGED <<control, rx_fifo, host>>

HostPolls ==
  /\ host /\ ac' = TRUE
  /\ UNCHANGED <<control, rx_fifo, tx_fifo, host, host_got>>

HostPlugged ==
  /\ host' = ~host
  /\ UNCHANGED <<control, ac, rx_fifo, tx_fifo, host_got>>

Host(bytes) == HostSends(bytes) \/ HostReads \/ HostPolls \/ HostPlugged
===================================================================================
