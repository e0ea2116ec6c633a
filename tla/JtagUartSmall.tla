-------------------------------- MODULE JtagUartSmall --------------------------------
(***************************************************************************)
(* The polling driver of the JTAG UART (ALTERA_AVALON_JTAG_UART_SMALL),    *)
(* the one this board support package compiles: no ring, no interrupt; the *)
(* caller waits at the device's FIFOs.  There is one thread.               *)
(***************************************************************************)
EXTENDS JtagUartDevice

CONSTANT Counts         \* bytes a call asks for

VARIABLES
  call,                 \* the call that runs
  input                 \* the bytes of the last step of a read

vars == <<deviceVars, call, input>>

Idle == [op |-> "idle", nonblock |-> FALSE, left |-> 0, done |-> 0, result |-> "none"]

Init == DeviceInit /\ control = {} /\ call = Idle /\ input = << >>

DeviceFrame == UNCHANGED <<control, ac, host, host_got>>

Call ==
  /\ call.op = "idle"
  /\ \E op \in {"write", "read"}, count \in Counts, nonblock \in BOOLEAN :
       call' = [Idle EXCEPT !.op = op, !.left = count, !.nonblock = nonblock]
  /\ UNCHANGED <<rx_fifo, tx_fifo, input>> /\ DeviceFrame

\* altera_avalon_jtag_uart_write: a turn of its loop that finds room.
Write ==
  /\ call.op = "write" /\ call.left > 0 /\ WSpace # 0
  /\ \E b \in Byte : tx_fifo' = Append(tx_fifo, b)
  /\ call' = [call EXCEPT !.left = @ - 1, !.done = @ + 1]
  /\ UNCHANGED <<rx_fifo, input>> /\ DeviceFrame

WriteReturn ==
  /\ call.op = "write" /\ call.left = 0
  /\ call' = [Idle EXCEPT !.result = "written"]
  /\ UNCHANGED <<rx_fifo, tx_fifo, input>> /\ DeviceFrame

\* altera_avalon_jtag_uart_read: a turn of its loop that finds a byte.
Read ==
  /\ call.op = "read" /\ call.left > 0 /\ rx_fifo # << >>
  /\ input' = <<Head(rx_fifo)>> /\ rx_fifo' = Tail(rx_fifo)
  /\ call' = [call EXCEPT !.left = @ - 1, !.done = @ + 1]
  /\ UNCHANGED tx_fifo /\ DeviceFrame

\* mutant: a read that has begun waits for all its bytes
ReadReturnWhenFull ==
  /\ call.op = "read"
  /\ \/ call.left = 0
     \/ rx_fifo = << >> /\ call.nonblock
  /\ call' = [Idle EXCEPT !.result = IF call.done > 0 THEN "read" ELSE "EWOULDBLOCK"]
  /\ UNCHANGED <<rx_fifo, tx_fifo, input>> /\ DeviceFrame

ReadReturn ==
  /\ call.op = "read"
  /\ \/ call.left = 0
     \/ rx_fifo = << >> /\ (call.done > 0 \/ call.nonblock)
  /\ call' = [Idle EXCEPT !.result = IF call.done > 0 THEN "read" ELSE "EWOULDBLOCK"]
  /\ UNCHANGED <<rx_fifo, tx_fifo, input>> /\ DeviceFrame

Driver == Write \/ WriteReturn \/ Read \/ ReadReturn

HostStep == Host(Byte) /\ UNCHANGED <<call, input>>

Next == Call \/ Driver \/ HostStep

\* The caller goes on.
Spec == Init /\ [][Next]_vars /\ WF_vars(Driver)

-----------------------------------------------------------------------------
\* A call waits for what can come only: a write for room, which a host that reads
\* makes, a read for its first byte; what comes behind that it does not wait for
\* (altera_avalon_jtag_uart_write.c:70-75, altera_avalon_jtag_uart_read.c:71-92).
PollingReturns ==
  /\ <>[]host => (call.op = "write" ~> call.op = "idle")
  /\ call.op = "read" /\ rx_fifo # << >> ~> call.op = "idle"
===================================================================================
