--------------------------------- MODULE MCJtagUart ---------------------------------
(***************************************************************************)
(* Programs for TLC: one that writes, and one that reads what a host       *)
(* sends.  The driver's state for the two directions is apart.  With an    *)
(* empty set of threads a behaviour is one of the polling driver.          *)
(***************************************************************************)
EXTENDS JtagUart

Writes == [threads |-> {"writer"}, host |-> {}]
Reads == [threads |-> {"reader"}, host |-> Byte]
Polls == [threads |-> {}, host |-> Byte]
WritesOrReads == {Writes, Reads}
WritesReadsOrPolls == {Writes, Reads, Polls}

VARIABLE call

Polling == program = Polls
Small == INSTANCE JtagUartSmall WITH input <- taken

fastVars == <<uartVars, rxVars, txVars, irq, writer, reader>>

\* The state of the other driver stays as it is.
PollingInit ==
  /\ program = Polls /\ irq_enable = {} /\ host_inactive = 0 /\ alarm = FALSE
  /\ timeout = INT_MAX /\ irq = IrqIdle /\ writer = Idle /\ reader = Idle
  /\ \E zero \in Byte : rx_buf = [i \in Index |-> zero] /\ tx_buf = rx_buf
  /\ rx_in = 0 /\ rx_out = 0 /\ tx_in = 0 /\ tx_out = 0

EitherInit ==
  \/ Init /\ ~Polling /\ call = Small!Idle
  \/ Polls \in Programs /\ PollingInit /\ Small!Init

EitherNext ==
  \/ ~Polling /\ Next /\ UNCHANGED call
  \/ Polling /\ Small!Next /\ UNCHANGED <<program, fastVars>>

EitherSpec == EitherInit /\ [][EitherNext]_<<vars, call>>
EitherFairSpec == EitherSpec /\ Fairness /\ WF_<<deviceVars, call, taken>>(Small!Driver)

\* Whatever the handler, the alarm and the calls do between each other's steps,
\* calls come back and written bytes leave the ring (JtagUart); the polling driver
\* waits for what can come only, and without rings too each direction is a stream
\* of bytes (JtagUartSmall).
CallsComeBack ==
  /\ ~Polling => Progress
  /\ Polling => Small!PollingReturns
  /\ TxStream /\ RxStream
===================================================================================
