---------------------------------- MODULE JtagUart ----------------------------------
(***************************************************************************)
(* The interrupt driven driver of the JTAG UART (altera_avalon_jtag_uart_* *)
(* without ALTERA_AVALON_JTAG_UART_SMALL): a ring of bytes in each         *)
(* direction between a thread that reads or writes and the interrupt       *)
(* handler, and an alarm that counts the seconds without a host.           *)
(*                                                                         *)
(* A step is one access to the shared state.  Handler and alarm run on the *)
(* processor of the threads: while one of them runs the threads stand      *)
(* still, and a statement between alt_irq_disable_all and                  *)
(* alt_irq_enable_all is one step.  The semaphores let one thread read and *)
(* one thread write.                                                       *)
(***************************************************************************)
EXTENDS JtagUartDevice

CONSTANTS
  BUF_LEN,              \* ALTERA_AVALON_JTAG_UART_BUF_LEN
  DEFAULT_TIMEOUT,      \* ALTERA_AVALON_JTAG_UART_DEFAULT_TIMEOUT
  INT_MAX,
  Counts,               \* bytes a call asks for
  Timeouts,             \* arguments of TIOCSTIMEOUT
  Programs              \* the threads of each, and the bytes its host sends

ASSUME UartAssumption ==
  /\ BUF_LEN \in Nat /\ BUF_LEN >= 2
  /\ INT_MAX \in Nat /\ DEFAULT_TIMEOUT \in 1..(INT_MAX - 2) /\ INT_MAX >= 3
  /\ Counts \subseteq Nat \ {0} /\ Timeouts \subseteq Int
  /\ Programs \subseteq [threads : SUBSET {"writer", "reader"}, host : SUBSET Byte]

VARIABLES
  program,              \* the one that runs
  irq_enable, host_inactive, timeout, alarm,
  rx_buf, rx_in, rx_out, tx_buf, tx_in, tx_out,
  irq,                  \* the interrupt handler
  writer,               \* the thread that writes or closes
  reader,               \* the thread that reads
  taken                 \* the bytes the reader's last memcpy copied

uartVars == <<irq_enable, host_inactive, timeout, alarm>>
rxVars == <<rx_buf, rx_in, rx_out>>
txVars == <<tx_buf, tx_in, tx_out>>
vars == <<program, deviceVars, uartVars, rxVars, txVars, irq, writer, reader, taken>>

-----------------------------------------------------------------------------
Index == 0..(BUF_LEN - 1)
After(i) == (i + 1) % BUF_LEN

\* The bytes of a ring from its out index up to its in index.
Held(buf, out, in) ==
  [k \in 1..((in + BUF_LEN - out) % BUF_LEN) |-> buf[(out + k - 1) % BUF_LEN]]

\* mutant: all that is free, without a break at the end of the buffer
RoomAcrossEnd(in, out) == (out + BUF_LEN - 1 - in) % BUF_LEN
\* mutant: no byte is kept free when the out index is at the start
RoomWithoutGap(in, out) == IF in < out THEN out - 1 - in ELSE BUF_LEN - in

\* Free and filled bytes from the index up to the end of the buffer at most.
Room(in, out) == CASE in < out -> out - 1 - in
                   [] in >= out /\ out > 0 -> BUF_LEN - in
                   [] in >= out /\ out = 0 -> BUF_LEN - 1 - in
Filled(in, out) == IF in >= out THEN in - out ELSE BUF_LEN - out

\* mutant: the handler does not look whether the ring is full
alwaysRoom == TRUE
rxRoom == After(rx_in) # rx_out

\* mutant: turned off whenever the handler has written
OffAfterWrite == irq_enable \ {"WE"}
EnableAfterDrain == IF irq.space > 0 THEN irq_enable \ {"WE"} ELSE irq_enable

EnableToSend == irq_enable \cup {"WE"}

EnableAfterRead ==
  IF reader.done > 0 THEN irq_enable \cup {"RE"} ELSE irq_enable

AtMost(n, m) == IF n > m THEN m ELSE n

\* mutant: one second more, which a saturated count never reaches
hostInactiveLater == host_inactive > timeout
hostInactive == host_inactive >= timeout
threads == irq.pc = "idle"          \* the processor runs the threads

\* `asked' counts what is left of the request, `done' what has been moved.
Idle == [pc |-> "idle", nonblock |-> FALSE, asked |-> 0, done |-> 0,
         in |-> 0, out |-> 0, n |-> 0, result |-> "none"]
IrqIdle == [pc |-> "idle", wi |-> FALSE, space |-> 0, ravail |-> FALSE]

Init ==
  /\ program \in Programs
  /\ DeviceInit /\ control = {"RE"} /\ irq_enable = {"RE"}
  /\ host_inactive = 0
  /\ alarm \in BOOLEAN
  /\ timeout = IF alarm THEN DEFAULT_TIMEOUT ELSE INT_MAX
  /\ \E zero \in Byte : rx_buf = [i \in Index |-> zero] /\ tx_buf = rx_buf
  /\ rx_in = 0 /\ rx_out = 0 /\ tx_in = 0 /\ tx_out = 0
  /\ irq = IrqIdle /\ writer = Idle /\ reader = Idle /\ taken = << >>

SetControl(enable) == irq_enable' = enable /\ control' = enable

-----------------------------------------------------------------------------
(* altera_avalon_jtag_uart_irq *)

IrqFrame == UNCHANGED <<host_inactive, timeout, alarm, ac, host, host_got,
                        writer, reader, taken>>

\* One turn of the outer loop starts with a read of CONTROL.
IrqControl ==
  /\ irq.pc = "control" \/ (irq.pc = "idle" /\ (RI \/ WI))
  /\ irq' = CASE RI -> [pc |-> "read", wi |-> WI, space |-> WSpace, ravail |-> TRUE]
              [] ~RI /\ WI -> [pc |-> "write", wi |-> TRUE, space |-> WSpace,
                               ravail |-> FALSE]
              [] ~RI /\ ~WI -> IrqIdle
  /\ UNCHANGED <<irq_enable, control, rx_fifo, tx_fifo, rxVars, txVars>>
  /\ IrqFrame

IrqRead ==
  /\ irq.pc = "read" /\ rxRoom
  /\ \/ /\ rx_fifo # << >>
        /\ rx_buf' = [rx_buf EXCEPT ![rx_in] = Head(rx_fifo)]
        /\ rx_in' = After(rx_in)
        /\ rx_fifo' = Tail(rx_fifo)
        /\ irq' = [irq EXCEPT !.ravail = Tail(rx_fifo) # << >>]
     \/ /\ rx_fifo = << >>
        /\ irq' = [irq EXCEPT !.pc = "read_end", !.ravail = FALSE]
        /\ UNCHANGED <<rx_buf, rx_in, rx_fifo>>
  /\ UNCHANGED <<rx_out, irq_enable, control, tx_fifo, txVars>> /\ IrqFrame

IrqReadFull ==
  /\ irq.pc = "read" /\ ~rxRoom
  /\ irq' = [irq EXCEPT !.pc = "read_end"]
  /\ UNCHANGED <<irq_enable, control, rx_fifo, tx_fifo, rxVars, txVars>> /\ IrqFrame

IrqReadEnd ==
  /\ irq.pc = "read_end"
  /\ irq' = [irq EXCEPT !.pc = IF irq.wi THEN "write" ELSE "control"]
  /\ SetControl(IF irq.ravail THEN irq_enable \ {"RE"} ELSE irq_enable)
  /\ UNCHANGED <<rx_fifo, tx_fifo, rxVars, txVars>> /\ IrqFrame

IrqWrite ==
  /\ irq.pc = "write" /\ irq.space > 0 /\ tx_out # tx_in
  /\ tx_fifo' = Append(tx_fifo, tx_buf[tx_out])
  /\ tx_out' = After(tx_out)
  /\ irq' = [irq EXCEPT !.space = irq.space - 1]
  /\ UNCHANGED <<irq_enable, control, rx_fifo, rxVars, tx_buf, tx_in>> /\ IrqFrame

IrqWriteEnd ==
  /\ irq.pc = "write" /\ (irq.space = 0 \/ tx_out = tx_in)
  /\ irq' = [irq EXCEPT !.pc = "control"]
  /\ SetControl(EnableAfterDrain)
  /\ UNCHANGED <<rx_fifo, tx_fifo, rxVars, txVars>> /\ IrqFrame

Irq == IrqControl \/ IrqRead \/ IrqReadFull \/ IrqReadEnd \/ IrqWrite \/ IrqWriteEnd

\* altera_avalon_jtag_uart_timeout, once a second
Timeout ==
  /\ alarm /\ threads
  /\ \/ /\ ac /\ host_inactive' = 0
        /\ control' = irq_enable /\ ac' = FALSE
     \/ /\ ~ac /\ host_inactive < INT_MAX - 2
        /\ host_inactive' = host_inactive + 1
        /\ UNCHANGED <<control, ac>>
  /\ UNCHANGED <<irq_enable, timeout, alarm, rx_fifo, tx_fifo, host, host_got,
                 rxVars, txVars, irq, writer, reader, taken>>

-----------------------------------------------------------------------------
(* altera_avalon_jtag_uart_write *)

WriterFrame == UNCHANGED <<host_inactive, timeout, alarm, ac, rx_fifo, tx_fifo,
                           host, host_got, rxVars, tx_out, irq, reader, taken>>
WriterOnly(w) ==
  /\ writer' = w
  /\ UNCHANGED <<irq_enable, control, tx_buf, tx_in>> /\ WriterFrame
WriterAt(pc) == threads /\ writer.pc = pc

CallWrite ==
  /\ "writer" \in program.threads /\ WriterAt("idle")
  /\ \E count \in Counts, nonblock \in BOOLEAN :
       WriterOnly([Idle EXCEPT !.pc = "pointers", !.asked = count,
                               !.nonblock = nonblock])

WritePointers ==
  /\ WriterAt("pointers")
  /\ LET n == AtMost(Room(tx_in, tx_out), writer.asked) IN
     WriterOnly([writer EXCEPT !.pc = IF n = 0 THEN "kick" ELSE "copy",
                               !.in = tx_in, !.out = tx_out, !.n = n])

WriteCopy ==
  /\ WriterAt("copy")
  /\ \E bytes \in [1..writer.n -> Byte] :
       tx_buf' = [i \in Index |->
                    IF i \in writer.in..(writer.in + writer.n - 1)
                    THEN bytes[i - writer.in + 1] ELSE tx_buf[i]]
  /\ writer' = [writer EXCEPT !.pc = "advance"]
  /\ UNCHANGED <<irq_enable, control, tx_in>> /\ WriterFrame

WriteAdvance ==
  /\ WriterAt("advance")
  /\ tx_in' = (writer.in + writer.n) % BUF_LEN
  /\ writer' = [writer EXCEPT
                  !.pc = IF writer.asked = writer.n THEN "kick" ELSE "pointers",
                  !.asked = writer.asked - writer.n, !.done = writer.done + writer.n]
  /\ UNCHANGED <<irq_enable, control, tx_buf>> /\ WriterFrame

WriteKick ==
  /\ WriterAt("kick")
  /\ SetControl(EnableToSend)
  /\ writer' = [writer EXCEPT
                  !.pc = IF writer.asked > 0 /\ ~writer.nonblock THEN "wait" ELSE "return"]
  /\ UNCHANGED <<tx_buf, tx_in>> /\ WriterFrame

\* The loop ends for room, or for a host it finds gone.
WriteWait ==
  /\ WriterAt("wait")
  /\ writer.out # tx_out \/ hostInactive
  /\ WriterOnly([writer EXCEPT !.pc = "test"])

WriteTest ==
  /\ WriterAt("test")
  /\ WriterOnly([writer EXCEPT !.pc = IF host_inactive > 0 THEN "return" ELSE "pointers"])

WriteReturn ==
  /\ WriterAt("return")
  /\ WriterOnly([Idle EXCEPT !.result =
       CASE writer.done > 0 -> "written"
         [] writer.done = 0 /\ writer.nonblock -> "EWOULDBLOCK"
         [] writer.done = 0 /\ ~writer.nonblock -> "EIO"])

\* altera_avalon_jtag_uart_close, called by the thread that has written.
CallClose ==
  /\ "writer" \in program.threads /\ WriterAt("idle")
  /\ \E nonblock \in BOOLEAN :
       WriterOnly([Idle EXCEPT !.pc = "close", !.nonblock = nonblock])

CloseWait ==
  /\ WriterAt("close")
  /\ \/ /\ tx_out = tx_in \/ hostInactive
        /\ WriterOnly([Idle EXCEPT !.result = "closed"])
     \/ /\ tx_out # tx_in /\ ~hostInactive /\ writer.nonblock
        /\ WriterOnly([Idle EXCEPT !.result = "EWOULDBLOCK"])

Writer == \/ WritePointers \/ WriteCopy \/ WriteAdvance \/ WriteKick \/ WriteWait
          \/ WriteTest \/ WriteReturn \/ CloseWait

-----------------------------------------------------------------------------
(* altera_avalon_jtag_uart_read *)

ReaderFrame == UNCHANGED <<host_inactive, timeout, alarm, ac, rx_fifo, tx_fifo, host,
                           host_got, txVars, rx_buf, rx_in, irq, writer>>
ReaderOnly(r) ==
  /\ reader' = r
  /\ UNCHANGED <<irq_enable, control, rx_out, taken>> /\ ReaderFrame
ReaderAt(pc) == threads /\ reader.pc = pc

CallRead ==
  /\ "reader" \in program.threads /\ ReaderAt("idle")
  /\ \E space \in Counts, nonblock \in BOOLEAN :
       ReaderOnly([Idle EXCEPT !.pc = "pointers", !.asked = space,
                               !.nonblock = nonblock])

ReadPointers ==
  /\ ReaderAt("pointers")
  /\ LET n == AtMost(Filled(rx_in, rx_out), reader.asked) IN
     ReaderOnly([reader EXCEPT
                   !.pc = CASE n > 0 -> "copy"
                            [] n = 0 /\ (reader.done > 0 \/ reader.nonblock) -> "enable"
                            [] n = 0 /\ reader.done = 0 /\ ~reader.nonblock -> "wait",
                   !.in = rx_in, !.out = rx_out, !.n = n])

ReadCopy ==
  /\ ReaderAt("copy")
  /\ reader' = [reader EXCEPT !.pc = "advance"]
  /\ taken' = [k \in 1..reader.n |-> rx_buf[reader.out + k - 1]]
  /\ UNCHANGED <<irq_enable, control, rx_out>> /\ ReaderFrame

ReadAdvance ==
  /\ ReaderAt("advance")
  /\ rx_out' = (reader.out + reader.n) % BUF_LEN
  /\ reader' = [reader EXCEPT
                  !.pc = IF reader.asked = reader.n THEN "enable" ELSE "pointers",
                  !.asked = reader.asked - reader.n, !.done = reader.done + reader.n]
  /\ UNCHANGED <<irq_enable, control, taken>> /\ ReaderFrame

ReadWait ==
  /\ ReaderAt("wait")
  /\ reader.in # rx_in \/ hostInactive
  /\ ReaderOnly([reader EXCEPT !.pc = "test"])

ReadTest ==
  /\ ReaderAt("test")
  /\ ReaderOnly([reader EXCEPT !.pc = IF reader.in = rx_in THEN "enable" ELSE "pointers"])

ReadEnable ==
  /\ ReaderAt("enable")
  /\ SetControl(EnableAfterRead)
  /\ reader' = [Idle EXCEPT !.result =
       CASE reader.done > 0 -> "read"
         [] reader.done = 0 /\ reader.nonblock -> "EWOULDBLOCK"
         [] reader.done = 0 /\ ~reader.nonblock -> "EIO"]
  /\ UNCHANGED <<rx_out, taken>> /\ ReaderFrame

Reader == ReadPointers \/ ReadCopy \/ ReadAdvance \/ ReadWait \/ ReadTest \/ ReadEnable

\* altera_avalon_jtag_uart_ioctl with TIOCSTIMEOUT
SetTimeout ==
  /\ threads /\ timeout # INT_MAX
  /\ \E arg \in Timeouts :
       timeout' = IF arg >= 2 /\ arg < INT_MAX THEN arg ELSE INT_MAX - 1
  /\ UNCHANGED <<deviceVars, irq_enable, host_inactive, alarm, rxVars, txVars, irq,
                 writer, reader, taken>>

\* altera_avalon_jtag_uart_ioctl with TIOCGCONNECTED
connected == ~hostInactive

HostStep == Host(program.host) /\ UNCHANGED <<uartVars, rxVars, txVars, irq, writer, reader, taken>>

Next ==
  /\ UNCHANGED program
  /\ \/ Irq \/ Timeout
     \/ CallWrite \/ CallClose \/ Writer
     \/ CallRead \/ Reader
     \/ SetTimeout
     \/ HostStep

Spec == Init /\ [][Next]_vars

\* The processor comes back from the handler, the alarm goes off every second,
\* a host that is there reads.
Fairness ==
  /\ WF_vars(Irq /\ UNCHANGED program) /\ SF_vars(Timeout /\ UNCHANGED program)
  /\ SF_vars(Writer /\ UNCHANGED program) /\ SF_vars(Reader /\ UNCHANGED program)
  /\ SF_vars(HostReads /\ HostStep /\ UNCHANGED program)

-----------------------------------------------------------------------------
Pcs == {"idle", "pointers", "copy", "advance", "kick", "wait", "test", "return",
        "close", "enable"}
Results == {"none", "written", "read", "closed", "EWOULDBLOCK", "EIO"}

\* A thread's place in its call, with a chunk that lies inside the buffer.
ThreadOK(t) ==
  /\ t.pc \in Pcs /\ t.result \in Results
  /\ t.nonblock \in BOOLEAN
  /\ t.in \in Index /\ t.out \in Index
  /\ t.asked \in Nat /\ t.done \in Nat /\ t.n \in Nat
Chunk(t, from) ==
  t.pc \in {"copy", "advance"} => t.n \in 1..t.asked /\ from + t.n <= BUF_LEN

\* The state of the driver keeps to its types, and no chunk of a copy passes
\* the end of its buffer.
TypeOK ==
  /\ program \in Programs /\ DeviceTypeOK
  /\ irq_enable \subseteq {"RE", "WE"} /\ control = irq_enable
  /\ host_inactive \in 0..(INT_MAX - 2) /\ timeout \in 1..INT_MAX /\ alarm \in BOOLEAN
  /\ {rx_in, rx_out, tx_in, tx_out} \subseteq Index
  /\ rx_buf \in [Index -> Byte] /\ tx_buf \in [Index -> Byte]
  /\ irq.pc \in {"idle", "control", "read", "read_end", "write"}
  /\ irq.space \in 0..Depth /\ irq.wi \in BOOLEAN /\ irq.ravail \in BOOLEAN
  /\ irq.pc = "write" => Len(tx_fifo) + irq.space <= Depth
  /\ ThreadOK(writer) /\ ThreadOK(reader)
  /\ Chunk(writer, writer.in) /\ Chunk(reader, reader.out)
  /\ taken \in Seq(Byte)

\* No lost kick: when bytes wait in the transmit ring and the transmit
\* interrupt is off, the writer that put them there has still to turn it on
\* (write.c turns it on after the copy loop, the handler turns it off when it
\* finds the ring empty).
WaitingBytesAreKicked ==
  tx_in # tx_out /\ "WE" \notin control =>
    writer.pc \in {"pointers", "copy", "advance", "kick"} /\ writer.done > 0

\* The receive interrupt is off only while the ring is full, or while the
\* reader that has made room has still to turn it on again (the handler turns
\* it off without looking at the reader).
ReceiverResumes ==
  "RE" \notin control =>
    \/ After(rx_in) = rx_out
    \/ /\ reader.pc \in {"pointers", "copy", "advance", "enable"}
       /\ reader.done > 0

\* An interrupt that has been turned off is not forgotten, in either direction.
InterruptsStayOn == WaitingBytesAreKicked /\ ReceiverResumes

\* The transmit direction is a byte stream: what write copies comes to the
\* host once and in order, for all that the handler does between its steps.
TxRing == Held(tx_buf, tx_out, tx_in)
Tx == INSTANCE ByteStream WITH stream <- tx_fifo \o TxRing, delivered <- host_got
TxStream == Tx!Spec

\* The receive direction is a byte stream: what the host sends comes to the
\* reader once and in order.  A byte leaves the stream when it is copied.
rxCopied == IF reader.pc = "advance" THEN (reader.out + reader.n) % BUF_LEN
            ELSE rx_out
RxRing == Held(rx_buf, rxCopied, rx_in)
Rx == INSTANCE ByteStream WITH stream <- RxRing \o rx_fifo, delivered <- taken
RxStream == Rx!Spec

\* With the alarm a write or a close comes back: the host reads, or the alarm
\* finds that it is gone.
WriteReturns == alarm => (writer.pc # "idle" ~> writer.pc = "idle")

\* A read during which a byte comes from the host comes back: the handler
\* fetches it, or has been turned off by a ring that the reader then empties.
ReadReturns ==
  reader.pc # "idle" /\ rx_fifo # << >> ~> reader.pc = "idle"

\* A call comes back, whatever the handler and the alarm do meanwhile
\* (write.c:177-214, read.c:171-203, init.c:240-254).
CallsReturn == WriteReturns /\ ReadReturns

\* A byte in the transmit ring goes to the device while a host is there, with
\* no other call of the driver.
RingDrains ==
  \A i \in Index : <>[]host => (tx_in # tx_out /\ tx_out = i ~> tx_out # i)

\* Whatever the handler, the alarm and the calls do between each other's steps,
\* calls come back and written bytes leave the ring.
Progress == CallsReturn /\ RingDrains
===================================================================================
