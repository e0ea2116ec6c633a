-------------------------------- MODULE JtagUart_proofs --------------------------------
(***************************************************************************)
(* The JTAG UART's driver for every size of its rings and of the FIFOs,    *)
(* every set of bytes, threads and time-outs: an interrupt is never left   *)
(* off while there is work for it, each direction is a stream of bytes -   *)
(* what is read is what was written, in that order, with nothing lost in   *)
(* the rings - and no copy passes the end of its buffer.                   *)
(***************************************************************************)
EXTENDS JtagUart, SequenceTheorems, TLAPS

\* The enables of the device are those the driver keeps.
EnablesWritten == control = irq_enable

\* The handler remembers that bytes are left only when it ends at a full ring.
RavailMeansFull == irq.pc = "read_end" /\ irq.ravail => After(rx_in) = rx_out

\* The record of a thread; a copy has a chunk that is part of its request.
USE DEF Pcs, Results

ThreadRecord(t) ==
  t \in [pc : Pcs, nonblock : BOOLEAN, asked : Nat, done : Nat,
        in : Index, out : Index, n : Nat, result : Results]

ThreadType(t) ==
  ThreadRecord(t) /\ (t.pc \in {"copy", "advance"} => t.n \in 1..t.asked)

IrqType == irq \in [pc : {"idle", "control", "read", "read_end", "write"}, wi : BOOLEAN, space : Int, ravail : BOOLEAN]

\* The inductive invariant: what the two promises rest on, and the promises.
KickInv ==
  /\ EnablesWritten
  /\ tx_in \in Index /\ tx_out \in Index /\ rx_in \in Index /\ rx_out \in Index
  /\ ThreadType(writer) /\ ThreadType(reader) /\ IrqType
  /\ RavailMeansFull
  /\ WaitingBytesAreKicked
  /\ ReceiverResumes

-----------------------------------------------------------------------------
LEMMA IndexAfter == ASSUME NEW i \in Nat PROVE i % BUF_LEN \in Index
BY UartAssumption DEF UartAssumption, Index

LEMMA AfterIndex == ASSUME NEW i \in Index PROVE After(i) \in Index
<1>1. i + 1 \in Nat
  BY UartAssumption DEF UartAssumption, Index
<1> QED
  BY <1>1, IndexAfter DEF After

LEMMA IdleThread == ThreadType(Idle) /\ Idle.pc = "idle"
<1>1. 0 \in Index
  BY UartAssumption DEF UartAssumption, Index
<1> QED
  BY <1>1 DEF ThreadType, ThreadRecord, Idle

\* The fields of a thread's record after the updates that the actions make.
LEMMA NewPlace ==
  ASSUME NEW t, NEW u, ThreadRecord(t), NEW pc \in Pcs, u = [t EXCEPT !.pc = pc]
  PROVE  ThreadRecord(u) /\ u.pc = pc /\ u.asked = t.asked /\ u.done = t.done /\ u.n = t.n
BY DEF ThreadRecord

LEMMA NewCall ==
  ASSUME NEW u, NEW pc \in Pcs, NEW a \in Nat, NEW b \in BOOLEAN,
         u = [Idle EXCEPT !.pc = pc, !.asked = a, !.nonblock = b]
  PROVE  ThreadRecord(u) /\ u.pc = pc
<1>1. ThreadRecord(Idle)
  BY IdleThread DEF ThreadType
<1> QED
  BY <1>1 DEF ThreadRecord

LEMMA NewClose ==
  ASSUME NEW u, NEW b \in BOOLEAN, u = [Idle EXCEPT !.pc = "close", !.nonblock = b]
  PROVE  ThreadRecord(u) /\ u.pc = "close"
<1>1. ThreadRecord(Idle)
  BY IdleThread DEF ThreadType
<1> QED
  BY <1>1 DEF ThreadRecord

LEMMA NewResult ==
  ASSUME NEW u, NEW r \in Results, u = [Idle EXCEPT !.result = r]
  PROVE  ThreadType(u) /\ u.pc = "idle"
BY IdleThread DEF ThreadRecord, ThreadType

LEMMA WritePointersThread ==
  ASSUME ThreadRecord(writer), tx_in \in Index, tx_out \in Index,
         AtMost(Room(tx_in, tx_out), writer.asked) \in Nat, WritePointers
  PROVE  /\ ThreadRecord(writer') /\ writer'.n = AtMost(Room(tx_in, tx_out), writer.asked)
         /\ writer'.done = writer.done /\ writer'.asked = writer.asked
         /\ writer'.pc = IF writer'.n = 0 THEN "kick" ELSE "copy"
BY DEF WritePointers, WriterOnly, ThreadRecord

LEMMA WriteAdvanceThread ==
  ASSUME ThreadRecord(writer), writer.n \in 1..writer.asked, WriteAdvance
  PROVE  ThreadRecord(writer') /\ writer'.done > 0 /\ writer'.pc \in {"kick", "pointers"}
<1> DEFINE a == writer.asked - writer.n
           d == writer.done + writer.n
           pc == IF writer.asked = writer.n THEN "kick" ELSE "pointers"
<1>1. writer.asked \in Nat /\ writer.done \in Nat
  BY DEF ThreadRecord
<1>2. a \in Nat /\ d \in Nat /\ d > 0 /\ pc \in {"kick", "pointers"}
  BY <1>1
<1>3. writer' = [writer EXCEPT !.pc = pc, !.asked = a, !.done = d]
  BY DEF WriteAdvance
<1> HIDE DEF a, d, pc
<1> QED
  BY <1>2, <1>3 DEF ThreadRecord

LEMMA ReadPointersThread ==
  ASSUME ThreadRecord(reader), rx_in \in Index, rx_out \in Index,
         AtMost(Filled(rx_in, rx_out), reader.asked) \in Nat, ReadPointers
  PROVE  /\ ThreadRecord(reader') /\ reader'.n = AtMost(Filled(rx_in, rx_out), reader.asked)
         /\ reader'.done = reader.done /\ reader'.asked = reader.asked
         /\ reader'.pc \in {"copy", "enable", "wait"} /\ (reader'.pc = "copy" => reader'.n > 0)
         /\ reader'.done > 0 => reader'.pc # "wait"
<1> DEFINE n == AtMost(Filled(rx_in, rx_out), reader.asked)
           pc == CASE n > 0 -> "copy"
                   [] n = 0 /\ (reader.done > 0 \/ reader.nonblock) -> "enable"
                   [] n = 0 /\ reader.done = 0 /\ ~reader.nonblock -> "wait"
<1>1. reader.done \in Nat /\ reader.nonblock \in BOOLEAN
  BY DEF ThreadRecord
<1>2. reader' = [reader EXCEPT !.pc = pc, !.in = rx_in, !.out = rx_out, !.n = n]
  BY DEF ReadPointers, ReaderOnly
<1> HIDE DEF n
<1>3. n \in Nat
  BY DEF n
<1>4. /\ pc \in {"copy", "enable", "wait"} /\ (pc = "copy" => n > 0)
      /\ reader.done > 0 => pc # "wait"
  BY <1>1, <1>3
<1> HIDE DEF pc
<1>5. /\ ThreadRecord(reader') /\ reader'.n = n /\ reader'.pc = pc
      /\ reader'.done = reader.done /\ reader'.asked = reader.asked
  BY <1>1, <1>2, <1>3, <1>4 DEF ThreadRecord
<1> QED
  BY <1>4, <1>5 DEF n

LEMMA ReadAdvanceThread ==
  ASSUME ThreadRecord(reader), reader.n \in 1..reader.asked, ReadAdvance
  PROVE  ThreadRecord(reader') /\ reader'.done > 0 /\ reader'.pc \in {"enable", "pointers"}
<1> DEFINE a == reader.asked - reader.n
           d == reader.done + reader.n
           pc == IF reader.asked = reader.n THEN "enable" ELSE "pointers"
<1>1. reader.asked \in Nat /\ reader.done \in Nat
  BY DEF ThreadRecord
<1>2. a \in Nat /\ d \in Nat /\ d > 0 /\ pc \in {"enable", "pointers"}
  BY <1>1
<1>3. reader' = [reader EXCEPT !.pc = pc, !.asked = a, !.done = d]
  BY DEF ReadAdvance
<1> HIDE DEF a, d, pc
<1> QED
  BY <1>2, <1>3 DEF ThreadRecord

LEMMA InitKick == Init => KickInv
<1> SUFFICES ASSUME Init PROVE KickInv
  OBVIOUS
<1>1. 0 \in Index
  BY UartAssumption DEF UartAssumption, Index
<1>2. IrqType
  BY DEF Init, IrqType, IrqIdle
<1>4. ThreadType(writer) /\ ThreadType(reader)
  BY IdleThread DEF Init
<1> QED
  BY <1>1, <1>2, <1>4 DEF Init, KickInv, EnablesWritten, RavailMeansFull,
     WaitingBytesAreKicked, ReceiverResumes, IrqIdle

\* The handler: the ring that turns a receive interrupt off is full, the ring
\* that turns a transmit interrupt off is empty.
LEMMA IrqKick == ASSUME KickInv, Irq PROVE KickInv'
<1> USE DEF KickInv, IrqFrame, EnablesWritten, RavailMeansFull, WaitingBytesAreKicked,
        ReceiverResumes
<1>1. writer' = writer /\ reader' = reader /\ ThreadType(writer') /\ ThreadType(reader')
  BY DEF Irq, IrqControl, IrqRead, IrqReadFull, IrqReadEnd, IrqWrite, IrqWriteEnd
<1>2. CASE IrqControl
  <2>1. WSpace \in Int
    BY DeviceAssumption DEF DeviceAssumption, WSpace
  <2>2. IrqType'
    BY <1>2, <2>1 DEF IrqControl, IrqType, IrqIdle, RI, WI
  <2> QED
    BY <1>1, <1>2, <2>2 DEF IrqControl, rxVars, txVars, IrqIdle
<1>3. CASE IrqRead
  <2>1. After(rx_in) \in Index
    BY AfterIndex
  <2>2. IrqType'
    BY <1>3 DEF IrqRead, IrqType
  <2> QED
    BY <1>1, <1>3, <2>1, <2>2 DEF IrqRead, txVars, rxRoom, IrqType
<1>4. CASE IrqReadFull
  BY <1>1, <1>4 DEF IrqReadFull, rxVars, txVars, rxRoom, IrqType
<1>5. CASE IrqReadEnd
  BY <1>1, <1>5 DEF IrqReadEnd, SetControl, rxVars, txVars, IrqType
<1>6. CASE IrqWrite
  <2>1. After(tx_out) \in Index
    BY AfterIndex
  <2> QED
    BY <1>1, <1>6, <2>1 DEF IrqWrite, rxVars, IrqType
<1>7. CASE IrqWriteEnd
  BY <1>1, <1>7 DEF IrqWriteEnd, SetControl, EnableAfterDrain, rxVars, txVars, IrqType
<1> QED
  BY <1>2, <1>3, <1>4, <1>5, <1>6, <1>7 DEF Irq

\* The writer: from the bytes it puts in the ring to the kick, it is the one
\* that WaitingBytesAreKicked waits for.
LEMMA WriterKick == ASSUME KickInv, CallWrite \/ CallClose \/ Writer PROVE KickInv'
<1> USE DEF KickInv, WriterFrame, WriterOnly, WriterAt, EnablesWritten, RavailMeansFull,
        WaitingBytesAreKicked, ReceiverResumes, rxVars, IrqType, SetControl
<1>0. ThreadRecord(writer)
  BY DEF ThreadType
<1>1. CASE CallWrite
  <2>1. PICK count \in Counts, nonblock \in BOOLEAN :
          writer' = [Idle EXCEPT !.pc = "pointers", !.asked = count,
                                 !.nonblock = nonblock]
    BY <1>1 DEF CallWrite
  <2>2. count \in Nat
    BY UartAssumption DEF UartAssumption
  <2>3. ThreadType(writer')
    BY <2>1, <2>2, NewCall DEF ThreadType
  <2> QED
    BY <1>1, <2>3 DEF CallWrite
<1>2. CASE WritePointers
  <2>1. LET n == AtMost(Room(tx_in, tx_out), writer.asked) IN n \in Nat /\ n <= writer.asked
    BY <1>0, UartAssumption DEF UartAssumption, Room, Index, AtMost, ThreadRecord
  <2>2. /\ ThreadRecord(writer') /\ writer'.n <= writer'.asked /\ writer'.n \in Nat
        /\ writer'.done = writer.done /\ writer'.pc = IF writer'.n = 0 THEN "kick" ELSE "copy"
    BY <1>0, <1>2, <2>1, WritePointersThread
  <2>3. ThreadType(writer')
    BY <2>2 DEF ThreadType, ThreadRecord
  <2> QED
    BY <1>2, <2>2, <2>3 DEF WritePointers
<1>3. CASE WriteCopy
  <2>1. ThreadRecord(writer') /\ writer'.pc = "advance" /\ writer'.done = writer.done
        /\ writer'.n = writer.n /\ writer'.asked = writer.asked
    BY <1>0, <1>3, NewPlace DEF WriteCopy
  <2>2. ThreadType(writer')
    BY <1>3, <2>1 DEF ThreadType, WriteCopy
  <2> QED
    BY <1>3, <2>1, <2>2 DEF WriteCopy
<1>4. CASE WriteAdvance
  <2>1. /\ writer.in + writer.n \in Nat /\ writer.n \in 1..writer.asked
        /\ writer.done \in Nat /\ writer.asked \in Nat
    BY <1>0, <1>4, UartAssumption DEF WriteAdvance, ThreadType, ThreadRecord, UartAssumption, Index
  <2>2. tx_in' \in Index
    BY <1>4, <2>1, IndexAfter DEF WriteAdvance
  <2>4. ThreadRecord(writer') /\ writer'.done > 0 /\ writer'.pc \in {"kick", "pointers"}
    BY <1>0, <1>4, <2>1, WriteAdvanceThread
  <2>5. ThreadType(writer')
    BY <2>4 DEF ThreadType
  <2> QED
    BY <1>4, <2>2, <2>4, <2>5 DEF WriteAdvance
<1>5. CASE WriteKick
  <2> DEFINE pc == IF writer.asked > 0 /\ ~writer.nonblock THEN "wait" ELSE "return"
  <2>3. ThreadRecord(writer') /\ writer'.pc = pc
    BY <1>0, <1>5, NewPlace DEF WriteKick
  <2>4. ThreadType(writer')
    BY <2>3 DEF ThreadType
  <2> QED
    BY <1>5, <2>4 DEF WriteKick, EnableToSend
<1>6. CASE WriteWait
  <2>1. ThreadRecord(writer') /\ writer'.pc = "test"
    BY <1>0, <1>6, NewPlace DEF WriteWait
  <2>2. ThreadType(writer')
    BY <2>1 DEF ThreadType
  <2> QED
    BY <1>6, <2>2 DEF WriteWait
<1>7. CASE WriteTest
  <2>1. ThreadRecord(writer') /\ writer'.pc \in {"return", "pointers"}
    BY <1>0, <1>7, NewPlace DEF WriteTest
  <2>2. ThreadType(writer')
    BY <2>1 DEF ThreadType
  <2> QED
    BY <1>7, <2>2 DEF WriteTest
<1>8. CASE WriteReturn
  <2>1. \E r \in Results : writer' = [Idle EXCEPT !.result = r]
    BY <1>0, <1>8 DEF WriteReturn, ThreadRecord
  <2>2. ThreadType(writer')
    BY <2>1, NewResult
  <2> QED
    BY <1>8, <2>2 DEF WriteReturn
<1>9. CASE CallClose
  <2>2. ThreadRecord(writer') /\ writer'.pc = "close"
    BY <1>9, NewClose DEF CallClose
  <2>3. ThreadType(writer')
    BY <2>2 DEF ThreadType
  <2> QED
    BY <1>9, <2>3 DEF CallClose
<1>10. CASE CloseWait
  <2>1. \E r \in Results : writer' = [Idle EXCEPT !.result = r]
    BY <1>10 DEF CloseWait
  <2>2. ThreadType(writer')
    BY <2>1, NewResult
  <2> QED
    BY <1>10, <2>2 DEF CloseWait
<1> QED
  BY <1>1, <1>2, <1>3, <1>4, <1>5, <1>6, <1>7, <1>8, <1>9, <1>10 DEF Writer

\* The reader: from the room it makes to the end of its call it is the one
\* that ReceiverResumes waits for.
LEMMA ReaderKick == ASSUME KickInv, CallRead \/ Reader PROVE KickInv'
<1> USE DEF KickInv, ReaderFrame, ReaderOnly, ReaderAt, EnablesWritten, RavailMeansFull,
        WaitingBytesAreKicked, ReceiverResumes, txVars, IrqType, SetControl, threads
<1>0. ThreadRecord(reader)
  BY DEF ThreadType
<1>1. CASE CallRead
  <2>1. PICK space \in Counts, nonblock \in BOOLEAN :
          reader' = [Idle EXCEPT !.pc = "pointers", !.asked = space,
                                 !.nonblock = nonblock]
    BY <1>1 DEF CallRead
  <2>2. space \in Nat
    BY UartAssumption DEF UartAssumption
  <2>3. ThreadType(reader')
    BY <2>1, <2>2, NewCall DEF ThreadType
  <2> QED
    BY <1>1, <2>3 DEF CallRead
<1>2. CASE ReadPointers
  <2>1. LET n == AtMost(Filled(rx_in, rx_out), reader.asked) IN n \in Nat /\ n <= reader.asked
    BY <1>0, UartAssumption DEF UartAssumption, Filled, Index, AtMost, ThreadRecord
  <2>2. /\ ThreadRecord(reader') /\ reader'.n <= reader'.asked /\ reader'.n \in Nat
        /\ reader'.done = reader.done
        /\ reader'.pc \in {"copy", "enable", "wait"} /\ (reader'.pc = "copy" => reader'.n > 0)
        /\ reader'.done > 0 => reader'.pc # "wait"
    BY <1>0, <1>2, <2>1, ReadPointersThread
  <2>3. ThreadType(reader')
    BY <2>2 DEF ThreadType, ThreadRecord
  <2> QED
    BY <1>2, <2>2, <2>3 DEF ReadPointers
<1>3. CASE ReadCopy
  <2>1. ThreadRecord(reader') /\ reader'.pc = "advance" /\ reader'.done = reader.done
        /\ reader'.n = reader.n /\ reader'.asked = reader.asked
    BY <1>0, <1>3, NewPlace DEF ReadCopy
  <2>2. ThreadType(reader')
    BY <1>3, <2>1 DEF ThreadType, ReadCopy
  <2> QED
    BY <1>3, <2>1, <2>2 DEF ReadCopy
<1>4. CASE ReadAdvance
  <2>1. /\ reader.out + reader.n \in Nat /\ reader.n \in 1..reader.asked
        /\ reader.done \in Nat /\ reader.asked \in Nat
    BY <1>0, <1>4, UartAssumption DEF ReadAdvance, ThreadType, ThreadRecord, UartAssumption, Index
  <2>2. rx_out' \in Index
    BY <1>4, <2>1, IndexAfter DEF ReadAdvance
  <2>4. ThreadRecord(reader') /\ reader'.done > 0 /\ reader'.pc \in {"enable", "pointers"}
    BY <1>0, <1>4, <2>1, ReadAdvanceThread
  <2>5. ThreadType(reader')
    BY <2>4 DEF ThreadType
  <2> QED
    BY <1>4, <2>2, <2>4, <2>5 DEF ReadAdvance
<1>5. CASE ReadWait
  <2>1. ThreadRecord(reader') /\ reader'.pc = "test"
    BY <1>0, <1>5, NewPlace DEF ReadWait
  <2>2. ThreadType(reader')
    BY <2>1 DEF ThreadType
  <2> QED
    BY <1>5, <2>2 DEF ReadWait
<1>6. CASE ReadTest
  <2>1. ThreadRecord(reader') /\ reader'.pc \in {"enable", "pointers"}
    BY <1>0, <1>6, NewPlace DEF ReadTest
  <2>2. ThreadType(reader')
    BY <2>1 DEF ThreadType
  <2> QED
    BY <1>6, <2>2 DEF ReadTest
<1>7. CASE ReadEnable
  <2>1. \E r \in Results : reader' = [Idle EXCEPT !.result = r]
    BY <1>0, <1>7 DEF ReadEnable, ThreadRecord
  <2>2. ThreadType(reader')
    BY <2>1, NewResult
  <2> QED
    BY <1>7, <2>2 DEF ReadEnable, EnableAfterRead
<1> QED
  BY <1>1, <1>2, <1>3, <1>4, <1>5, <1>6, <1>7 DEF Reader

LEMMA OtherKick ==
  ASSUME KickInv, Timeout \/ SetTimeout \/ HostStep \/ UNCHANGED vars
  PROVE  KickInv'
<1> USE DEF KickInv, EnablesWritten, RavailMeansFull, WaitingBytesAreKicked,
        ReceiverResumes, IrqType, ThreadType, rxVars, txVars, uartVars, deviceVars
<1>1. CASE Timeout
  BY <1>1 DEF Timeout
<1>2. CASE SetTimeout
  BY <1>2 DEF SetTimeout
<1>3. CASE HostStep
  BY <1>3 DEF HostStep, Host, HostSends, HostReads, HostPolls, HostPlugged
<1>4. CASE UNCHANGED vars
  BY <1>4 DEF vars
<1> QED
  BY <1>1, <1>2, <1>3, <1>4

LEMMA KickInvariance == Spec => []KickInv
<1>1. KickInv /\ [Next]_vars => KickInv'
  BY IrqKick, WriterKick, ReaderKick, OtherKick DEF Next
<1> QED
  BY <1>1, InitKick, PTL DEF Spec

\* No interrupt is left off: no byte waits in the transmit ring with the
\* interrupt off and nobody about to turn it on, and the receive interrupt is
\* off only while the ring is full or a reader that has made room has still to
\* turn it on.
THEOREM NoLostInterrupt == Spec => []InterruptsStayOn
<1>1. KickInv => InterruptsStayOn
  BY DEF KickInv, InterruptsStayOn
<1> QED
  BY <1>1, KickInvariance, PTL
-----------------------------------------------------------------------------
(* The streams.  The ring of a direction is cut at the places its two      *)
(* users keep (Held, Count), and every action moves one of these places by *)
(* the bytes it stores or takes.                                           *)

\* A place up to a turn and a half behind the start of a ring; the bytes of a ring.
Wrapped(x) == IF x < BUF_LEN THEN x ELSE x - BUF_LEN
Count(out, in) == IF in >= out THEN in - out ELSE in + BUF_LEN - out

\* A place less than two turns from the start is wrapped by one subtraction.
LEMMA ModOnce == ASSUME NEW x \in 0..(2 * BUF_LEN - 1) PROVE x % BUF_LEN = Wrapped(x)
BY UartAssumption, SMTT(30) DEF UartAssumption, Wrapped

\* The bytes of a ring, without the remainders of the code's counters.
LEMMA HeldIs ==
  ASSUME NEW buf, NEW out \in Index, NEW in \in Index
  PROVE  /\ Count(out, in) \in 0..(BUF_LEN - 1)
         /\ Held(buf, out, in) = [k \in 1..Count(out, in) |-> buf[Wrapped(out + k - 1)]]
         /\ \A k \in 1..Count(out, in) : Wrapped(out + k - 1) \in Index
<1> USE UartAssumption DEF UartAssumption, Index
<1>1. (in + BUF_LEN - out) % BUF_LEN = Count(out, in)
  <2>1. in + BUF_LEN - out \in 0..(2 * BUF_LEN - 1)
    OBVIOUS
  <2> QED
    BY <2>1, ModOnce DEF Wrapped, Count
<1>2. Count(out, in) \in 0..(BUF_LEN - 1)
  BY DEF Count
<1>3. \A k \in 1..Count(out, in) : out + k - 1 \in 0..(2 * BUF_LEN - 1)
  BY <1>2
<1>4. \A k \in 1..Count(out, in) : (out + k - 1) % BUF_LEN = Wrapped(out + k - 1)
  BY <1>3, ModOnce
<1>5. \A k \in 1..Count(out, in) : Wrapped(out + k - 1) \in Index
  BY <1>3 DEF Wrapped
<1> QED
  BY <1>1, <1>2, <1>4, <1>5 DEF Held

\* What a ring holds is a sequence of bytes of that length.
LEMMA HeldType ==
  ASSUME NEW buf \in [Index -> Byte], NEW out \in Index, NEW in \in Index
  PROVE  /\ Held(buf, out, in) \in Seq(Byte)
         /\ Len(Held(buf, out, in)) = Count(out, in)
         /\ \A k \in 1..Count(out, in) : Held(buf, out, in)[k] = buf[Wrapped(out + k - 1)]
<1>1. Held(buf, out, in) = [k \in 1..Count(out, in) |-> buf[Wrapped(out + k - 1)]]
  BY HeldIs
<1>2. \A k \in 1..Count(out, in) : Wrapped(out + k - 1) \in Index
  BY HeldIs
<1>3. Count(out, in) \in Nat
  BY HeldIs, UartAssumption DEF UartAssumption
<1>4. Held(buf, out, in) \in [1..Count(out, in) -> Byte]
  BY <1>1, <1>2
<1>5. Held(buf, out, in) \in Seq(Byte) /\ Len(Held(buf, out, in)) = Count(out, in)
  BY <1>3, <1>4
<1> QED
  BY <1>1, <1>5

\* A sequence that agrees with one and, behind it, with another is the two joined.
LEMMA Joined ==
  ASSUME NEW S, NEW w \in Seq(S), NEW f \in Seq(S), NEW g \in Seq(S),
         Len(w) = Len(f) + Len(g),
         \A k \in 1..Len(f) : w[k] = f[k],
         \A k \in 1..Len(g) : w[Len(f) + k] = g[k]
  PROVE  w = f \o g
<1>1. /\ f \o g \in Seq(S) /\ Len(f \o g) = Len(f) + Len(g)
      /\ \A k \in 1..(Len(f) + Len(g)) : (f \o g)[k] = IF k <= Len(f) THEN f[k] ELSE g[k - Len(f)]
  BY ConcatProperties
<1>2. Len(f) \in Nat /\ Len(g) \in Nat
  BY LenProperties
<1>3. ASSUME NEW k \in 1..Len(w) PROVE w[k] = (f \o g)[k]
  <2>1. CASE k <= Len(f)
    BY <1>1, <1>2, <2>1
  <2>2. CASE k > Len(f)
    <3>1. k - Len(f) \in 1..Len(g) /\ Len(f) + (k - Len(f)) = k
      BY <1>2, <2>2
    <3> QED
      BY <1>1, <1>2, <2>2, <3>1
  <2> QED
    BY <1>2, <2>1, <2>2
<1> QED
  BY <1>1, <1>3, SeqEqual

\* A ring is what it holds up to some place in it and what it holds from there.
LEMMA HeldSplit ==
  ASSUME NEW buf \in [Index -> Byte], NEW out \in Index, NEW mid \in Index, NEW in \in Index,
         Count(out, in) = Count(out, mid) + Count(mid, in)
  PROVE  Held(buf, out, in) = Held(buf, out, mid) \o Held(buf, mid, in)
<1>1. Count(out, mid) \in Nat /\ Count(mid, in) \in Nat
  BY UartAssumption DEF UartAssumption, Index, Count
<1>2. \A k \in 1..Count(mid, in) :
         Wrapped(out + (Count(out, mid) + k) - 1) = Wrapped(mid + k - 1)
  BY UartAssumption DEF UartAssumption, Index, Wrapped, Count
<1>3. /\ Held(buf, out, in) \in Seq(Byte) /\ Len(Held(buf, out, in)) = Count(out, in)
      /\ \A k \in 1..Count(out, in) : Held(buf, out, in)[k] = buf[Wrapped(out + k - 1)]
  BY HeldType
<1>4. /\ Held(buf, out, mid) \in Seq(Byte) /\ Len(Held(buf, out, mid)) = Count(out, mid)
      /\ \A k \in 1..Count(out, mid) : Held(buf, out, mid)[k] = buf[Wrapped(out + k - 1)]
  BY HeldType
<1>5. /\ Held(buf, mid, in) \in Seq(Byte) /\ Len(Held(buf, mid, in)) = Count(mid, in)
      /\ \A k \in 1..Count(mid, in) : Held(buf, mid, in)[k] = buf[Wrapped(mid + k - 1)]
  BY HeldType
<1>6. ASSUME NEW k \in 1..Count(out, mid)
      PROVE  Held(buf, out, in)[k] = Held(buf, out, mid)[k]
  <2>1. k \in 1..Count(out, in)
    BY <1>1
  <2> QED
    BY <1>3, <1>4, <2>1
<1>7. ASSUME NEW k \in 1..Count(mid, in)
      PROVE  Held(buf, out, in)[Count(out, mid) + k] = Held(buf, mid, in)[k]
  <2>1. Count(out, mid) + k \in 1..Count(out, in)
    BY <1>1
  <2> QED
    BY <1>2, <1>3, <1>5, <2>1
<1> DEFINE w == Held(buf, out, in)
           f == Held(buf, out, mid)
           g == Held(buf, mid, in)
<1>8. w \in Seq(Byte) /\ f \in Seq(Byte) /\ g \in Seq(Byte)
  BY <1>3, <1>4, <1>5
<1>9. Len(w) = Len(f) + Len(g)
  BY <1>3, <1>4, <1>5
<1>10. \A k \in 1..Len(f) : w[k] = f[k]
  BY <1>4, <1>6
<1>11. \A k \in 1..Len(g) : w[Len(f) + k] = g[k]
  BY <1>4, <1>5, <1>7
<1> HIDE DEF w, f, g
<1>12. w = f \o g
  BY <1>8, <1>9, <1>10, <1>11, Joined
<1> QED
  BY <1>12 DEF w, f, g

\* A chunk that does not pass the end of the buffer.
LEMMA HeldChunk ==
  ASSUME NEW buf \in [Index -> Byte], NEW out \in Index, NEW in \in Index,
         out + Count(out, in) <= BUF_LEN
  PROVE  Held(buf, out, in) = [k \in 1..Count(out, in) |-> buf[out + k - 1]]
<1>1. \A k \in 1..Count(out, in) : Wrapped(out + k - 1) = out + k - 1
  BY UartAssumption DEF UartAssumption, Index, Wrapped, Count
<1>2. Held(buf, out, in) = [k \in 1..Count(out, in) |-> buf[Wrapped(out + k - 1)]]
  BY HeldIs
<1> QED
  BY <1>1, <1>2

\* A place that many bytes further.
LEMMA Further ==
  ASSUME NEW out \in Index, NEW n \in Nat, n < BUF_LEN
  PROVE  /\ (out + n) % BUF_LEN \in Index
         /\ Count(out, (out + n) % BUF_LEN) = n
         /\ (out + n) % BUF_LEN = Wrapped(out + n)
<1>1. (out + n) % BUF_LEN = Wrapped(out + n)
  BY ModOnce, UartAssumption DEF UartAssumption, Index
<1> QED
  BY <1>1, UartAssumption DEF UartAssumption, Index, Wrapped, Count

\* The next place is one byte further.
LEMMA AfterIs ==
  ASSUME NEW i \in Index
  PROVE  After(i) \in Index /\ Count(i, After(i)) = 1 /\ After(i) = Wrapped(i + 1)
BY Further, UartAssumption DEF UartAssumption, After

\* From a place to the next one there is the byte of that place.
LEMMA HeldOne ==
  ASSUME NEW buf \in [Index -> Byte], NEW out \in Index
  PROVE  Held(buf, out, After(out)) = <<buf[out]>>
<1>1. Held(buf, out, After(out)) = [k \in 1..Count(out, After(out)) |-> buf[out + k - 1]]
  <2>1. After(out) \in Index /\ Count(out, After(out)) = 1
    BY AfterIs
  <2>2. out + Count(out, After(out)) <= BUF_LEN
    BY <2>1, UartAssumption DEF UartAssumption, Index
  <2> QED
    BY <2>1, <2>2, HeldChunk
<1>2. \A k \in 1..1 : out + k - 1 = out
  BY DEF Index
<1>3. [k \in 1..1 |-> buf[out + k - 1]] = <<buf[out]>>
  BY <1>2
<1> QED
  BY <1>1, <1>3, AfterIs

\* What is stored outside of the bytes a ring holds does not change them.
LEMMA HeldKept ==
  ASSUME NEW buf \in [Index -> Byte], NEW new \in [Index -> Byte],
         NEW out \in Index, NEW in \in Index,
         \A k \in 1..Count(out, in) : new[Wrapped(out + k - 1)] = buf[Wrapped(out + k - 1)]
  PROVE  Held(new, out, in) = Held(buf, out, in)
<1>1. Held(buf, out, in) = [k \in 1..Count(out, in) |-> buf[Wrapped(out + k - 1)]]
  BY HeldIs
<1>2. Held(new, out, in) = [k \in 1..Count(out, in) |-> new[Wrapped(out + k - 1)]]
  BY HeldIs
<1> QED
  BY <1>1, <1>2

-----------------------------------------------------------------------------
\* What a sequence is followed by leaves it a prefix.
LEMMA PrefixOfJoined ==
  ASSUME NEW S, NEW s \in Seq(S), NEW t \in Seq(S)
  PROVE  /\ s \o t \in Seq(S) /\ Len(s) <= Len(s \o t)
         /\ SubSeq(s, 1, Len(s)) = SubSeq(s \o t, 1, Len(s))
<1>1. s \o t \in Seq(S) /\ Len(s \o t) = Len(s) + Len(t)
  BY ConcatProperties
<1>2. Len(s) \in Nat /\ Len(t) \in Nat
  BY LenProperties
<1>3. CASE Len(s) = 0
  <2>1. SubSeq(s, 1, Len(s)) = << >> /\ SubSeq(s \o t, 1, Len(s)) = << >>
    BY <1>3, SubSeqEmpty
  <2> QED
    BY <1>1, <1>2, <2>1
<1>4. CASE Len(s) > 0
  <2>1. 1 \in 1..Len(s) /\ Len(s) \in 1..Len(s)
    BY <1>2, <1>4
  <2>2. SubSeq(s \o t, 1, Len(s)) = SubSeq(s, 1, Len(s))
    BY <2>1, SubSeqOfConcat1
  <2> QED
    BY <1>1, <1>2, <2>2
<1> QED
  BY <1>2, <1>3, <1>4

\* The chunk a thread copies is free for the writer, and filled for the reader.
ChunkIsFree ==
  writer.pc \in {"copy", "advance"} =>
    /\ writer.in = tx_in
    /\ writer.n + Count(tx_out, tx_in) < BUF_LEN
    /\ tx_in + writer.n <= BUF_LEN
ChunkIsFilled ==
  reader.pc \in {"copy", "advance"} =>
    /\ reader.out = rx_out
    /\ reader.n <= Count(rx_out, rx_in)
    /\ rx_out + reader.n <= BUF_LEN

BuffersType ==
  /\ program \in Programs
  /\ rx_buf \in [Index -> Byte] /\ tx_buf \in [Index -> Byte]
  /\ rx_fifo \in Seq(Byte) /\ tx_fifo \in Seq(Byte)
  /\ host_got \in Seq(Byte) /\ taken \in Seq(Byte)

StreamInv == KickInv /\ BuffersType /\ ChunkIsFree /\ ChunkIsFilled

TxStep == [Tx!Next]_(Tx!streamVars)
RxStep == [Rx!Next]_(Rx!streamVars)

-----------------------------------------------------------------------------
\* A step that moves no byte of the transmitter.
LEMMA TxKept ==
  ASSUME UNCHANGED <<tx_fifo, tx_buf, tx_in, tx_out, host_got>>
  PROVE  TxStep
BY DEF TxStep, Tx!streamVars, TxRing

\* A step that moves no byte of the receiver.
LEMMA RxKept ==
  ASSUME UNCHANGED <<rx_fifo, rx_buf, rx_in, taken>>, rxCopied' = rxCopied
  PROVE  RxStep
BY DEF RxStep, Rx!streamVars, RxRing

\* A step that only lengthens what the transmitter holds accepts bytes.
LEMMA TxAccepts ==
  ASSUME NEW bytes \in Seq(Byte), tx_fifo \o TxRing \in Seq(Byte),
         (tx_fifo \o TxRing)' = (tx_fifo \o TxRing) \o bytes, UNCHANGED host_got
  PROVE  TxStep
BY PrefixOfJoined DEF TxStep, Tx!Next, Tx!Accept, Tx!IsPrefix

\* A step that only lengthens what the receiver holds accepts bytes.
LEMMA RxAccepts ==
  ASSUME NEW bytes \in Seq(Byte), RxRing \o rx_fifo \in Seq(Byte),
         (RxRing \o rx_fifo)' = (RxRing \o rx_fifo) \o bytes, UNCHANGED taken
  PROVE  RxStep
BY PrefixOfJoined DEF RxStep, Rx!Next, Rx!Accept, Rx!IsPrefix

\* A step that gives the host the first byte held delivers it.
LEMMA TxDelivers ==
  ASSUME host_got' \in Seq(Byte), tx_fifo \o TxRing = host_got' \o (tx_fifo \o TxRing)'
  PROVE  TxStep
BY DEF TxStep, Tx!Next, Tx!Deliver

\* A step that gives the reader the first bytes held delivers them.
LEMMA RxDelivers ==
  ASSUME taken' \in Seq(Byte), RxRing \o rx_fifo = taken' \o (RxRing \o rx_fifo)'
  PROVE  RxStep
BY DEF RxStep, Rx!Next, Rx!Deliver

\* The rings as sequences, and the place up to which the reader has copied.
LEMMA Rings ==
  ASSUME StreamInv
  PROVE  /\ TxRing \in Seq(Byte) /\ tx_fifo \o TxRing \in Seq(Byte)
         /\ rxCopied \in Index /\ RxRing \in Seq(Byte) /\ RxRing \o rx_fifo \in Seq(Byte)
<1> USE DEF StreamInv, KickInv, BuffersType
<1>1. TxRing \in Seq(Byte)
  BY HeldType DEF TxRing
<1>2. rxCopied \in Index
  <2>1. CASE reader.pc = "advance"
    <3>1. reader.out = rx_out /\ reader.n \in Nat
      BY <2>1 DEF ChunkIsFilled, ThreadType, ThreadRecord
    <3>2. rx_out + reader.n \in Nat
      BY <3>1 DEF Index
    <3>3. (rx_out + reader.n) % BUF_LEN \in Index
      BY <3>2, IndexAfter
    <3> QED
      BY <2>1, <3>1, <3>3 DEF rxCopied
  <2>2. CASE reader.pc # "advance"
    BY <2>2 DEF rxCopied
  <2> QED
    BY <2>1, <2>2
<1>3. RxRing \in Seq(Byte)
  BY <1>2, HeldType DEF RxRing
<1>4. tx_fifo \o TxRing \in Seq(Byte)
  BY <1>1, ConcatProperties
<1>5. RxRing \o rx_fifo \in Seq(Byte)
  BY <1>3, ConcatProperties
<1> QED
  BY <1>1, <1>2, <1>3, <1>4, <1>5

-----------------------------------------------------------------------------
\* A sequence is its first element and the rest.
LEMMA HeadFirst ==
  ASSUME NEW S, NEW s \in Seq(S), s # << >>
  PROVE  /\ Head(s) \in S /\ Tail(s) \in Seq(S) /\ <<Head(s)>> \in Seq(S)
         /\ s = <<Head(s)>> \o Tail(s)
<1>1. Head(s) \in S /\ Tail(s) \in Seq(S) /\ Len(Tail(s)) = Len(s) - 1
  BY HeadTailProperties
<1>2. \A i \in 1..Len(Tail(s)) : Tail(s)[i] = s[i + 1]
  BY HeadTailProperties
<1>3. Len(s) \in Nat /\ Len(s) > 0 /\ Head(s) = s[1]
  BY LenProperties, EmptySeq
<1>4. <<Head(s)>> \in Seq(S) /\ Len(<<Head(s)>>) = 1
  BY <1>1
<1>5. \A i \in 1..Len(<<Head(s)>>) : s[i] = <<Head(s)>>[i]
  BY <1>3, <1>4
<1>6. Len(s) = Len(<<Head(s)>>) + Len(Tail(s))
  BY <1>1, <1>3, <1>4
<1>7. \A i \in 1..Len(Tail(s)) : s[Len(<<Head(s)>>) + i] = Tail(s)[i]
  BY <1>1, <1>2, <1>3, <1>4
<1>8. s = <<Head(s)>> \o Tail(s)
  BY <1>1, <1>4, <1>5, <1>6, <1>7, Joined
<1> QED
  BY <1>1, <1>4, <1>8

\* What the handler and the program leave alone.
LEMMA NothingMoves ==
  ASSUME StreamInv, UNCHANGED <<program, rx_fifo, tx_fifo, host_got, taken, rxVars, txVars>>,
         ChunkIsFree', ChunkIsFilled', rxCopied' = rxCopied
  PROVE  BuffersType' /\ ChunkIsFree' /\ ChunkIsFilled' /\ TxStep /\ RxStep
<1>1. BuffersType'
  BY DEF StreamInv, BuffersType, rxVars, txVars
<1>2. TxStep
  BY TxKept DEF txVars
<1>3. RxStep
  BY RxKept DEF rxVars
<1> QED
  BY <1>1, <1>2, <1>3

\* A byte from the device goes behind those in the ring.
LEMMA RingTakes ==
  ASSUME StreamInv, rxRoom, rx_fifo # << >>,
         rx_buf' = [rx_buf EXCEPT ![rx_in] = Head(rx_fifo)], rx_in' = After(rx_in),
         rx_fifo' = Tail(rx_fifo), UNCHANGED <<rx_out, reader, taken>>
  PROVE  /\ rx_buf' \in [Index -> Byte] /\ rx_fifo' \in Seq(Byte)
         /\ ChunkIsFilled' /\ RxStep
<1>0. /\ rx_buf \in [Index -> Byte] /\ rx_fifo \in Seq(Byte)
      /\ rx_in \in Index /\ rx_out \in Index /\ ThreadType(reader) /\ ChunkIsFilled
  BY DEF StreamInv, BuffersType, KickInv
<1>1. /\ Head(rx_fifo) \in Byte /\ Tail(rx_fifo) \in Seq(Byte) /\ <<Head(rx_fifo)>> \in Seq(Byte)
      /\ rx_fifo = <<Head(rx_fifo)>> \o Tail(rx_fifo)
  BY <1>0, HeadFirst
<1>2. rx_buf' \in [Index -> Byte] /\ rx_buf'[rx_in] = Head(rx_fifo)
  BY <1>0, <1>1
<1>3. rxCopied' = rxCopied
  BY DEF rxCopied
<1>4. /\ rxCopied \in Index /\ Count(rxCopied, rx_in) <= Count(rx_out, rx_in)
      /\ Count(rx_out, rx_in) \in Nat /\ Count(rxCopied, rx_in) \in Nat
  <2>1. rxCopied \in Index
    BY Rings
  <2>2. CASE reader.pc = "advance"
    <3>1. /\ reader.out = rx_out /\ reader.n \in Nat
          /\ reader.n <= Count(rx_out, rx_in) /\ rx_out + reader.n <= BUF_LEN
      BY <1>0, <2>2 DEF ChunkIsFilled, ThreadType, ThreadRecord
    <3>2. Count(rx_out, rx_in) \in Nat /\ Count(rx_out, rx_in) < BUF_LEN
      BY <1>0, UartAssumption DEF UartAssumption, Index, Count
    <3>3. reader.n < BUF_LEN
      BY <3>1, <3>2, UartAssumption DEF UartAssumption
    <3>4. rxCopied = (rx_out + reader.n) % BUF_LEN
      BY <2>2, <3>1 DEF rxCopied
    <3>5. rxCopied = Wrapped(rx_out + reader.n)
      BY <1>0, <3>1, <3>3, <3>4, Further
    <3> HIDE DEF Index
    <3> DEFINE n == reader.n
    <3>6. /\ n \in Nat /\ n <= Count(rx_out, rx_in) /\ rx_out + n <= BUF_LEN
          /\ rxCopied = Wrapped(rx_out + n)
      BY <3>1, <3>5
    <3> HIDE DEF n
    <3> QED
      BY <1>0, <2>1, <3>2, <3>6, UartAssumption DEF UartAssumption, Index, Wrapped, Count
  <2>3. CASE reader.pc # "advance"
    BY <1>0, <2>3, UartAssumption DEF rxCopied, UartAssumption, Index, Count
  <2> QED
    BY <2>1, <2>2, <2>3
<1>5. After(rx_in) \in Index /\ After(rx_in) = Wrapped(rx_in + 1) /\ Count(rx_in, After(rx_in)) = 1
  BY <1>0, AfterIs
<1>6. Count(rx_out, After(rx_in)) = Count(rx_out, rx_in) + 1 /\ Count(rx_out, rx_in) + 1 < BUF_LEN
  BY <1>0, <1>5, UartAssumption DEF rxRoom, UartAssumption, Index, Wrapped, Count
<1>7. Count(rxCopied, After(rx_in)) = Count(rxCopied, rx_in) + Count(rx_in, After(rx_in))
  BY <1>0, <1>4, <1>5, <1>6, UartAssumption DEF UartAssumption, Index, Wrapped, Count
<1>8. ChunkIsFilled'
  BY <1>0, <1>4, <1>6 DEF ChunkIsFilled, ThreadType, ThreadRecord
<1>9. Held(rx_buf', rxCopied, rx_in) = RxRing
  <2>1. \A k \in 1..Count(rxCopied, rx_in) :
          Wrapped(rxCopied + k - 1) \in Index /\ Wrapped(rxCopied + k - 1) # rx_in
    BY <1>0, <1>4, UartAssumption DEF UartAssumption, Index, Wrapped, Count
  <2>2. \A k \in 1..Count(rxCopied, rx_in) :
          rx_buf'[Wrapped(rxCopied + k - 1)] = rx_buf[Wrapped(rxCopied + k - 1)]
    BY <1>0, <2>1
  <2>3. rx_buf \in [Index -> Byte] /\ rx_buf' \in [Index -> Byte]
    BY <1>0, <1>2
  <2>4. rxCopied \in Index /\ rx_in \in Index
    BY <1>0, <1>4
  <2>5. Held(rx_buf', rxCopied, rx_in) = Held(rx_buf, rxCopied, rx_in)
    BY <2>2, <2>3, <2>4, HeldKept
  <2> QED
    BY <2>5 DEF RxRing
<1>10. Held(rx_buf', rx_in, After(rx_in)) = <<Head(rx_fifo)>>
  BY <1>0, <1>2, HeldOne
<1>11. Held(rx_buf', rxCopied, After(rx_in)) = RxRing \o <<Head(rx_fifo)>>
  <2>1. /\ rx_buf' \in [Index -> Byte] /\ rxCopied \in Index
        /\ rx_in \in Index /\ After(rx_in) \in Index
    BY <1>0, <1>2, <1>4, <1>5
  <2>2. Held(rx_buf', rxCopied, After(rx_in))
          = Held(rx_buf', rxCopied, rx_in) \o Held(rx_buf', rx_in, After(rx_in))
    BY <1>7, <2>1, HeldSplit
  <2> QED
    BY <1>9, <1>10, <2>2
<1>12. RxRing' = RxRing \o <<Head(rx_fifo)>>
  BY <1>3, <1>11 DEF RxRing
<1>13. RxRing \o rx_fifo = (RxRing \o rx_fifo)'
  <2> DEFINE byte == <<Head(rx_fifo)>>
             rest == Tail(rx_fifo)
             ring == RxRing
  <2>1. ring \in Seq(Byte) /\ byte \in Seq(Byte) /\ rest \in Seq(Byte)
    BY <1>1, Rings
  <2>2. rx_fifo = byte \o rest /\ rx_fifo' = rest /\ RxRing' = ring \o byte
    BY <1>1, <1>12
  <2> HIDE DEF byte, rest
  <2>3. (ring \o byte) \o rest = ring \o (byte \o rest)
    BY <2>1, ConcatAssociative
  <2> QED
    BY <2>2, <2>3
<1>14. RxStep
  BY <1>13 DEF RxStep, Rx!streamVars
<1> QED
  BY <1>1, <1>2, <1>8, <1>14

\* The first byte of the ring goes behind those in the device.
LEMMA RingGives ==
  ASSUME StreamInv, tx_out # tx_in, tx_fifo' = Append(tx_fifo, tx_buf[tx_out]),
         tx_out' = After(tx_out), UNCHANGED <<tx_buf, tx_in, writer, host_got>>
  PROVE  tx_fifo' \in Seq(Byte) /\ ChunkIsFree' /\ TxStep
<1>0. /\ tx_buf \in [Index -> Byte] /\ tx_fifo \in Seq(Byte)
      /\ tx_in \in Index /\ tx_out \in Index /\ ThreadType(writer) /\ ChunkIsFree
  BY DEF StreamInv, BuffersType, KickInv
<1> DEFINE byte == tx_buf[tx_out]
           rest == Held(tx_buf, After(tx_out), tx_in)
<1>1. byte \in Byte /\ <<byte>> \in Seq(Byte)
  BY <1>0
<1>2. After(tx_out) \in Index /\ After(tx_out) = Wrapped(tx_out + 1)
      /\ Count(tx_out, After(tx_out)) = 1
  BY <1>0, AfterIs
<1>3. Count(tx_out, tx_in) = Count(tx_out, After(tx_out)) + Count(After(tx_out), tx_in)
  BY <1>0, <1>2, UartAssumption DEF UartAssumption, Index, Wrapped, Count
<1>4. Held(tx_buf, tx_out, After(tx_out)) = <<byte>>
  BY <1>0, HeldOne
<1>5. TxRing = <<byte>> \o rest
  <2>1. Held(tx_buf, tx_out, tx_in) = Held(tx_buf, tx_out, After(tx_out)) \o rest
    BY <1>0, <1>2, <1>3, HeldSplit
  <2> QED
    BY <1>4, <2>1 DEF TxRing
<1>6. rest \in Seq(Byte)
  BY <1>0, <1>2, HeldType
<1>7. TxRing' = rest
  BY DEF TxRing
<1>8. tx_fifo' = tx_fifo \o <<byte>> /\ tx_fifo' \in Seq(Byte)
  BY <1>0, <1>1, AppendIsConcat, AppendProperties
<1>9. tx_fifo \o TxRing = (tx_fifo \o TxRing)'
  <2> DEFINE one == <<byte>>
             fifo == tx_fifo
  <2>1. one \in Seq(Byte) /\ rest \in Seq(Byte) /\ fifo \in Seq(Byte)
    BY <1>0, <1>1, <1>6
  <2>2. TxRing = one \o rest /\ tx_fifo' = fifo \o one /\ TxRing' = rest
    BY <1>5, <1>7, <1>8
  <2> HIDE DEF one, rest
  <2>3. (fifo \o one) \o rest = fifo \o (one \o rest)
    BY <2>1, ConcatAssociative
  <2> QED
    BY <2>2, <2>3
<1>10. ChunkIsFree'
  <2>1. Count(After(tx_out), tx_in) \in Nat /\ Count(tx_out, tx_in) \in Nat
    BY <1>0, <1>2, UartAssumption DEF UartAssumption, Index, Count
  <2>2. Count(tx_out', tx_in') < Count(tx_out, tx_in) /\ Count(tx_out', tx_in') \in Nat
    BY <1>2, <1>3, <2>1
  <2>3. writer.n \in Nat
    BY <1>0 DEF ThreadType, ThreadRecord
  <2> HIDE DEF byte, rest
  <2> QED
    BY <1>0, <2>1, <2>2, <2>3, UartAssumption DEF ChunkIsFree, UartAssumption
<1> QED
  BY <1>8, <1>9, <1>10 DEF TxStep, Tx!streamVars

\* Every step of the handler keeps both streams.
LEMMA IrqStream ==
  ASSUME StreamInv, Irq, UNCHANGED program
  PROVE  BuffersType' /\ ChunkIsFree' /\ ChunkIsFilled' /\ TxStep /\ RxStep
<1>1. UNCHANGED <<host_got, writer, reader, taken>>
  BY DEF Irq, IrqControl, IrqRead, IrqReadFull, IrqReadEnd, IrqWrite, IrqWriteEnd, IrqFrame
<1>2. CASE UNCHANGED <<rx_fifo, tx_fifo, rxVars, txVars>>
  <2>1. ChunkIsFree' /\ ChunkIsFilled' /\ rxCopied' = rxCopied
    BY <1>1, <1>2 DEF StreamInv, ChunkIsFree, ChunkIsFilled, rxCopied, rxVars, txVars
  <2> QED
    BY <1>1, <1>2, <2>1, NothingMoves
<1>3. CASE IrqRead /\ rx_fifo # << >>
  <2>1. /\ rx_buf' \in [Index -> Byte] /\ rx_fifo' \in Seq(Byte)
        /\ ChunkIsFilled' /\ RxStep
    BY <1>1, <1>3, RingTakes DEF IrqRead
  <2>2. UNCHANGED <<tx_fifo, tx_buf, tx_in, tx_out>>
    BY <1>3 DEF IrqRead, txVars
  <2>3. TxStep
    BY <1>1, <2>2, TxKept
  <2>4. ChunkIsFree'
    BY <1>1, <2>2 DEF StreamInv, ChunkIsFree
  <2> QED
    BY <1>1, <2>1, <2>2, <2>3, <2>4 DEF StreamInv, BuffersType
<1>4. CASE IrqWrite
  <2>1. tx_fifo' \in Seq(Byte) /\ ChunkIsFree' /\ TxStep
    BY <1>1, <1>4, RingGives DEF IrqWrite
  <2>2. UNCHANGED <<rx_fifo, rx_buf, rx_in, rx_out>>
    BY <1>4 DEF IrqWrite, rxVars
  <2>3. RxStep
    BY <1>1, <2>2, RxKept DEF rxCopied
  <2>4. ChunkIsFilled'
    BY <1>1, <2>2 DEF StreamInv, ChunkIsFilled
  <2>5. UNCHANGED tx_buf
    BY <1>4 DEF IrqWrite
  <2> QED
    BY <1>1, <2>1, <2>2, <2>3, <2>4, <2>5 DEF StreamInv, BuffersType
<1> QED
  BY <1>2, <1>3, <1>4 DEF Irq, IrqControl, IrqRead, IrqReadFull, IrqReadEnd, IrqWrite,
     IrqWriteEnd, rxVars

-----------------------------------------------------------------------------
\* A chunk that has been copied to the free bytes becomes part of the ring.
LEMMA RingGrows ==
  ASSUME StreamInv, WriteAdvance
  PROVE  TxStep
<1>0. /\ tx_buf \in [Index -> Byte] /\ tx_fifo \in Seq(Byte)
      /\ tx_in \in Index /\ tx_out \in Index
      /\ ThreadType(writer) /\ ChunkIsFree /\ writer.pc = "advance"
  BY DEF StreamInv, BuffersType, KickInv, WriteAdvance, WriterAt
<1> DEFINE n == writer.n
           chunk == Held(tx_buf, tx_in, tx_in')
<1>1. /\ n \in Nat /\ n + Count(tx_out, tx_in) < BUF_LEN /\ tx_in' = (tx_in + n) % BUF_LEN
  BY <1>0 DEF ThreadType, ThreadRecord, ChunkIsFree, WriteAdvance
<1>2. Count(tx_out, tx_in) \in Nat
  BY <1>0, UartAssumption DEF UartAssumption, Index, Count
<1>3. n < BUF_LEN
  BY <1>1, <1>2, UartAssumption DEF UartAssumption
<1> HIDE DEF n
<1>4. /\ tx_in' \in Index /\ Count(tx_in, tx_in') = n
      /\ tx_in' = Wrapped(tx_in + n)
  BY <1>0, <1>1, <1>3, Further
<1>5. Count(tx_out, tx_in') = Count(tx_out, tx_in) + Count(tx_in, tx_in')
  BY <1>0, <1>1, <1>4, UartAssumption DEF UartAssumption, Index, Wrapped, Count
<1>6. Held(tx_buf, tx_out, tx_in') = Held(tx_buf, tx_out, tx_in) \o chunk
  BY <1>0, <1>4, <1>5, HeldSplit
<1>7. chunk \in Seq(Byte)
  BY <1>0, <1>4, HeldType
<1>8. UNCHANGED <<tx_buf, tx_out, tx_fifo, host_got>>
  BY DEF WriteAdvance, WriterFrame
<1> HIDE DEF chunk
<1>9. TxRing \in Seq(Byte) /\ TxRing' = TxRing \o chunk
  BY <1>6, <1>8, Rings DEF TxRing
<1>10. (tx_fifo \o TxRing)' = (tx_fifo \o TxRing) \o chunk
  <2> DEFINE fifo == tx_fifo
             ring == TxRing
  <2>1. (fifo \o ring) \o chunk = fifo \o (ring \o chunk)
    BY <1>0, <1>7, <1>9, ConcatAssociative
  <2> QED
    BY <1>8, <1>9, <2>1
<1> QED
  BY <1>7, <1>8, <1>10, Rings, TxAccepts

\* A copy to the free bytes changes none of the ring.
LEMMA CopyToFree ==
  ASSUME StreamInv, WriteCopy
  PROVE  tx_buf' \in [Index -> Byte] /\ ChunkIsFree' /\ TxStep
<1>0. /\ tx_buf \in [Index -> Byte]
      /\ tx_in \in Index /\ tx_out \in Index
      /\ ThreadType(writer) /\ ChunkIsFree /\ writer.pc = "copy"
  BY DEF StreamInv, BuffersType, KickInv, WriteCopy, WriterAt
<1> DEFINE n == writer.n
<1>1. /\ n \in Nat /\ writer.in = tx_in
      /\ n + Count(tx_out, tx_in) < BUF_LEN /\ tx_in + n <= BUF_LEN
  BY <1>0 DEF ThreadType, ThreadRecord, ChunkIsFree
<1>2. PICK bytes \in [1..n -> Byte] :
        tx_buf' = [i \in Index |-> IF i \in tx_in..(tx_in + n - 1)
                                   THEN bytes[i - tx_in + 1] ELSE tx_buf[i]]
  BY <1>1 DEF WriteCopy
<1> HIDE DEF n
<1>3. tx_buf' \in [Index -> Byte]
  <2>1. ASSUME NEW i \in Index, i \in tx_in..(tx_in + n - 1) PROVE bytes[i - tx_in + 1] \in Byte
    BY <1>0, <1>1, <1>2, <2>1, UartAssumption DEF Index, UartAssumption
  <2>2. ASSUME NEW i \in Index PROVE tx_buf[i] \in Byte
    BY <1>0
  <2> QED
    BY <1>2, <2>1, <2>2
<1>4. \A k \in 1..Count(tx_out, tx_in) :
        Wrapped(tx_out + k - 1) \in Index /\ Wrapped(tx_out + k - 1) \notin tx_in..(tx_in + n - 1)
  BY <1>0, <1>1, UartAssumption DEF UartAssumption, Index, Wrapped, Count
<1>5. \A k \in 1..Count(tx_out, tx_in) :
        tx_buf'[Wrapped(tx_out + k - 1)] = tx_buf[Wrapped(tx_out + k - 1)]
  BY <1>2, <1>4
<1>6. Held(tx_buf', tx_out, tx_in) = Held(tx_buf, tx_out, tx_in)
  BY <1>0, <1>3, <1>5, HeldKept
<1>7. UNCHANGED <<tx_in, tx_out, tx_fifo, host_got>>
  BY DEF WriteCopy, WriterFrame
<1>8. TxStep
  BY <1>6, <1>7 DEF TxStep, Tx!streamVars, TxRing
<1>9. writer' = [writer EXCEPT !.pc = "advance"]
  BY DEF WriteCopy
<1>10. writer'.in = writer.in /\ writer'.n = writer.n
  BY <1>0, <1>9 DEF ThreadType, ThreadRecord
<1> QED
  BY <1>0, <1>3, <1>7, <1>8, <1>10 DEF ChunkIsFree

\* The chunk the writer takes is free: one byte less than the ring does not hold,
\* up to the end of the buffer.
LEMMA RoomIsFree ==
  ASSUME NEW in \in Index, NEW out \in Index, NEW n \in Nat, n <= Room(in, out)
  PROVE  n + Count(out, in) < BUF_LEN /\ in + n <= BUF_LEN
BY UartAssumption DEF UartAssumption, Index, Room, Count

\* The chunk the reader takes is in the ring, up to the end of the buffer.
LEMMA FilledIsHeld ==
  ASSUME NEW in \in Index, NEW out \in Index, NEW n \in Nat, n <= Filled(in, out)
  PROVE  n <= Count(out, in) /\ out + n <= BUF_LEN
BY UartAssumption DEF UartAssumption, Index, Filled, Count

\* Every step of the writer keeps both streams.
LEMMA WriterStream ==
  ASSUME StreamInv, CallWrite \/ CallClose \/ Writer, UNCHANGED program
  PROVE  BuffersType' /\ ChunkIsFree' /\ ChunkIsFilled' /\ TxStep /\ RxStep
<1>0. KickInv /\ ThreadType(writer) /\ ThreadRecord(writer)
  BY DEF StreamInv, KickInv, ThreadType
<1>1. UNCHANGED <<rx_fifo, tx_fifo, host_got, rxVars, tx_out, reader, taken>>
  BY DEF Writer, CallWrite, CallClose, WritePointers, WriteCopy, WriteAdvance, WriteKick,
     WriteWait, WriteTest, WriteReturn, CloseWait, WriterOnly, WriterFrame
<1>2. ChunkIsFilled' /\ rxCopied' = rxCopied /\ RxStep
  BY <1>1, RxKept DEF StreamInv, ChunkIsFilled, rxCopied, rxVars
<1>3. CASE UNCHANGED <<tx_buf, tx_in>> /\ writer'.pc \notin {"copy", "advance"}
  <2>1. ChunkIsFree'
    BY <1>3 DEF ChunkIsFree
  <2> QED
    BY <1>1, <1>2, <1>3, <2>1, NothingMoves DEF txVars
<1>4. CASE WritePointers
  <2> DEFINE n == AtMost(Room(tx_in, tx_out), writer.asked)
  <2>1. tx_in \in Index /\ tx_out \in Index /\ writer.asked \in Nat
    BY <1>0 DEF KickInv, ThreadRecord
  <2>2. n \in Nat /\ n <= Room(tx_in, tx_out)
    BY <2>1, UartAssumption DEF UartAssumption, Room, Index, AtMost
  <2>3. n + Count(tx_out, tx_in) < BUF_LEN /\ tx_in + n <= BUF_LEN
    BY <2>1, <2>2, RoomIsFree
  <2>4. writer'.in = tx_in /\ writer'.n = n /\ UNCHANGED <<tx_buf, tx_in, tx_out>>
    BY <1>0, <1>1, <1>4 DEF WritePointers, WriterOnly, ThreadRecord
  <2>5. ChunkIsFree'
    BY <2>3, <2>4 DEF ChunkIsFree
  <2> QED
    BY <1>1, <1>2, <2>4, <2>5, NothingMoves DEF txVars
<1>5. CASE WriteCopy
  <2>1. tx_buf' \in [Index -> Byte] /\ ChunkIsFree' /\ TxStep
    BY <1>5, CopyToFree
  <2> QED
    BY <1>1, <1>2, <2>1 DEF StreamInv, BuffersType, rxVars
<1>6. CASE WriteAdvance
  <2>1. TxStep
    BY <1>6, RingGrows
  <2>2. UNCHANGED tx_buf
    BY <1>6 DEF WriteAdvance
  <2>3. writer'.pc \in {"kick", "pointers"}
    BY <1>0, <1>6 DEF WriteAdvance, ThreadRecord
  <2>4. ChunkIsFree'
    BY <2>3 DEF ChunkIsFree
  <2> QED
    BY <1>1, <1>2, <2>1, <2>2, <2>4 DEF StreamInv, BuffersType, rxVars
<1>7. ASSUME CallWrite \/ CallClose \/ WriteKick \/ WriteWait \/ WriteTest \/ WriteReturn \/ CloseWait
      PROVE  UNCHANGED <<tx_buf, tx_in>> /\ writer'.pc \notin {"copy", "advance"}
  <2>1. CASE CallWrite
    BY <2>1 DEF CallWrite, WriterOnly, Idle
  <2>2. CASE CallClose
    BY <2>2 DEF CallClose, WriterOnly, Idle
  <2>3. CASE WriteKick
    BY <1>0, <2>3 DEF WriteKick, ThreadRecord
  <2>4. CASE WriteWait
    BY <1>0, <2>4 DEF WriteWait, WriterOnly, ThreadRecord
  <2>5. CASE WriteTest
    BY <1>0, <2>5 DEF WriteTest, WriterOnly, ThreadRecord
  <2>6. CASE WriteReturn
    BY <2>6 DEF WriteReturn, WriterOnly, Idle
  <2>7. CASE CloseWait
    BY <2>7 DEF CloseWait, WriterOnly, Idle
  <2> QED
    BY <1>7, <2>1, <2>2, <2>3, <2>4, <2>5, <2>6, <2>7
<1> QED
  BY <1>3, <1>4, <1>5, <1>6, <1>7 DEF Writer

-----------------------------------------------------------------------------
\* What the reader copies leaves the stream.
LEMMA CopyTakes ==
  ASSUME StreamInv, ReadCopy
  PROVE  taken' \in Seq(Byte) /\ ChunkIsFilled' /\ RxStep
<1>0. /\ rx_buf \in [Index -> Byte] /\ rx_fifo \in Seq(Byte)
      /\ rx_in \in Index /\ rx_out \in Index
      /\ ThreadType(reader) /\ ChunkIsFilled /\ reader.pc = "copy"
  BY DEF StreamInv, BuffersType, KickInv, ReadCopy, ReaderAt
<1> DEFINE n == reader.n
           mid == (rx_out + reader.n) % BUF_LEN
<1>1. /\ n \in Nat /\ reader.out = rx_out
      /\ n <= Count(rx_out, rx_in) /\ rx_out + n <= BUF_LEN
  BY <1>0 DEF ThreadType, ThreadRecord, ChunkIsFilled
<1>2. Count(rx_out, rx_in) \in Nat /\ Count(rx_out, rx_in) < BUF_LEN
  BY <1>0, UartAssumption DEF UartAssumption, Index, Count
<1>3. taken' = [k \in 1..n |-> rx_buf[rx_out + k - 1]]
  BY <1>1 DEF ReadCopy
<1>4. mid = (rx_out + n) % BUF_LEN
  OBVIOUS
<1>5. UNCHANGED <<rx_buf, rx_in, rx_out, rx_fifo>>
  BY DEF ReadCopy, ReaderFrame
<1>6. /\ reader' = [reader EXCEPT !.pc = "advance"]
      /\ reader'.out = rx_out /\ reader'.n = n /\ reader'.pc = "advance"
  BY <1>0, <1>1 DEF ReadCopy, ThreadType, ThreadRecord
<1>7. rxCopied = rx_out /\ rxCopied' = mid
  BY <1>0, <1>6 DEF rxCopied
<1>8. ChunkIsFilled'
  BY <1>1, <1>5, <1>6 DEF ChunkIsFilled
<1> HIDE DEF n, mid
<1>9. n < BUF_LEN
  BY <1>1, <1>2, UartAssumption DEF UartAssumption
<1>10. mid \in Index /\ Count(rx_out, mid) = n /\ mid = Wrapped(rx_out + n)
  BY <1>0, <1>1, <1>4, <1>9, Further
<1>11. Held(rx_buf, rx_out, mid) = taken'
  <2>1. rx_out + Count(rx_out, mid) <= BUF_LEN
    BY <1>1, <1>10
  <2>2. Held(rx_buf, rx_out, mid) = [k \in 1..Count(rx_out, mid) |-> rx_buf[rx_out + k - 1]]
    BY <1>0, <1>10, <2>1, HeldChunk
  <2> QED
    BY <1>3, <1>10, <2>2
<1>12. Count(rx_out, rx_in) = Count(rx_out, mid) + Count(mid, rx_in)
  BY <1>0, <1>1, <1>2, <1>10, UartAssumption DEF UartAssumption, Index, Wrapped, Count
<1>13. Held(rx_buf, rx_out, rx_in) = taken' \o Held(rx_buf, mid, rx_in)
  BY <1>0, <1>10, <1>11, <1>12, HeldSplit
<1>14. RxRing = taken' \o RxRing'
  BY <1>5, <1>7, <1>13 DEF RxRing
<1>15. taken' \in Seq(Byte) /\ RxRing' \in Seq(Byte)
  <2>1. Held(rx_buf, rx_out, mid) \in Seq(Byte)
    BY <1>0, <1>10, HeldType
  <2>2. Held(rx_buf, mid, rx_in) \in Seq(Byte)
    BY <1>0, <1>10, HeldType
  <2> QED
    BY <1>5, <1>7, <1>11, <2>1, <2>2 DEF RxRing
<1>16. RxRing \o rx_fifo = taken' \o (RxRing \o rx_fifo)'
  <2> DEFINE fifo == rx_fifo
             front == taken'
             back == RxRing'
  <2>1. (front \o back) \o fifo = front \o (back \o fifo)
    BY <1>0, <1>15, ConcatAssociative
  <2> QED
    BY <1>5, <1>14, <2>1
<1> QED
  BY <1>8, <1>15, <1>16, RxDelivers

\* Every step of the reader keeps both streams.
LEMMA ReaderStream ==
  ASSUME StreamInv, CallRead \/ Reader, UNCHANGED program
  PROVE  BuffersType' /\ ChunkIsFree' /\ ChunkIsFilled' /\ TxStep /\ RxStep
<1>0. KickInv /\ ThreadType(reader) /\ ThreadRecord(reader)
  BY DEF StreamInv, KickInv, ThreadType
<1>1. UNCHANGED <<rx_fifo, tx_fifo, host_got, txVars, rx_buf, rx_in, writer>>
  BY DEF Reader, CallRead, ReadPointers, ReadCopy, ReadAdvance, ReadWait, ReadTest,
     ReadEnable, ReaderOnly, ReaderFrame
<1>2. ChunkIsFree' /\ TxStep
  BY <1>1, TxKept DEF StreamInv, ChunkIsFree, txVars
<1>3. CASE /\ UNCHANGED <<rx_out, taken>> /\ reader.pc # "advance"
           /\ reader'.pc \notin {"copy", "advance"}
  <2>1. ChunkIsFilled' /\ rxCopied' = rxCopied
    BY <1>3 DEF ChunkIsFilled, rxCopied
  <2> QED
    BY <1>1, <1>2, <1>3, <2>1, NothingMoves DEF rxVars
<1>4. CASE ReadPointers
  <2> DEFINE n == AtMost(Filled(rx_in, rx_out), reader.asked)
  <2>1. rx_in \in Index /\ rx_out \in Index /\ reader.asked \in Nat
    BY <1>0 DEF KickInv, ThreadRecord
  <2>2. n \in Nat /\ n <= Filled(rx_in, rx_out)
    BY <2>1, UartAssumption DEF UartAssumption, Filled, Index, AtMost
  <2>3. n <= Count(rx_out, rx_in) /\ rx_out + n <= BUF_LEN
    BY <2>1, <2>2, FilledIsHeld
  <2>4. reader'.out = rx_out /\ reader'.n = n /\ UNCHANGED <<rx_out, taken>>
    BY <1>0, <1>4 DEF ReadPointers, ReaderOnly, ThreadRecord
  <2>5. ChunkIsFilled'
    BY <1>1, <2>3, <2>4 DEF ChunkIsFilled
  <2>6. reader.pc = "pointers" /\ reader'.pc # "advance"
    BY <1>0, <1>4, <2>1, <2>2, ReadPointersThread DEF ReadPointers, ReaderAt
  <2>7. rxCopied' = rxCopied
    BY <2>4, <2>6 DEF rxCopied
  <2> QED
    BY <1>1, <1>2, <2>4, <2>5, <2>7, NothingMoves DEF rxVars
<1>5. CASE ReadCopy
  <2>1. taken' \in Seq(Byte) /\ ChunkIsFilled' /\ RxStep
    BY <1>5, CopyTakes
  <2> QED
    BY <1>1, <1>2, <2>1 DEF StreamInv, BuffersType, txVars
<1>6. CASE ReadAdvance
  <2>1. reader.pc = "advance" /\ rx_out' = (reader.out + reader.n) % BUF_LEN /\ UNCHANGED taken
    BY <1>6 DEF ReadAdvance, ReaderAt
  <2>2. reader'.pc \in {"enable", "pointers"}
    BY <1>0, <1>6 DEF ReadAdvance, ThreadRecord
  <2>3. rxCopied' = rxCopied /\ ChunkIsFilled'
    BY <2>1, <2>2 DEF rxCopied, ChunkIsFilled
  <2>4. RxStep
    BY <1>1, <2>1, <2>3, RxKept
  <2> QED
    BY <1>1, <1>2, <2>1, <2>3, <2>4 DEF StreamInv, BuffersType, txVars
<1>7. ASSUME CallRead \/ ReadWait \/ ReadTest \/ ReadEnable
      PROVE  /\ UNCHANGED <<rx_out, taken>> /\ reader.pc # "advance"
             /\ reader'.pc \notin {"copy", "advance"}
  <2>1. CASE CallRead
    BY <2>1 DEF CallRead, ReaderOnly, ReaderAt, Idle
  <2>2. CASE ReadWait
    BY <1>0, <2>2 DEF ReadWait, ReaderOnly, ReaderAt, ThreadRecord
  <2>3. CASE ReadTest
    BY <1>0, <2>3 DEF ReadTest, ReaderOnly, ReaderAt, ThreadRecord
  <2>4. CASE ReadEnable
    BY <2>4 DEF ReadEnable, ReaderAt, Idle
  <2> QED
    BY <1>7, <2>1, <2>2, <2>3, <2>4
<1> QED
  BY <1>3, <1>4, <1>5, <1>6, <1>7 DEF Reader

\* The alarm moves no byte, the host takes the first one and gives the last one.
LEMMA OtherStream ==
  ASSUME StreamInv, UNCHANGED program, Timeout \/ SetTimeout \/ HostStep \/ UNCHANGED vars
  PROVE  BuffersType' /\ ChunkIsFree' /\ ChunkIsFilled' /\ TxStep /\ RxStep
<1>1. UNCHANGED <<rxVars, txVars, writer, reader, taken>>
  BY DEF Timeout, SetTimeout, HostStep, vars
<1>2. ChunkIsFree' /\ ChunkIsFilled' /\ rxCopied' = rxCopied
  BY <1>1 DEF StreamInv, ChunkIsFree, ChunkIsFilled, rxCopied, rxVars, txVars
<1>3. CASE UNCHANGED <<rx_fifo, tx_fifo, host_got>>
  BY <1>1, <1>2, <1>3, NothingMoves
<1>4. CASE HostSends(program.host)
  <2>1. PICK b \in program.host : rx_fifo' = Append(rx_fifo, b)
    BY <1>4 DEF HostSends
  <2>2. b \in Byte
    BY UartAssumption DEF UartAssumption, StreamInv, BuffersType
  <2>3. rx_fifo \in Seq(Byte) /\ RxRing \in Seq(Byte) /\ <<b>> \in Seq(Byte)
    BY <2>2, Rings DEF StreamInv, BuffersType
  <2>4. rx_fifo' = rx_fifo \o <<b>> /\ rx_fifo' \in Seq(Byte)
    BY <2>1, <2>2, <2>3, AppendIsConcat, AppendProperties
  <2>5. RxRing' = RxRing
    BY <1>1, <1>2 DEF RxRing, rxVars
  <2>6. (RxRing \o rx_fifo)' = (RxRing \o rx_fifo) \o <<b>>
    <3> DEFINE ring == RxRing
               fifo == rx_fifo
               last == <<b>>
    <3>1. (ring \o fifo) \o last = ring \o (fifo \o last)
      BY <2>3, ConcatAssociative
    <3> QED
      BY <2>4, <2>5, <3>1
  <2>7. RxStep
    BY <1>1, <2>3, <2>6, Rings, RxAccepts
  <2>8. UNCHANGED <<tx_fifo, host_got>>
    BY <1>4 DEF HostSends
  <2>9. TxStep
    BY <1>1, <2>8, TxKept DEF txVars
  <2> QED
    BY <1>1, <1>2, <2>4, <2>7, <2>8, <2>9 DEF StreamInv, BuffersType, rxVars, txVars
<1>5. CASE HostReads
  <2>1. /\ tx_fifo \in Seq(Byte) /\ tx_fifo # << >> /\ TxRing \in Seq(Byte)
        /\ host_got' = <<Head(tx_fifo)>> /\ tx_fifo' = Tail(tx_fifo)
    BY <1>5, Rings DEF HostReads, StreamInv, BuffersType
  <2>2. /\ host_got' \in Seq(Byte) /\ tx_fifo' \in Seq(Byte)
        /\ tx_fifo = host_got' \o tx_fifo'
    BY <2>1, HeadFirst
  <2>3. TxRing' = TxRing
    BY <1>1 DEF TxRing, txVars
  <2>4. tx_fifo \o TxRing = host_got' \o (tx_fifo \o TxRing)'
    <3> DEFINE first == host_got'
               rest == tx_fifo'
               ring == TxRing
    <3>1. (first \o rest) \o ring = first \o (rest \o ring)
      BY <2>1, <2>2, ConcatAssociative
    <3> QED
      BY <2>2, <2>3, <3>1
  <2>5. TxStep
    BY <2>2, <2>4, TxDelivers
  <2>6. UNCHANGED rx_fifo
    BY <1>5 DEF HostReads
  <2>7. RxStep
    BY <1>1, <1>2, <2>6, RxKept DEF rxVars
  <2> QED
    BY <1>1, <1>2, <2>2, <2>5, <2>6, <2>7 DEF StreamInv, BuffersType, rxVars, txVars
<1> QED
  BY <1>3, <1>4, <1>5 DEF Timeout, SetTimeout, HostStep, Host, HostPolls, HostPlugged,
     vars, deviceVars

\* Both streams start empty.
LEMMA InitStream ==
  Init => StreamInv /\ Tx!Init /\ Rx!Init
<1> SUFFICES ASSUME Init PROVE StreamInv /\ Tx!Init /\ Rx!Init
  OBVIOUS
<1>1. 0 \in Index
  BY UartAssumption DEF UartAssumption, Index
<1>2. BuffersType
  <2>1. rx_buf \in [Index -> Byte] /\ tx_buf \in [Index -> Byte]
    BY DEF Init
  <2> QED
    BY <2>1 DEF Init, DeviceInit, BuffersType
<1>3. ChunkIsFree /\ ChunkIsFilled
  BY DEF Init, Idle, ChunkIsFree, ChunkIsFilled
<1>4. StreamInv
  BY <1>2, <1>3, InitKick DEF StreamInv
<1>5. rxCopied = 0
  BY DEF Init, Idle, rxCopied
<1>6. TxRing = << >> /\ RxRing = << >>
  <2>1. Held(tx_buf, 0, 0) = << >> /\ Held(rx_buf, 0, 0) = << >>
    <3>1. Count(0, 0) = 0
      BY DEF Count
    <3>2. Len(Held(tx_buf, 0, 0)) = 0 /\ Held(tx_buf, 0, 0) \in Seq(Byte)
      BY <1>1, <1>2, <3>1, HeldType DEF BuffersType
    <3>3. Len(Held(rx_buf, 0, 0)) = 0 /\ Held(rx_buf, 0, 0) \in Seq(Byte)
      BY <1>1, <1>2, <3>1, HeldType DEF BuffersType
    <3> QED
      BY <3>2, <3>3, EmptySeq
  <2> QED
    BY <1>5, <2>1 DEF TxRing, RxRing, Init
<1>7. tx_fifo \o TxRing = << >> /\ RxRing \o rx_fifo = << >>
  BY <1>2, <1>6, ConcatEmptySeq DEF Init, DeviceInit, BuffersType
<1> QED
  BY <1>4, <1>7 DEF Tx!Init, Rx!Init, Init, DeviceInit

\* Every step keeps the invariant and is a step of both streams.
LEMMA StepStream == StreamInv /\ [Next]_vars => StreamInv' /\ TxStep /\ RxStep
<1> SUFFICES ASSUME StreamInv, [Next]_vars PROVE StreamInv' /\ TxStep /\ RxStep
  OBVIOUS
<1>1. KickInv'
  BY IrqKick, WriterKick, ReaderKick, OtherKick DEF Next, StreamInv
<1>2. UNCHANGED program
  BY DEF Next, vars
<1>3. BuffersType' /\ ChunkIsFree' /\ ChunkIsFilled' /\ TxStep /\ RxStep
  BY <1>2, IrqStream, WriterStream, ReaderStream, OtherStream DEF Next
<1> QED
  BY <1>1, <1>3 DEF StreamInv

\* What write copies to the ring comes to the host once and in order, whatever
\* handler, alarm and host do between the steps of the writer.
THEOREM TransmitIsStream == Spec => TxStream
<1>1. StreamInv /\ [Next]_vars => StreamInv' /\ [Tx!Next]_(Tx!streamVars)
  BY StepStream DEF TxStep
<1>2. Init => StreamInv /\ Tx!Init
  BY InitStream
<1> QED
  BY <1>1, <1>2, PTL DEF Spec, TxStream, Tx!Spec

\* What the host sends comes to the reader once and in order.
THEOREM ReceiveIsStream == Spec => RxStream
<1>1. StreamInv /\ [Next]_vars => StreamInv' /\ [Rx!Next]_(Rx!streamVars)
  BY StepStream DEF RxStep
<1>2. Init => StreamInv /\ Rx!Init
  BY InitStream
<1> QED
  BY <1>1, <1>2, PTL DEF Spec, RxStream, Rx!Spec

-----------------------------------------------------------------------------
(* The types.  The handler writes no more than the room it has read: the   *)
(* host only makes more.                                                   *)

SpaceIsThere ==
  /\ irq.space \in 0..Depth
  /\ irq.pc \in {"read", "read_end", "write"} => Len(tx_fifo) + irq.space <= Depth

SettingsType ==
  /\ irq_enable \subseteq {"RE", "WE"} /\ ac \in BOOLEAN /\ host \in BOOLEAN
  /\ host_inactive \in 0..(INT_MAX - 2) /\ timeout \in 1..INT_MAX /\ alarm \in BOOLEAN
  /\ Len(rx_fifo) <= Depth /\ Len(tx_fifo) <= Depth /\ Len(host_got) <= 1

TypeInv == StreamInv /\ SpaceIsThere /\ SettingsType

LEMMA IrqTypes ==
  ASSUME TypeInv, Irq, UNCHANGED program
  PROVE  SpaceIsThere' /\ SettingsType'
<1>0. /\ rx_fifo \in Seq(Byte) /\ tx_fifo \in Seq(Byte) /\ IrqType
      /\ Len(rx_fifo) \in Nat /\ Len(tx_fifo) \in Nat /\ Depth \in Nat
      /\ tx_buf \in [Index -> Byte] /\ tx_out \in Index
  BY DeviceAssumption, LenProperties
     DEF TypeInv, StreamInv, KickInv, BuffersType, DeviceAssumption
<1> USE DEF TypeInv, SpaceIsThere, SettingsType, IrqFrame
<1>1. CASE IrqControl
  <2>1. WSpace \in 0..Depth /\ Len(tx_fifo) + WSpace <= Depth
    BY <1>0 DEF WSpace
  <2>2. irq'.space \in 0..Depth /\ (irq'.pc = "idle" \/ irq'.space = WSpace)
    BY <1>0, <1>1, <2>1 DEF IrqControl, IrqIdle
  <2> QED
    BY <1>0, <1>1, <2>1, <2>2 DEF IrqControl
<1>2. CASE IrqRead
  <2>1. /\ irq'.pc \in {"read", "read_end"} /\ irq'.space = irq.space /\ irq.pc = "read"
        /\ UNCHANGED <<irq_enable, tx_fifo>>
    BY <1>0, <1>2 DEF IrqRead, IrqType
  <2>2. Len(rx_fifo') <= Depth
    BY <1>0, <1>2, HeadTailProperties DEF IrqRead
  <2> QED
    BY <1>0, <1>2, <2>1, <2>2 DEF IrqRead
<1>3. CASE IrqReadFull
  BY <1>0, <1>3 DEF IrqReadFull, IrqType
<1>4. CASE IrqReadEnd
  <2>1. irq'.space = irq.space /\ irq.pc = "read_end" /\ UNCHANGED <<rx_fifo, tx_fifo>>
    BY <1>0, <1>4 DEF IrqReadEnd, IrqType
  <2>2. irq_enable' \subseteq {"RE", "WE"}
    BY <1>4 DEF IrqReadEnd, SetControl
  <2> QED
    BY <1>0, <1>4, <2>1, <2>2 DEF IrqReadEnd
<1>5. CASE IrqWrite
  <2>1. irq'.space = irq.space - 1 /\ irq.space > 0 /\ irq.pc = "write" /\ irq'.pc = "write"
    BY <1>0, <1>5 DEF IrqWrite, IrqType
  <2>2. Len(tx_fifo') = Len(tx_fifo) + 1
    BY <1>0, <1>5, AppendProperties DEF IrqWrite
  <2>3. UNCHANGED <<irq_enable, rx_fifo, ac, host, host_inactive, timeout, alarm, host_got>>
    BY <1>5 DEF IrqWrite
  <2> QED
    BY <1>0, <1>5, <2>1, <2>2, <2>3
<1>6. CASE IrqWriteEnd
  <2>1. irq'.space = irq.space /\ irq.pc = "write" /\ irq'.pc = "control"
        /\ UNCHANGED <<rx_fifo, tx_fifo>>
    BY <1>0, <1>6 DEF IrqWriteEnd, IrqType
  <2>2. irq_enable' \subseteq {"RE", "WE"}
    BY <1>6 DEF IrqWriteEnd, SetControl, EnableAfterDrain
  <2> QED
    BY <1>0, <1>6, <2>1, <2>2 DEF IrqWriteEnd
<1> QED
  BY <1>1, <1>2, <1>3, <1>4, <1>5, <1>6 DEF Irq

LEMMA ThreadTypes ==
  ASSUME TypeInv, CallWrite \/ CallClose \/ Writer \/ CallRead \/ Reader
  PROVE  SpaceIsThere' /\ SettingsType'
<1> USE DEF TypeInv, SpaceIsThere, SettingsType
<1>1. UNCHANGED <<irq, host_inactive, timeout, alarm, ac, rx_fifo, tx_fifo, host, host_got>>
  BY DEF Writer, CallWrite, CallClose, WritePointers, WriteCopy, WriteAdvance, WriteKick,
     WriteWait, WriteTest, WriteReturn, CloseWait, WriterOnly, WriterFrame,
     Reader, CallRead, ReadPointers, ReadCopy, ReadAdvance, ReadWait, ReadTest, ReadEnable,
     ReaderOnly, ReaderFrame
<1>2. irq_enable' \subseteq irq_enable \cup {"RE", "WE"}
  BY DEF Writer, CallWrite, CallClose, WritePointers, WriteCopy, WriteAdvance, WriteKick,
     WriteWait, WriteTest, WriteReturn, CloseWait, WriterOnly, WriterFrame,
     Reader, CallRead, ReadPointers, ReadCopy, ReadAdvance, ReadWait, ReadTest, ReadEnable,
     ReaderOnly, ReaderFrame, SetControl, EnableToSend, EnableAfterRead
<1> QED
  BY <1>1, <1>2

LEMMA OtherTypes ==
  ASSUME TypeInv, Timeout \/ SetTimeout \/ HostStep \/ UNCHANGED vars
  PROVE  SpaceIsThere' /\ SettingsType'
<1>0. /\ rx_fifo \in Seq(Byte) /\ tx_fifo \in Seq(Byte) /\ program \in Programs
      /\ Len(rx_fifo) \in Nat /\ Len(tx_fifo) \in Nat /\ Depth \in Nat
  BY DeviceAssumption, LenProperties DEF TypeInv, StreamInv, BuffersType, DeviceAssumption
<1> USE DEF TypeInv, SpaceIsThere, SettingsType
<1>1. CASE Timeout
  <2>1. host_inactive' \in 0..(INT_MAX - 2)
    BY <1>1, UartAssumption DEF UartAssumption, Timeout
  <2> QED
    BY <1>1, <2>1 DEF Timeout
<1>2. CASE SetTimeout
  <2>1. timeout' \in 1..INT_MAX
    BY <1>2, UartAssumption DEF UartAssumption, SetTimeout
  <2> QED
    BY <1>2, <2>1 DEF SetTimeout, deviceVars
<1>3. CASE HostStep
  <2>1. CASE HostSends(program.host)
    <3>1. Len(rx_fifo') = Len(rx_fifo) + 1
      <4>1. PICK b \in program.host : rx_fifo' = Append(rx_fifo, b)
        BY <2>1 DEF HostSends
      <4>2. b \in Byte
        BY <1>0, UartAssumption DEF UartAssumption
      <4> QED
        BY <1>0, <4>1, <4>2, AppendProperties
    <3> QED
      BY <1>0, <1>3, <2>1, <3>1 DEF HostStep, HostSends, uartVars
  <2>2. CASE HostReads
    <3>1. Len(tx_fifo') = Len(tx_fifo) - 1 /\ Len(host_got') = 1
      BY <1>0, <2>2, HeadTailProperties DEF HostReads
    <3> QED
      BY <1>0, <1>3, <2>2, <3>1 DEF HostStep, HostReads, uartVars
  <2>3. CASE HostPolls \/ HostPlugged
    BY <1>3, <2>3 DEF HostStep, HostPolls, HostPlugged, uartVars
  <2> QED
    BY <1>3, <2>1, <2>2, <2>3 DEF HostStep, Host
<1>4. CASE UNCHANGED vars
  BY <1>4 DEF vars, deviceVars, uartVars
<1> QED
  BY <1>1, <1>2, <1>3, <1>4

LEMMA InitTypes == Init => TypeInv
<1> SUFFICES ASSUME Init PROVE TypeInv
  OBVIOUS
<1>1. Len(<< >>) = 0 /\ Depth \in Nat
  BY DeviceAssumption DEF DeviceAssumption
<1>2. SpaceIsThere
  BY <1>1 DEF Init, DeviceInit, IrqIdle, SpaceIsThere
<1>3. timeout \in 1..INT_MAX /\ host_inactive \in 0..(INT_MAX - 2)
  BY UartAssumption DEF UartAssumption, Init
<1>4. Len(rx_fifo) = 0 /\ Len(tx_fifo) = 0 /\ Len(host_got) = 0
  BY <1>1 DEF Init, DeviceInit
<1>5. SettingsType
  <2>1. irq_enable \subseteq {"RE", "WE"} /\ ac \in BOOLEAN /\ host \in BOOLEAN /\ alarm \in BOOLEAN
    BY DEF Init, DeviceInit
  <2>2. Len(rx_fifo) <= Depth /\ Len(tx_fifo) <= Depth /\ Len(host_got) <= 1
    BY <1>1, <1>4
  <2> QED
    BY <1>3, <2>1, <2>2 DEF SettingsType
<1> QED
  BY <1>2, <1>5, InitStream DEF TypeInv

\* The indices, counters and registers keep to their types, the FIFOs to their
\* depth, and a copy stays within its buffer: the handler's count of the room in the
\* FIFO and a thread's chunk are read in one step and used in later ones.
THEOREM TypesKept == Spec => []TypeOK
<1>1. TypeInv /\ [Next]_vars => TypeInv'
  BY IrqTypes, ThreadTypes, OtherTypes, StepStream DEF Next, TypeInv, vars
<1>2. TypeInv => TypeOK
  <2> SUFFICES ASSUME TypeInv PROVE TypeOK
    OBVIOUS
  <2> USE DEF TypeInv, StreamInv, KickInv, BuffersType, EnablesWritten, SettingsType
  <2>1. DeviceTypeOK
    BY DEF DeviceTypeOK
  <2>2. ThreadOK(writer) /\ ThreadOK(reader)
    BY DEF ThreadOK, ThreadType, ThreadRecord
  <2>3. Chunk(writer, writer.in) /\ Chunk(reader, reader.out)
    BY DEF Chunk, ThreadType, ChunkIsFree, ChunkIsFilled
  <2>4. irq.pc = "write" => Len(tx_fifo) + irq.space <= Depth
    BY DEF SpaceIsThere
  <2>5. irq.space \in 0..Depth
    BY DEF SpaceIsThere
  <2>6. /\ irq.pc \in {"idle", "control", "read", "read_end", "write"}
        /\ irq.wi \in BOOLEAN /\ irq.ravail \in BOOLEAN
    BY DEF IrqType
  <2> QED
    BY <2>1, <2>2, <2>3, <2>4, <2>5, <2>6 DEF TypeOK
<1> QED
  BY <1>1, <1>2, InitTypes, PTL DEF Spec
=============================================================================
