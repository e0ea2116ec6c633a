---------------------------- MODULE EthFirmware_proofs ----------------------------
(***************************************************************************)
(* Proofs about the firmware and its DMA controllers, for every            *)
(* SinkFrames; and about the functions of firmware and driver that change  *)
(* fields of registers of the MAC and its PHYs (TseMdio).                  *)
(***************************************************************************)
EXTENDS EthFirmware, MCTseSystem, SequenceTheorems, TLAPS

USE SinkAssumption DEF Controllers, RxChain, TxChain, Descriptors, None, FrameKinds,
  ControlBits, ChainControl

LEMMA InitInv == Init => EthInv
<1>. SUFFICES ASSUME Init PROVE EthInv
  OBVIOUS
<1>. USE DEF Init, SgdmaInit
<1>1. CsrTypeOK
  BY DEF CsrTypeOK
<1>2. ChainTypeOK
  BY DEF ChainTypeOK, Descriptor
<1>3. StreamTypeOK
  BY DEF StreamTypeOK
<1>4. CpuTypeOK
  BY DEF CpuTypeOK, MainPcs
<1>5. ContextInv
  BY DEF ContextInv, inHandler, mainPc, OpeningPcs, PioPcs, RxHandlerPcs, TxHandlerPcs,
     AsyncPcs
<1>6. AsyncInv /\ TxSilent
  BY DEF AsyncInv, TxSilent
<1>7. RxInv
  BY DEF RxInv, rxOpening, mainPc, inHandler, OpeningPcs, AsyncPcs, Rest, run
<1>8. TxInv
  BY DEF TxInv, TxOver, Rest, run, AsyncPcs
<1>. QED
  BY <1>1, <1>2, <1>3, <1>4, <1>5, <1>6, <1>7, <1>8 DEF EthInv, TypeOK

-----------------------------------------------------------------------------
(* Type correctness.                                                       *)

LEMMA ConstructType ==
  ASSUME TypeOK,
         \E d, next \in Descriptors, bytes \in {0, HeaderBytes, DataBytes},
            sop, eop \in BOOLEAN : Construct(d, next, bytes, sop, eop)
  PROVE  descriptor' \in [Descriptors -> Descriptor]
<1>0. PICK d \in Descriptors, next \in Descriptors,
           bytes \in {0, HeaderBytes, DataBytes},
           sop \in BOOLEAN, eop \in BOOLEAN : Construct(d, next, bytes, sop, eop)
  OBVIOUS
<1>. DEFINE released == [descriptor EXCEPT ![next].owned = FALSE]
            new == [owned |-> TRUE, status |-> FALSE, next |-> next,
                    bytes_to_transfer |-> bytes,
                    generate_sop |-> sop, generate_eop |-> eop]
<1>1. descriptor \in [Descriptors -> Descriptor]
  BY DEF TypeOK, ChainTypeOK
<1>2. [descriptor[next] EXCEPT !.owned = FALSE] \in Descriptor
  <2>1. descriptor[next] \in Descriptor
    BY <1>1
  <2>. QED
    BY <2>1 DEF Descriptor
<1>3. released = [descriptor EXCEPT ![next] = [descriptor[next] EXCEPT !.owned = FALSE]]
  OBVIOUS
<1>4. released \in [Descriptors -> Descriptor]
  <2>. HIDE DEF released
  <2>. QED
    BY <1>1, <1>2, <1>3
<1>5. new \in Descriptor
  BY DEF Descriptor
<1>6. descriptor' = [released EXCEPT ![d] = new]
  BY <1>0 DEF Construct
<1>. QED
  <2>. HIDE DEF released, new
  <2>. QED
    BY <1>4, <1>5, <1>6

LEMMA ControlType ==
  ASSUME TypeOK, NEW c \in Controllers, NEW bits \in SUBSET ControlBits,
         NEW clearInterrupt \in BOOLEAN, WriteControl(c, bits, clearInterrupt)
  PROVE  CsrTypeOK' /\ ChainTypeOK' /\ StreamTypeOK'
BY DEF TypeOK, CsrTypeOK, ChainTypeOK, StreamTypeOK, WriteControl, RunEdge,
   streamVars, run

LEMMA StatusType ==
  ASSUME TypeOK, NEW c \in Controllers, ClearStatus(c)
  PROVE  CsrTypeOK' /\ ChainTypeOK' /\ StreamTypeOK'
BY DEF TypeOK, CsrTypeOK, ChainTypeOK, StreamTypeOK, ClearStatus, RunEdge,
   streamVars, run

LEMMA TailType ==
  ASSUME NEW S, NEW s \in Seq(S), s # <<>>
  PROVE  Tail(s) \in Seq(S) /\ Head(s) \in S
OBVIOUS

LEMMA OneElement ==
  ASSUME NEW x
  PROVE  <<x>> # <<>> /\ Head(<<x>>) = x /\ Tail(<<x>>) = <<>>
OBVIOUS

\* A controller that fetches has a descriptor to fetch, and what it has moved
\* belongs to a descriptor that it has fetched.
LEMMA EngineFacts ==
  ASSUME EthInv, NEW c \in Controllers
  PROVE  /\ owned_by_hw[c] => next_desc[c] \in Descriptors
         /\ status_token_fifo[c] # <<>> => desc_address_fifo[c] # <<>>
<1>. DEFINE Facts(k) == /\ owned_by_hw[k] => next_desc[k] \in Descriptors
                        /\ status_token_fifo[k] # <<>> => desc_address_fifo[k] # <<>>
<1>0. \A x, y : <<x>> # <<>> /\ <<x, y>> # <<>>
  OBVIOUS
<1>1. Facts("rx")
  <2>1. CASE Rest("rx")
    BY <2>1 DEF Rest
  <2>2. CASE RxRunning
    BY <1>0, <2>2 DEF RxRunning
  <2>3. CASE RxStopped
    BY <1>0, <2>3 DEF RxStopped
  <2>. QED
    BY <2>1, <2>2, <2>3 DEF EthInv, RxInv, RxDone
<1>2. Facts("tx")
  <2>1. CASE TxOver
    BY <2>1 DEF TxOver, Rest
  <2>2. CASE TxRunning
    BY <1>0, <2>2 DEF TxRunning, TxUnsent, TxHeaderSent, TxDataSent, TxStage
  <2>. QED
    BY <2>1, <2>2 DEF EthInv, TxInv
<1>. QED
  BY <1>1, <1>2

LEMMA EngineType ==
  ASSUME EthInv, NEW c \in Controllers, Engine(c)
  PROVE  CsrTypeOK' /\ ChainTypeOK' /\ StreamTypeOK'
<1>1. TypeOK
  BY DEF EthInv
<1>. USE DEF TypeOK, CsrTypeOK, ChainTypeOK, StreamTypeOK, streamVars, csrVars, CompleteChain,
   canMove, moving, run, busy
<1>2. CASE Fetch(c)
  <2>1. next_desc[c] \in Descriptors
    BY <1>2, EngineFacts DEF Fetch, canFetch
  <2>2. descriptor[next_desc[c]] \in Descriptor
    BY <1>1, <2>1
  <2>3. /\ descriptor[next_desc[c]].owned \in BOOLEAN
        /\ descriptor[next_desc[c]].next \in Descriptors \cup {None}
    BY <2>2 DEF Descriptor
  <2>. QED
    BY <1>1, <1>2, <2>1, <2>3 DEF Fetch
<1>3. CASE WriteBack(c)
  <2>. DEFINE d == Head(desc_address_fifo[c])
              status == Head(status_token_fifo[c])
  <2>1. desc_address_fifo[c] # <<>> /\ status_token_fifo[c] # <<>>
    BY <1>3, EngineFacts DEF WriteBack
  <2>2. d \in Descriptors /\ status \in BOOLEAN
    BY <1>1, <2>1
  <2>3. descriptor' \in [Descriptors -> Descriptor]
    <3>1. descriptor[d] \in Descriptor
      BY <1>1, <2>2
    <3>2. [descriptor[d] EXCEPT !.owned = FALSE, !.status = status] \in Descriptor
      <4>. HIDE DEF d, status
      <4>. QED
        BY <2>2, <3>1 DEF Descriptor
    <3>3. descriptor' = [descriptor EXCEPT
            ![d] = [descriptor[d] EXCEPT !.owned = FALSE, !.status = status]]
      BY <1>1, <1>3, <2>2 DEF WriteBack
    <3>. QED
      <4>. HIDE DEF d, status
      <4>. QED
        BY <1>1, <2>2, <3>2, <3>3
  <2>4. /\ desc_address_fifo' \in [Controllers -> Seq(Descriptors)]
        /\ status_token_fifo' \in [Controllers -> Seq(BOOLEAN)]
    <3>1. /\ desc_address_fifo' =
               [desc_address_fifo EXCEPT ![c] = Tail(desc_address_fifo[c])]
          /\ status_token_fifo' =
               [status_token_fifo EXCEPT ![c] = Tail(status_token_fifo[c])]
      BY <1>3 DEF WriteBack
    <3>2. /\ Tail(desc_address_fifo[c]) \in Seq(Descriptors)
          /\ Tail(status_token_fifo[c]) \in Seq(BOOLEAN)
      <4>1. /\ desc_address_fifo[c] \in Seq(Descriptors)
            /\ status_token_fifo[c] \in Seq(BOOLEAN)
        BY <1>1
      <4>. QED
        BY <2>1, <4>1, TailType
    <3>. QED
      BY <1>1, <3>1, <3>2
  <2>. QED
    BY <1>1, <1>3, <2>3, <2>4 DEF WriteBack
<1>4. CASE Receive
  BY <1>1, <1>4 DEF Receive
<1>5. CASE Transmit
  BY <1>1, <1>5 DEF Transmit
<1>. QED
  BY <1>2, <1>3, <1>4, <1>5 DEF Engine
LEMMA ReturnPc ==
  ASSUME channel \in Controllers
  PROVE  Return \in {"pio_irq_mask", "rx_memset", "tx_poll"}
BY DEF Return

LEMMA AsyncControl ==
  ASSUME TypeOK, NEW c \in Controllers
  PROVE  asyncControl(c) \in SUBSET ControlBits
BY DEF TypeOK, CsrTypeOK, asyncControl

\* The steps of the processor that touch no controller and no descriptor.
QuietStep == \/ DoAsync \/ CreateHeaders \/ TseInit \/ PioIrqMask \/ PioEdgeCap
             \/ PioRegister \/ Interrupt \/ NextHandler \/ Leave \/ RxCheck \/ TxPoll

LEMMA QuietUnchanged ==
  ASSUME QuietStep
  PROVE  UNCHANGED sgdmaVars
BY DEF QuietStep, DoAsync, CreateHeaders, TseInit, PioIrqMask, PioEdgeCap, PioRegister,
   Interrupt, NextHandler, Leave, RxCheck, TxPoll, Dispatch

LEMMA DeviceType ==
  ASSUME EthInv, Next
  PROVE  CsrTypeOK' /\ ChainTypeOK' /\ StreamTypeOK'
<1>. USE DEF EthInv
<1>1. CASE QuietStep
  BY <1>1, QuietUnchanged
  DEF TypeOK, CsrTypeOK, ChainTypeOK, StreamTypeOK, sgdmaVars, csrVars, chainVars, streamVars
<1>2. CASE ClearRun \/ Start \/ SgdmaIrq
  <2>1. \E bits \in SUBSET ControlBits, b \in BOOLEAN : WriteControl(channel, bits, b)
    <3>1. channel \in Controllers /\ control_reg[channel] \in SUBSET ControlBits
      BY DEF TypeOK, CpuTypeOK, CsrTypeOK
    <3>2. control_reg[channel] \ {"RUN"} \in SUBSET ControlBits
      BY <3>1
    <3>. QED
      BY <1>2, <3>1, <3>2, AsyncControl DEF ClearRun, Start, SgdmaIrq
  <2>. QED
    BY <2>1, ControlType DEF TypeOK, CpuTypeOK
<1>3. CASE ClearStatusReg
  BY <1>3, StatusType DEF ClearStatusReg, TypeOK, CpuTypeOK
<1>4. CASE WriteNextPointer
  BY <1>4 DEF WriteNextPointer, WritePointer, TypeOK, CpuTypeOK, CsrTypeOK, ChainTypeOK,
     StreamTypeOK, chainVars, streamVars
<1>5. CASE OpenSgdma \/ RxConstruct \/ TxHeader \/ TxData
  <2>1. \E d, next \in Descriptors, bytes \in {0, HeaderBytes, DataBytes},
           sop, eop \in BOOLEAN : Construct(d, next, bytes, sop, eop)
    BY <1>5 DEF OpenSgdma, RxConstruct, TxHeader, TxData
  <2>2. descriptor' \in [Descriptors -> Descriptor]
    BY <2>1, ConstructType
  <2>3. UNCHANGED <<csrVars, chainVars, streamVars>>
    BY <1>5 DEF OpenSgdma, RxConstruct, TxHeader, TxData
  <2>. QED
    BY <2>2, <2>3 DEF TypeOK, CsrTypeOK, ChainTypeOK, StreamTypeOK, csrVars, chainVars,
       streamVars
<1>6. CASE RxMemset \/ ButtonIsr
  BY <1>6 DEF RxMemset, ButtonIsr, TypeOK, CsrTypeOK, ChainTypeOK,
     StreamTypeOK, csrVars, chainVars
<1>9. CASE FrameArrives
  <2>1. PICK kind \in FrameKinds : sink_stream' = Append(sink_stream, kind)
    BY <1>9 DEF FrameArrives
  <2>2. sink_stream \in Seq(FrameKinds) /\ Len(sink_stream) < SinkFrames
    BY <1>9 DEF FrameArrives, TypeOK, StreamTypeOK
  <2>3. sink_stream' \in Seq(FrameKinds) /\ Len(sink_stream') = Len(sink_stream) + 1
    BY <2>1, <2>2
  <2>4. Len(sink_stream') <= SinkFrames
    <3>1. Len(sink_stream) \in Nat
      BY <2>2
    <3>. QED
      BY <2>2, <2>3, <3>1
  <2>. QED
    BY <1>9, <2>3, <2>4 DEF FrameArrives, TypeOK, CsrTypeOK, ChainTypeOK, StreamTypeOK,
       csrVars, chainVars
<1>7. CASE \E c \in Controllers : Dma(c)
  BY <1>7, EngineType DEF Dma
<1>8. CASE Edge
  BY <1>8 DEF Edge, TypeOK, CsrTypeOK, ChainTypeOK, StreamTypeOK, sgdmaVars, csrVars,
     chainVars, streamVars
<1>. QED
  BY <1>1, <1>2, <1>3, <1>4, <1>5, <1>6, <1>7, <1>8, <1>9
  DEF Next, Cpu, DriverStep, MainStep, HandlerStep, QuietStep

-----------------------------------------------------------------------------
(* The processor's own state.                                              *)

LEMMA PcType ==
  ASSUME EthInv, Next
  PROVE  CpuTypeOK'
<1>. USE DEF EthInv
<1>0. TypeOK /\ CpuTypeOK /\ ContextInv
  BY DEF TypeOK
<1>. USE DEF CpuTypeOK, MainPcs, HandlerPcs, AsyncPcs, RxHandlerPcs, TxHandlerPcs, Goto, pioVars
<1>1. CASE DriverStep
  BY <1>0, <1>1, ReturnPc DEF DriverStep, DoAsync, ClearRun, ClearStatusReg,
     WriteNextPointer, Start
<1>2. CASE CreateHeaders
  BY <1>0, <1>2 DEF CreateHeaders, SizeofIp, DataBytes, SizeofPointer, SizeofUdp
<1>7. CASE OpenSgdma
  BY <1>0, <1>7 DEF OpenSgdma
<1>8. CASE TseInit \/ PioIrqMask \/ PioEdgeCap \/ PioRegister
  BY <1>0, <1>8 DEF TseInit, PioIrqMask, PioEdgeCap, PioRegister
<1>3. CASE Interrupt \/ NextHandler
  BY <1>0, <1>3 DEF Interrupt, NextHandler, Dispatch
<1>4. CASE Leave
  BY <1>0, <1>4 DEF Leave, ContextInv, PioPcs, OpeningPcs, inHandler
<1>5. CASE SgdmaIrq \/ RxCheck \/ RxConstruct \/ RxMemset \/ ButtonIsr \/ TxHeader
           \/ TxData \/ TxPoll
  BY <1>0, <1>5 DEF SgdmaIrq, RxCheck, RxConstruct, RxMemset, ButtonIsr, TxHeader, TxData,
     TxPoll
<1>6. CASE FrameArrives \/ Edge \/ \E c \in Controllers : Dma(c)
  <2>1. UNCHANGED cpuVars /\ UNCHANGED irq_mask /\ edge_capture' \in BOOLEAN
    BY <1>0, <1>6 DEF FrameArrives, Edge, Dma
  <2>. QED
    BY <1>0, <2>1 DEF cpuVars
<1>. QED
  BY <1>1, <1>2, <1>3, <1>4, <1>5, <1>6, <1>7, <1>8 DEF Next, Cpu, MainStep, HandlerStep

\* A step within main, or within a handler, that keeps to the pcs it may have.
LEMMA ContextKept ==
  ASSUME CpuTypeOK, ContextInv, UNCHANGED <<channel, interrupted, callback, pio_registered>>,
         IF inHandler THEN pc' \in HandlerPcs
         ELSE /\ pc' \in OpeningPcs \cup PioPcs
              /\ pc' = "forever" <=> pc = "forever"
              /\ pc' \in OpeningPcs \ AsyncPcs <=> pc \in OpeningPcs \ AsyncPcs,
         pc' \in RxHandlerPcs => channel = "rx",
         pc' \in TxHandlerPcs => channel = "tx"
  PROVE  ContextInv'
<1>1. inHandler' = inHandler
  BY DEF inHandler
<1>2. CASE inHandler
  <2>1. mainPc' = mainPc
    BY <1>1, <1>2 DEF mainPc
  <2>. QED
    BY <1>1, <1>2, <2>1 DEF ContextInv
<1>3. CASE ~inHandler
  <2>1. mainPc = pc /\ mainPc' = pc'
    BY <1>1, <1>3 DEF mainPc
  <2>. QED
    BY <1>1, <1>3, <2>1 DEF ContextInv
<1>. QED
  BY <1>2, <1>3

LEMMA ContextStep ==
  ASSUME EthInv, Next
  PROVE  ContextInv'
<1>. USE DEF EthInv
<1>0. TypeOK /\ CpuTypeOK /\ ContextInv /\ TxSilent
  BY DEF TypeOK
<1>a. /\ inHandler => pc \in HandlerPcs
      /\ ~inHandler => pc \in OpeningPcs \cup PioPcs /\ channel = "rx"
      /\ pc \in RxHandlerPcs => channel = "rx"
      /\ pc \in TxHandlerPcs => channel = "tx"
      /\ inHandler => \E p \in PioPcs : interrupted = <<p, "rx">>
      /\ pio_registered <=> mainPc = "forever"
      /\ callback["rx"] <=> mainPc \notin OpeningPcs \ AsyncPcs
      /\ ~callback["tx"]
      /\ channel \in Controllers /\ callback \in [Controllers -> BOOLEAN]
  BY <1>0 DEF ContextInv, CpuTypeOK
<1>. USE DEF PioPcs, OpeningPcs, HandlerPcs, AsyncPcs, RxHandlerPcs, TxHandlerPcs, Goto
<1>1. CASE DoAsync \/ Start
  BY <1>0, <1>1, <1>a, ContextKept DEF DoAsync, Start, Return
<1>2. CASE ClearRun \/ ClearStatusReg \/ WriteNextPointer
  BY <1>0, <1>2, <1>a, ContextKept DEF ClearRun, ClearStatusReg, WriteNextPointer
<1>3. CASE CreateHeaders \/ TseInit \/ PioIrqMask \/ PioEdgeCap
  BY <1>0, <1>3, <1>a, ContextKept DEF CreateHeaders, TseInit, PioIrqMask, PioEdgeCap
<1>10. CASE OpenSgdma
  <2>1. ~inHandler /\ ~inHandler' /\ mainPc' = "do_async" /\ mainPc = "open_sgdma"
    BY <1>a, <1>10 DEF OpenSgdma, inHandler, mainPc
  <2>. QED
    BY <1>0, <1>10, <1>a, <2>1 DEF OpenSgdma, ContextInv
<1>11. CASE PioRegister
  <2>1. ~inHandler /\ ~inHandler' /\ mainPc' = "forever" /\ mainPc = "pio_register"
    BY <1>a, <1>11 DEF PioRegister, inHandler, mainPc
  <2>. QED
    BY <1>0, <1>11, <1>a, <2>1 DEF PioRegister, ContextInv
<1>4. CASE Interrupt
  <2>1. ~inHandler /\ channel = "rx" /\ interrupted' = <<pc, "rx">>
    BY <1>4, <1>a DEF Interrupt
  <2>2. inHandler' /\ mainPc = pc /\ mainPc' = pc
    BY <2>1 DEF inHandler, mainPc
  <2>3. pc \in PioPcs
    BY <1>a, <1>4, <2>1, <2>2 DEF Interrupt, Dispatch, pending, pioPending, TxSilent, RxInv, rxOpening
  <2>. QED
    BY <1>0, <1>4, <1>a, <2>1, <2>2, <2>3
    DEF Interrupt, Dispatch, ContextInv, TxSilent, pending, pioPending
<1>5. CASE NextHandler
  <2>1. inHandler' = inHandler /\ inHandler /\ mainPc' = mainPc
    BY <1>a, <1>5 DEF NextHandler, inHandler, mainPc
  <2>. QED
    BY <1>0, <1>5, <1>a, <2>1
    DEF NextHandler, Dispatch, ContextInv, TxSilent, pending, pioPending
<1>6. CASE Leave
  <2>1. PICK p \in PioPcs : interrupted = <<p, "rx">>
    BY <1>a, <1>6 DEF Leave
  <2>2. inHandler /\ ~inHandler' /\ pc' = p /\ channel' = "rx"
    BY <1>6, <2>1 DEF Leave, inHandler
  <2>3. mainPc = p /\ mainPc' = p
    BY <2>1, <2>2 DEF mainPc
  <2>. QED
    BY <1>0, <1>6, <1>a, <2>2, <2>3 DEF Leave, ContextInv
<1>7. CASE SgdmaIrq \/ RxCheck \/ RxConstruct \/ RxMemset
  BY <1>0, <1>7, <1>a, ContextKept DEF SgdmaIrq, RxCheck, RxConstruct, RxMemset
<1>8. CASE TxHeader \/ TxData \/ TxPoll
  BY <1>0, <1>8, <1>a, ContextKept DEF TxHeader, TxData, TxPoll
<1>12. CASE ButtonIsr
  BY <1>0, <1>12, <1>a, ContextKept DEF ButtonIsr
<1>9. CASE FrameArrives \/ Edge \/ \E c \in Controllers : Dma(c)
  BY <1>0, <1>9, <1>a, ContextKept DEF FrameArrives, Edge, Dma, cpuVars
<1>. QED
  BY <1>1, <1>2, <1>3, <1>4, <1>5, <1>6, <1>7, <1>8, <1>9, <1>10, <1>11, <1>12
  DEF Next, Cpu, DriverStep, MainStep, HandlerStep

LEMMA SilentStep ==
  ASSUME EthInv, Next
  PROVE  TxSilent'
<1>. USE DEF EthInv
<1>0. TypeOK /\ CpuTypeOK /\ CsrTypeOK /\ ContextInv /\ TxSilent
  BY DEF TypeOK
<1>1. CASE UNCHANGED <<control_reg, csr_irq, error>>
  BY <1>0, <1>1 DEF TxSilent
<1>2. CASE ClearRun \/ Start \/ SgdmaIrq
  BY <1>0, <1>2 DEF ClearRun, Start, SgdmaIrq, WriteControl, asyncControl, TxSilent,
     CpuTypeOK, CsrTypeOK, ContextInv
<1>3. CASE ClearStatusReg
  BY <1>0, <1>3 DEF ClearStatusReg, ClearStatus, TxSilent, CpuTypeOK, CsrTypeOK
<1>4. CASE \E c \in Controllers : Dma(c)
  BY <1>0, <1>4 DEF Dma, Engine, Fetch, WriteBack, Receive, Transmit, TxSilent, CsrTypeOK,
     csrVars
<1>5. CASE QuietStep
  BY <1>1, <1>5, QuietUnchanged DEF sgdmaVars, csrVars
<1>6. CASE WriteNextPointer \/ OpenSgdma \/ RxConstruct \/ RxMemset \/ ButtonIsr
           \/ TxHeader \/ TxData \/ FrameArrives \/ Edge
  BY <1>1, <1>6 DEF WriteNextPointer, WritePointer, OpenSgdma, RxConstruct, RxMemset, ButtonIsr,
     TxHeader, TxData, FrameArrives, Edge, sgdmaVars, csrVars
<1>. QED
  BY <1>2, <1>3, <1>4, <1>5, <1>6 DEF Next, Cpu, DriverStep, MainStep, HandlerStep, QuietStep

-----------------------------------------------------------------------------
(* The receiver.                                                           *)

\* All that the parts of the invariant about the receiver speak of.
RxView == <<descriptor["rx_descriptor"], descriptor["rx_descriptor_end"],
            control_reg["rx"], error["rx"], chain_completed_int["rx"], csr_irq["rx"],
            owned_by_hw["rx"], next_desc["rx"],
            desc_address_fifo["rx"], status_token_fifo["rx"]>>

LEMMA RxViewKept ==
  ASSUME UNCHANGED RxView
  PROVE  /\ RxReady' = RxReady /\ RxRunning' = RxRunning /\ RxStopped' = RxStopped
         /\ RxDone' = RxDone /\ Rest("rx")' = Rest("rx") /\ run("rx")' = run("rx")
         /\ checkDescriptorStatus("rx_descriptor")' = checkDescriptorStatus("rx_descriptor")
         /\ csr_irq'["rx"] = csr_irq["rx"] /\ error'["rx"] = error["rx"]
<1>1. run("rx")' = run("rx") /\ RxReady' = RxReady
  BY DEF RxView, run, RxReady
<1>2. checkDescriptorStatus("rx_descriptor")' = checkDescriptorStatus("rx_descriptor")
  BY DEF RxView, checkDescriptorStatus
<1>3. Rest("rx")' = Rest("rx")
  BY <1>1 DEF RxView, Rest
<1>4. RxRunning' = RxRunning
  BY <1>1 DEF RxView, RxRunning
<1>5. RxStopped' = RxStopped
  BY <1>1 DEF RxView, RxStopped
<1>6. RxDone' = RxDone
  BY <1>2, <1>3 DEF RxView, RxDone
<1>. QED
  BY <1>1, <1>2, <1>3, <1>4, <1>5, <1>6 DEF RxView

\* A controller at rest takes no step.
LEMMA RestIsQuiet ==
  ASSUME NEW c \in Controllers, Rest(c)
  PROVE  ~Engine(c)
BY DEF Rest, Engine, Fetch, canFetch, WriteBack, Receive, Transmit, canMove

\* The driver works on a controller that is at rest.
LEMMA AsyncAtRest ==
  ASSUME EthInv, pc \in AsyncPcs
  PROVE  /\ Rest(channel) /\ ~busy(channel) /\ ~error[channel]
         /\ channel = "rx" => RxReady /\ ~csr_irq["rx"] /\ (rxOpening \/ rxHandled)
         /\ channel = "tx" => inHandler /\ mainPc \in PioPcs /\ TxOver
<1>. USE DEF EthInv
<1>1. channel \in Controllers /\ (inHandler => mainPc \in PioPcs)
      /\ (~inHandler => channel = "rx")
  BY DEF TypeOK, CpuTypeOK, ContextInv, mainPc, PioPcs
<1>2. CASE channel = "rx"
  <2>1. rxOpening \/ rxHandled
    BY <1>2 DEF rxOpening, rxHandled, mainPc, OpeningPcs
  <2>. QED
    BY <1>2, <2>1 DEF RxInv, Rest, busy
<1>3. CASE channel = "tx"
  <2>1. pc # "tx_poll"
    BY DEF AsyncPcs
  <2>. QED
    BY <1>1, <1>3, <2>1 DEF TxInv, TxOver, TxSilent, Rest, busy
<1>. QED
  BY <1>1, <1>2, <1>3

LEMMA RxEngine ==
  ASSUME EthInv, RxRunning \/ RxStopped \/ RxDone, Engine("rx")
  PROVE  /\ RxRunning' \/ RxStopped' \/ RxDone'
         /\ csr_irq["rx"] => csr_irq'["rx"]
<1>0. CsrTypeOK /\ ChainTypeOK
  BY DEF EthInv, TypeOK
<1>. USE DEF CsrTypeOK, ChainTypeOK
<1>1. CASE RxDone
  BY <1>1, RestIsQuiet DEF RxDone
<1>2. CASE RxStopped
  <2>1. WriteBack("rx") /\ desc_address_fifo["rx"] = <<"rx_descriptor">>
    <3>1. CASE status_token_fifo["rx"] = <<>>
      <4>1. Rest("rx")
        BY <1>2, <3>1, OneElement DEF RxStopped, Rest
      <4>. QED
        BY <4>1, RestIsQuiet
    <3>2. CASE status_token_fifo["rx"] # <<>>
      <4>1. ~owned_by_hw["rx"] /\ desc_address_fifo["rx"] = <<"rx_descriptor">>
        BY <1>2, <3>2 DEF RxStopped
      <4>. QED
        BY <3>2, <4>1 DEF Engine, Fetch, canFetch, Receive, canMove
    <3>. QED
      BY <3>1, <3>2
  <2>2. /\ csr_irq' = csr_irq /\ error' = error /\ owned_by_hw' = owned_by_hw
        /\ chain_completed_int' = chain_completed_int /\ control_reg' = control_reg
    BY <1>0, <1>2, <2>1 DEF RxStopped, WriteBack, CompleteChain
  <2>3. desc_address_fifo'["rx"] = <<>> /\ status_token_fifo'["rx"] = <<>>
    BY <1>0, <1>2, <2>1 DEF RxStopped, WriteBack
  <2>. QED
    BY <1>2, <2>2, <2>3 DEF RxStopped, run
<1>3. CASE RxRunning
  <2>1. CASE owned_by_hw["rx"] /\ next_desc["rx"] = "rx_descriptor"
    <3>1. desc_address_fifo["rx"] = <<>> /\ status_token_fifo["rx"] = <<>>
      BY <1>3, <2>1 DEF RxRunning
    <3>2. Fetch("rx")
      BY <3>1 DEF Engine, Receive, canMove, WriteBack
    <3>3. /\ owned_by_hw'["rx"] /\ next_desc'["rx"] = "rx_descriptor_end"
          /\ desc_address_fifo'["rx"] = <<"rx_descriptor">>
      BY <1>0, <1>3, <2>1, <3>1, <3>2 DEF Fetch, RxRunning, RxReady
    <3>4. chain_completed_int' = chain_completed_int
      BY <1>0, <3>2, <3>3 DEF Fetch, CompleteChain, busy
    <3>. QED
      BY <1>3, <3>1, <3>2, <3>3, <3>4 DEF Fetch, RxRunning, RxReady, run
  <2>2. CASE owned_by_hw["rx"] /\ next_desc["rx"] = "rx_descriptor_end"
    <3>1. /\ desc_address_fifo["rx"] = <<"rx_descriptor">>
          /\ status_token_fifo["rx"] = <<>>
      BY <1>3, <2>2 DEF RxRunning
    <3>2. Fetch("rx")
      <4>1. canFetch("rx")
        BY <1>3, <2>2, <3>1 DEF canFetch, RxRunning, FifoWords
      <4>. QED
        BY <3>1, <4>1 DEF Engine, Receive, canMove, WriteBack
    <3>3. ~owned_by_hw'["rx"] /\ desc_address_fifo'["rx"] = <<"rx_descriptor">>
      BY <1>0, <1>3, <2>2, <3>1, <3>2 DEF Fetch, RxRunning, RxReady
    <3>4. chain_completed_int' = chain_completed_int
      <4>1. desc_address_fifo'["rx"] # <<>>
        BY <3>3
      <4>. QED
        BY <1>0, <3>2, <4>1 DEF Fetch, CompleteChain, busy
    <3>. QED
      BY <1>3, <3>1, <3>2, <3>3, <3>4 DEF Fetch, RxRunning, RxReady, run
  <2>3. CASE ~owned_by_hw["rx"] /\ status_token_fifo["rx"] = <<>>
    <3>1. desc_address_fifo["rx"] = <<"rx_descriptor">>
      BY <1>3, <2>3 DEF RxRunning
    <3>2. Receive
      BY <2>3 DEF Engine, Fetch, canFetch, WriteBack
    <3>. DEFINE bad == Head(sink_stream) = "bad"
    <3>3. status_token_fifo'["rx"] = <<bad>> /\ error'["rx"] = bad
      BY <1>0, <1>3, <2>3, <3>2 DEF Receive, RxRunning
    <3>4. UNCHANGED <<descriptor, control_reg, chain_completed_int, csr_irq, owned_by_hw,
                      desc_address_fifo>>
      BY <3>2 DEF Receive
    <3>. HIDE DEF bad
    <3>5. CASE bad
      <4>1. status_token_fifo'["rx"] = <<TRUE>> /\ error'["rx"] /\ ~run("rx")'
        BY <1>3, <3>3, <3>4, <3>5 DEF RxRunning, run
      <4>. QED
        BY <1>3, <2>3, <3>1, <3>4, <4>1 DEF RxRunning, RxStopped
    <3>6. CASE ~bad
      <4>1. status_token_fifo'["rx"] = <<FALSE>> /\ ~error'["rx"]
        <5>1. bad \in BOOLEAN
          BY DEF bad
        <5>. QED
          BY <3>3, <3>6, <5>1
      <4>2. run("rx")'
        BY <1>3, <3>4, <4>1 DEF RxRunning, run
      <4>. QED
        BY <1>3, <2>3, <3>1, <3>4, <4>1, <4>2 DEF RxRunning, RxReady
    <3>. QED
      BY <3>5, <3>6
  <2>4. CASE ~owned_by_hw["rx"] /\ status_token_fifo["rx"] = <<FALSE>>
    <3>1. desc_address_fifo["rx"] = <<"rx_descriptor">>
      BY <1>3, <2>4 DEF RxRunning
    <3>2. WriteBack("rx")
      BY <2>4 DEF Engine, Fetch, canFetch, Receive, canMove
    <3>3. desc_address_fifo'["rx"] = <<>> /\ status_token_fifo'["rx"] = <<>>
      BY <1>0, <2>4, <3>1, <3>2 DEF WriteBack
    <3>4. checkDescriptorStatus("rx_descriptor")'
      <4>1. /\ Head(desc_address_fifo["rx"]) = "rx_descriptor"
            /\ Head(status_token_fifo["rx"]) = FALSE
        BY <2>4, <3>1, OneElement
      <4>2. descriptor' = [descriptor EXCEPT !["rx_descriptor"].owned = FALSE,
                                             !["rx_descriptor"].status = FALSE]
        BY <3>2, <4>1 DEF WriteBack
      <4>3. descriptor["rx_descriptor"] \in Descriptor
        BY <1>0
      <4>. QED
        BY <1>0, <4>2, <4>3 DEF checkDescriptorStatus, Descriptor
    <3>5. csr_irq'["rx"] /\ error' = error /\ owned_by_hw' = owned_by_hw
      BY <1>0, <1>3, <3>2 DEF WriteBack, RxRunning
    <3>6. chain_completed_int'["rx"]
      BY <1>0, <1>3, <2>4, <3>2, <3>3, <3>5 DEF WriteBack, CompleteChain, RxRunning, busy
    <3>. QED
      BY <1>3, <2>4, <3>3, <3>4, <3>5, <3>6 DEF RxDone, RxRunning, Rest, run
  <2>. QED
    BY <1>3, <2>1, <2>2, <2>3, <2>4 DEF RxRunning
<1>. QED
  BY <1>1, <1>2, <1>3

\* The steps of the other controller and of the world are not the receiver's.
LEMMA TxLeavesRx ==
  ASSUME EthInv, Engine("tx")
  PROVE  UNCHANGED RxView
<1>0. CsrTypeOK /\ ChainTypeOK
  BY DEF EthInv, TypeOK
<1>1. CASE Fetch("tx")
  BY <1>0, <1>1 DEF Fetch, CompleteChain, RxView, CsrTypeOK, ChainTypeOK
<1>2. CASE WriteBack("tx")
  <2>1. Head(desc_address_fifo["tx"]) \in TxChain
    <3>1. \A x, y : Head(<<x, y>>) = x /\ Head(<<x>>) = x
      OBVIOUS
    <3>2. status_token_fifo["tx"] # <<>>
      BY <1>2 DEF WriteBack
    <3>3. TxRunning
      BY <3>2 DEF EthInv, TxInv, TxOver, Rest
    <3>. QED
      BY <3>1, <3>2, <3>3 DEF TxRunning, TxUnsent, TxHeaderSent, TxDataSent, TxStage
  <2>2. UNCHANGED <<descriptor["rx_descriptor"], descriptor["rx_descriptor_end"]>>
    BY <1>0, <1>2, <2>1 DEF WriteBack, ChainTypeOK
  <2>. QED
    BY <1>0, <1>2, <2>2 DEF WriteBack, CompleteChain, RxView, CsrTypeOK, ChainTypeOK
<1>3. CASE Transmit
  BY <1>0, <1>3 DEF Transmit, csrVars, RxView, ChainTypeOK
<1>. QED
  BY <1>1, <1>2, <1>3 DEF Engine

\* A write to a register of the transmitter is none to the receiver's.
LEMMA WritesTx ==
  ASSUME TypeOK, \/ ClearStatus("tx") \/ \E d : WritePointer("tx", d)
                 \/ \E bits, b : WriteControl("tx", bits, b)
  PROVE  UNCHANGED RxView
BY DEF TypeOK, CsrTypeOK, ChainTypeOK, ClearStatus, WritePointer, WriteControl, RunEdge,
   RxView, chainVars

\* The invariant about the receiver holds after a step that leaves it alone and
\* keeps the processor's relation to it.
LEMMA RxInvKept ==
  ASSUME RxInv, UNCHANGED RxView, UNCHANGED <<rxOpening, rxHandled>>,
         pc' = "sgdma_irq" => csr_irq["rx"],
         channel' = "rx" /\ pc' \in AsyncPcs => RxReady,
         pc' = "rx_check" => checkDescriptorStatus("rx_descriptor")
  PROVE  RxInv'
<1>. DEFINE cond == rxOpening \/ rxHandled
<1>1. cond' = cond
  BY Zenon
<1>2. /\ cond => Rest("rx") /\ ~csr_irq["rx"] /\ ~error["rx"]
      /\ ~cond => RxRunning \/ RxStopped \/ RxDone
  BY DEF RxInv
<1>. HIDE DEF cond
<1>3. /\ cond' => (Rest("rx") /\ ~csr_irq["rx"] /\ ~error["rx"])'
      /\ ~cond' => (RxRunning \/ RxStopped \/ RxDone)'
  BY <1>1, <1>2, RxViewKept
<1>4. /\ (pc = "sgdma_irq" => csr_irq["rx"])'
      /\ (channel = "rx" /\ pc \in AsyncPcs => RxReady)'
      /\ (pc = "rx_check" => checkDescriptorStatus("rx_descriptor"))'
  BY RxViewKept DEF AsyncPcs
<1>. QED
  BY <1>3, <1>4 DEF RxInv, cond

LEMMA RxStep ==
  ASSUME EthInv, Next
  PROVE  RxInv'
<1>. USE DEF EthInv
<1>0. /\ TypeOK /\ CpuTypeOK /\ CsrTypeOK /\ ChainTypeOK
      /\ ContextInv /\ TxSilent /\ RxInv /\ ContextInv'
  BY ContextStep DEF TypeOK
<1>1. /\ inHandler => mainPc \in PioPcs /\ pc \in HandlerPcs
      /\ ~inHandler => mainPc = pc /\ pc \in OpeningPcs \cup PioPcs /\ channel = "rx"
      /\ pc \in RxHandlerPcs => channel = "rx"
      /\ pc \in TxHandlerPcs => channel = "tx"
      /\ channel \in Controllers
  BY <1>0 DEF ContextInv, CpuTypeOK, inHandler, mainPc, PioPcs
<1>. DEFINE PcKept == /\ UNCHANGED <<rxOpening, rxHandled>>
                      /\ pc' = "sgdma_irq" => csr_irq["rx"]
                      /\ channel' = "rx" /\ pc' \in AsyncPcs => RxReady
                      /\ pc' = "rx_check" => checkDescriptorStatus("rx_descriptor")
<1>2. PcKept /\ UNCHANGED RxView => RxInv'
  BY <1>0, RxInvKept
<1>. USE DEF rxOpening, rxHandled, inHandler, mainPc, OpeningPcs, PioPcs, AsyncPcs, HandlerPcs,
   RxHandlerPcs, TxHandlerPcs, Goto
<1>3. CASE QuietStep
  <2>1. UNCHANGED RxView
    BY <1>3, QuietUnchanged DEF sgdmaVars, csrVars, chainVars, RxView
  <2>2. CASE DoAsync
    <3>1. pc' = "clear_run" /\ (channel = "rx" => RxReady)
      BY <2>2, AsyncAtRest DEF DoAsync
    <3>2. PcKept
      BY <2>2, <3>1 DEF DoAsync
    <3>. QED
      BY <1>2, <2>1, <3>2
  <2>3. CASE CreateHeaders \/ TseInit \/ PioIrqMask \/ PioEdgeCap \/ PioRegister
    <3>1. PcKept
      BY <1>1, <2>3 DEF CreateHeaders, TseInit, PioIrqMask, PioEdgeCap, PioRegister
    <3>. QED
      BY <1>2, <2>1, <3>1
  <2>4. CASE Interrupt \/ NextHandler
    <3>1. mainPc' = mainPc /\ mainPc \in PioPcs
      BY <1>0, <1>1, <2>4
      DEF Interrupt, NextHandler, Dispatch, pending, pioPending, RxInv, ContextInv, TxSilent
    <3>2. ~rxOpening /\ ~rxHandled /\ ~rxOpening' /\ ~rxHandled'
      BY <1>1, <2>4, <3>1 DEF Interrupt, NextHandler, Dispatch
    <3>3. pc' \in {"sgdma_irq", "button_isr"} /\ (pc' = "sgdma_irq" => csr_irq["rx"])
      BY <1>0, <2>4 DEF Interrupt, NextHandler, Dispatch, TxSilent
    <3>4. PcKept
      BY <3>2, <3>3
    <3>. QED
      BY <1>2, <2>1, <3>4
  <2>5. CASE Leave
    <3>1. inHandler /\ pc' \in PioPcs /\ mainPc \in PioPcs /\ mainPc' = pc' /\ ~inHandler'
      BY <1>0, <1>1, <2>5 DEF Leave, ContextInv
    <3>2. ~rxOpening /\ ~rxHandled /\ ~rxOpening' /\ ~rxHandled'
      BY <2>5, <3>1 DEF Leave
    <3>3. PcKept
      BY <3>1, <3>2
    <3>. QED
      BY <1>2, <2>1, <3>3
  <2>6. CASE RxCheck \/ TxPoll
    <3>1. PcKept
      BY <1>1, <2>6 DEF RxCheck, TxPoll
    <3>. QED
      BY <1>2, <2>1, <3>1
  <2>. QED
    BY <1>3, <2>2, <2>3, <2>4, <2>5, <2>6 DEF QuietStep
<1>. USE DEF RxInv
<1>4. CASE ClearRun \/ ClearStatusReg \/ WriteNextPointer
  <2>1. /\ rxOpening' = rxOpening /\ rxHandled' = rxHandled
        /\ pc \in AsyncPcs /\ pc' \in AsyncPcs /\ channel' = channel
    <3>1. /\ pc \in AsyncPcs /\ pc' \in AsyncPcs
          /\ UNCHANGED <<channel, interrupted>>
      BY <1>4 DEF ClearRun, ClearStatusReg, WriteNextPointer
    <3>2. CASE inHandler
      <4>1. inHandler' /\ mainPc' = mainPc
        BY <3>1, <3>2
      <4>2. rxOpening' = rxOpening
        BY <4>1
      <4>3. rxHandled' = rxHandled
        BY <3>1, <3>2, <4>1
      <4>. QED
        BY <3>1, <4>2, <4>3
    <3>3. CASE ~inHandler
      <4>1. ~inHandler' /\ mainPc' \in OpeningPcs /\ mainPc \in OpeningPcs
        BY <3>1, <3>3
      <4>. QED
        BY <3>1, <3>3, <4>1
    <3>. QED
      BY <3>2, <3>3
  <2>2. CASE channel = "tx"
    <3>1. UNCHANGED RxView
      BY <1>0, <1>4, <2>2, WritesTx DEF ClearRun, ClearStatusReg, WriteNextPointer
    <3>2. PcKept
      BY <1>4, <2>1, <2>2 DEF ClearRun, ClearStatusReg, WriteNextPointer
    <3>. QED
      BY <1>2, <3>1, <3>2
  <2>3. CASE channel = "rx"
    <3>1. /\ Rest("rx") /\ ~error["rx"] /\ ~csr_irq["rx"] /\ RxReady
          /\ rxOpening \/ rxHandled
      BY <2>1, <2>3, AsyncAtRest
    <3>2. RxReady' /\ ~error'["rx"] /\ ~csr_irq'["rx"]
      BY <1>0, <1>4, <2>3, <3>1 DEF ClearRun, ClearStatusReg, WriteNextPointer, WriteControl,
         ClearStatus, WritePointer, RxReady, CsrTypeOK
    <3>3. Rest("rx")'
      <4>1. CASE ClearRun
        <5>1. "RUN" \notin control_reg'["rx"]
          BY <1>0, <2>3, <4>1 DEF ClearRun, WriteControl, CsrTypeOK
        <5>2. ~run("rx")'
          BY <5>1 DEF run
        <5>. QED
          BY <1>0, <2>3, <3>1, <4>1, <5>2 DEF ClearRun, WriteControl, RunEdge, Rest, ChainTypeOK
      <4>2. CASE ClearStatusReg
        <5>1. "RUN" \notin control_reg'["rx"]
          BY <2>3, <4>2 DEF ClearStatusReg, ClearStatus, AsyncInv
        <5>2. ~run("rx")'
          BY <5>1 DEF run
        <5>. QED
          BY <1>0, <2>3, <3>1, <4>2, <5>2
          DEF ClearStatusReg, ClearStatus, RunEdge, Rest, ChainTypeOK
      <4>3. CASE WriteNextPointer
        BY <3>1, <4>3 DEF WriteNextPointer, WritePointer, Rest, chainVars, run
      <4>. QED
        BY <1>4, <4>1, <4>2, <4>3
    <3>4. (rxOpening \/ rxHandled)' /\ pc' \notin {"sgdma_irq", "rx_check"}
      BY <2>1, <3>1
    <3>. QED
      BY <3>2, <3>3, <3>4
  <2>. QED
    BY <1>1, <2>2, <2>3
<1>5. CASE Start
  <2>1. pc = "start" /\ UNCHANGED <<channel, interrupted>>
    BY <1>5 DEF Start
  <2>2. CASE channel = "tx"
    <3>1. UNCHANGED RxView
      BY <1>0, <1>5, <2>2, WritesTx DEF Start
    <3>2. inHandler /\ pc' = "tx_poll"
      BY <1>1, <1>5, <2>2 DEF Start, Return
    <3>3. PcKept
      BY <1>1, <2>1, <2>2, <3>2
    <3>. QED
      BY <1>2, <3>1, <3>3
  <2>3. CASE channel = "rx"
    <3>1. /\ Rest("rx") /\ ~error["rx"] /\ ~csr_irq["rx"] /\ RxReady
          /\ "RUN" \notin control_reg["rx"] /\ ~chain_completed_int["rx"]
          /\ descriptor_pointer["rx"] = "rx_descriptor"
          /\ callback["rx"]
      BY <1>0, <1>1, <2>1, <2>3, AsyncAtRest DEF AsyncInv, ContextInv
    <3>2. pc' \in {"pio_irq_mask", "rx_memset"} /\ ~rxOpening' /\ ~rxHandled'
      BY <1>1, <1>5, <2>3 DEF Start, Return
    <3>3. control_reg'["rx"] = control_reg["rx"] \cup ChainControl \cup {"RUN", "STOP_DMA_ER"}
      BY <1>0, <1>5, <2>3, <3>1 DEF Start, WriteControl, asyncControl, CsrTypeOK
    <3>4. ~chain_completed_int'["rx"] /\ ~error'["rx"] /\ ~csr_irq'["rx"] /\ RxReady'
      BY <1>0, <1>5, <2>3, <3>1 DEF Start, WriteControl, CsrTypeOK, RxReady
    <3>5. run("rx")' /\ ~run("rx")
      BY <3>1, <3>3, <3>4 DEF run
    <3>6. /\ owned_by_hw'["rx"] /\ next_desc'["rx"] = "rx_descriptor"
          /\ desc_address_fifo'["rx"] = <<>> /\ status_token_fifo'["rx"] = <<>>
      BY <1>0, <1>5, <2>3, <3>1, <3>5 DEF Start, WriteControl, RunEdge, Rest, ChainTypeOK
    <3>7. RxRunning'
      BY <3>3, <3>4, <3>5, <3>6 DEF RxRunning
    <3>. QED
      BY <3>2, <3>7
  <2>. QED
    BY <1>1, <2>2, <2>3
<1>6. CASE OpenSgdma \/ RxConstruct
  <2>1. /\ rxOpening \/ rxHandled
        /\ (rxOpening \/ rxHandled)'
        /\ pc' = "do_async"
    BY <1>1, <1>6 DEF OpenSgdma, RxConstruct
  <2>2. RxReady'
    <3>1. Construct("rx_descriptor", "rx_descriptor_end", 0, FALSE, FALSE)
      BY <1>6 DEF OpenSgdma, RxConstruct
    <3>2. /\ descriptor'["rx_descriptor"] =
               [owned |-> TRUE, status |-> FALSE, next |-> "rx_descriptor_end",
                bytes_to_transfer |-> 0, generate_sop |-> FALSE, generate_eop |-> FALSE]
          /\ descriptor'["rx_descriptor_end"] =
               [descriptor["rx_descriptor_end"] EXCEPT !.owned = FALSE]
      BY <1>0, <3>1 DEF Construct, ChainTypeOK
    <3>3. descriptor["rx_descriptor_end"] \in Descriptor
      BY <1>0 DEF ChainTypeOK
    <3>. QED
      BY <3>2, <3>3 DEF RxReady, Descriptor
  <2>3. Rest("rx")' /\ ~csr_irq'["rx"] /\ ~error'["rx"]
    <3>1. Rest("rx") /\ ~csr_irq["rx"] /\ ~error["rx"]
      BY <2>1
    <3>2. UNCHANGED <<csrVars, chainVars>>
      BY <1>6 DEF OpenSgdma, RxConstruct
    <3>. QED
      BY <3>1, <3>2 DEF csrVars, chainVars, Rest, run
  <2>. QED
    BY <2>1, <2>2, <2>3
<1>7. CASE SgdmaIrq
  <2>1. /\ channel = "rx" /\ csr_irq["rx"] /\ inHandler /\ mainPc \in PioPcs
        /\ ~rxOpening /\ ~rxHandled
    BY <1>1, <1>7 DEF SgdmaIrq
  <2>2. RxDone /\ callback["rx"]
    BY <1>0, <2>1 DEF RxRunning, RxStopped, ContextInv
  <2>3. pc' = "rx_check" /\ rxHandled'
    BY <1>7, <2>1, <2>2 DEF SgdmaIrq
  <2>4. control_reg'["rx"] = control_reg["rx"] /\ ~csr_irq'["rx"] /\ error' = error
    BY <1>0, <1>7, <2>1 DEF SgdmaIrq, WriteControl, CsrTypeOK
  <2>5. chain_completed_int'["rx"] = (chain_completed_int["rx"] /\ "RUN" \in control_reg["rx"])
    BY <1>0, <1>7, <2>1 DEF SgdmaIrq, WriteControl, CsrTypeOK
  <2>6. ~run("rx")' /\ ~run("rx")
    BY <2>2, <2>4, <2>5 DEF RxDone, Rest, run
  <2>7. Rest("rx")'
    BY <1>0, <1>7, <2>1, <2>2, <2>6
    DEF SgdmaIrq, WriteControl, RunEdge, RxDone, Rest, ChainTypeOK
  <2>8. checkDescriptorStatus("rx_descriptor")'
    BY <1>7, <2>2 DEF SgdmaIrq, WriteControl, RxDone, checkDescriptorStatus
  <2>. QED
    BY <2>2, <2>3, <2>4, <2>7, <2>8 DEF RxDone
<1>8. CASE RxMemset \/ ButtonIsr \/ FrameArrives \/ Edge
  <2>1. UNCHANGED RxView
    BY <1>8 DEF RxMemset, ButtonIsr, FrameArrives, Edge, sgdmaVars, csrVars, chainVars, RxView
  <2>2. PcKept
    BY <1>1, <1>8 DEF RxMemset, ButtonIsr, FrameArrives, Edge, cpuVars
  <2>. QED
    BY <1>2, <2>1, <2>2
<1>9. CASE TxHeader \/ TxData
  <2>1. UNCHANGED RxView
    BY <1>0, <1>9 DEF TxHeader, TxData, Construct, csrVars, chainVars, RxView, ChainTypeOK
  <2>2. PcKept
    BY <1>1, <1>9 DEF TxHeader, TxData
  <2>. QED
    BY <1>2, <2>1, <2>2
<1>10. CASE Dma("tx")
  <2>1. UNCHANGED RxView
    BY <1>10, TxLeavesRx DEF Dma
  <2>2. PcKept
    BY <1>10 DEF Dma, cpuVars
  <2>. QED
    BY <1>2, <2>1, <2>2
<1>11. CASE Dma("rx")
  <2>1. Engine("rx") /\ UNCHANGED <<pc, channel, interrupted>>
    BY <1>11 DEF Dma, cpuVars
  <2>2. ~Rest("rx")
    BY <2>1, RestIsQuiet
  <2>3. ~rxOpening /\ ~rxHandled
    BY <2>2
  <2>4. ~rxOpening' /\ ~rxHandled'
    BY <2>1, <2>3
  <2>5. /\ RxRunning' \/ RxStopped' \/ RxDone'
        /\ csr_irq["rx"] => csr_irq'["rx"]
    BY <2>1, <2>3, RxEngine
  <2>6. ~(channel = "rx" /\ pc \in AsyncPcs) /\ pc # "rx_check"
    <3>1. pc = "rx_check" => rxHandled
      BY <1>1
    <3>. QED
      BY <2>2, <2>3, <3>1, AsyncAtRest
  <2>. QED
    BY <2>1, <2>4, <2>5, <2>6
<1>. QED
  BY <1>3, <1>4, <1>5, <1>6, <1>7, <1>8, <1>9, <1>10, <1>11
  DEF Next, Cpu, DriverStep, MainStep, HandlerStep, QuietStep

-----------------------------------------------------------------------------
(* The transmitter.                                                        *)

\* All that the parts of the invariant about the transmitter speak of.
TxView == <<descriptor["tx_descriptor_header"], descriptor["tx_descriptor_data"],
            descriptor["tx_descriptor_end"],
            control_reg["tx"], error["tx"], chain_completed_int["tx"],
            owned_by_hw["tx"], next_desc["tx"],
            desc_address_fifo["tx"], status_token_fifo["tx"], source_stream, sent>>

LEMMA TxViewKept ==
  ASSUME UNCHANGED TxView
  PROVE  /\ TxHeaderReady' = TxHeaderReady /\ TxDataReady' = TxDataReady
         /\ TxRunning' = TxRunning /\ TxOver' = TxOver
         /\ sent' = sent /\ descriptor'["tx_descriptor_end"] = descriptor["tx_descriptor_end"]
<1>1. /\ run("tx")' = run("tx") /\ TxHeaderReady' = TxHeaderReady
      /\ TxDataReady' = TxDataReady
  BY DEF TxView, run, TxHeaderReady, TxDataReady
<1>2. TxOver' = TxOver
  BY <1>1 DEF TxView, Rest, TxOver
<1>3. TxUnsent' = TxUnsent
  BY <1>1 DEF TxView, TxUnsent, TxStage
<1>4. TxHeaderSent' = TxHeaderSent
  BY DEF TxView, TxHeaderSent, TxStage
<1>5. TxDataSent' = TxDataSent
  BY DEF TxView, TxDataSent, TxStage
<1>6. TxRunning' = TxRunning
  BY <1>1, <1>3, <1>4, <1>5 DEF TxRunning, TxView
<1>. QED
  BY <1>1, <1>2, <1>6 DEF TxView

LEMMA TwoElements ==
  ASSUME NEW x, NEW y
  PROVE  /\ <<x, y>> # <<>> /\ Head(<<x, y>>) = x /\ Tail(<<x, y>>) = <<y>>
         /\ Len(<<x, y>>) = 2 /\ Len(<<x>>) = 1 /\ Append(<<x>>, y) = <<x, y>>
         /\ Append(<<>>, x) = <<x>>
<1>1. <<x, y>> # <<>> /\ Len(<<x, y>>) = 2 /\ Len(<<x>>) = 1
  OBVIOUS
<1>2. Head(<<x, y>>) = x
  OBVIOUS
<1>3. Tail(<<x, y>>) = <<y>>
  OBVIOUS
<1>4. Append(<<x>>, y) = <<x, y>>
  <2>. DEFINE S == {x, y}
  <2>1. <<x>> \in Seq(S) /\ <<x, y>> \in Seq(S)
    OBVIOUS
  <2>2. Append(<<x>>, y) \in Seq(S) /\ Len(Append(<<x>>, y)) = 2
    BY <2>1
  <2>3. Append(<<x>>, y)[1] = x /\ Append(<<x>>, y)[2] = y
    BY <2>1
  <2>4. \A i \in 1..2 : Append(<<x>>, y)[i] = <<x, y>>[i]
    BY <2>3
  <2>. HIDE DEF S
  <2>. QED
    BY <1>1, <2>1, <2>2, <2>4, SeqEqual
<1>5. Append(<<>>, x) = <<x>>
  OBVIOUS
<1>. QED
  BY <1>1, <1>2, <1>3, <1>4, <1>5

\* The transmitter goes through its stages one after the other.
LEMMA TxEngine ==
  ASSUME EthInv, TxRunning, Engine("tx")
  PROVE  /\ TxRunning' \/ (TxOver' /\ sent' = TestFrame)
         /\ sent' = sent \/ (sent = <<>> /\ sent' = TestFrame)
<1>0. CsrTypeOK /\ ChainTypeOK
  BY DEF EthInv, TypeOK
<1>. USE DEF CsrTypeOK, ChainTypeOK
<1>a. /\ run("tx") /\ TxDataReady /\ ~descriptor["tx_descriptor_end"].owned
      /\ ~chain_completed_int["tx"]
  BY <1>0 DEF TxRunning, run
<1>1. ASSUME TxUnsent, sent = <<>>,
             TxStage(TRUE, "tx_descriptor_header", <<>>, <<>>)
      PROVE  TxRunning' /\ sent' = sent
  <2>1. Fetch("tx")
    BY <1>1 DEF TxStage, Engine, WriteBack, Transmit, canMove
  <2>2. TxStage(TRUE, "tx_descriptor_data", <<"tx_descriptor_header">>, <<>>)'
    BY <1>0, <1>1, <2>1, TwoElements DEF Fetch, TxStage, TxUnsent, TxHeaderReady
  <2>3. chain_completed_int' = chain_completed_int
    BY <1>0, <2>1, <2>2 DEF Fetch, CompleteChain, TxStage, busy
  <2>. QED
    BY <1>1, <1>a, <2>1, <2>2, <2>3
    DEF Fetch, TxRunning, TxUnsent, TxHeaderReady, TxDataReady, run, streamVars
<1>2. ASSUME TxUnsent, sent = <<>>,
             TxStage(TRUE, "tx_descriptor_data", <<"tx_descriptor_header">>, <<>>)
      PROVE  TxRunning' /\ sent' = sent
  <2>1. Fetch("tx")
    <3>1. canFetch("tx")
      BY <1>2, <1>a, TwoElements DEF TxStage, canFetch, FifoWords
    <3>. QED
      BY <1>2, <3>1 DEF TxStage, Engine, WriteBack, Transmit, canMove
  <2>2. TxStage(TRUE, "tx_descriptor_end",
                <<"tx_descriptor_header", "tx_descriptor_data">>, <<>>)'
    <3>1. /\ descriptor["tx_descriptor_data"].owned = TRUE
          /\ descriptor["tx_descriptor_data"].next = "tx_descriptor_end"
      BY <1>a DEF TxDataReady
    <3>2. /\ owned_by_hw'["tx"] = TRUE /\ next_desc'["tx"] = "tx_descriptor_end"
          /\ status_token_fifo'["tx"] = <<>>
      BY <1>0, <1>2, <2>1, <3>1 DEF Fetch, TxStage
    <3>3. desc_address_fifo'["tx"] =
            Append(<<"tx_descriptor_header">>, "tx_descriptor_data")
      BY <1>0, <1>2, <2>1, <3>1 DEF Fetch, TxStage
    <3>. QED
      BY <3>2, <3>3, TwoElements DEF TxStage
  <2>3. chain_completed_int' = chain_completed_int
    BY <1>0, <2>1, <2>2 DEF Fetch, CompleteChain, TxStage, busy
  <2>. QED
    BY <1>2, <1>a, <2>1, <2>2, <2>3
    DEF Fetch, TxRunning, TxUnsent, TxHeaderReady, TxDataReady, run, streamVars
<1>3. ASSUME TxUnsent, sent = <<>>,
             TxStage(TRUE, "tx_descriptor_end",
                     <<"tx_descriptor_header", "tx_descriptor_data">>, <<>>)
      PROVE  TxRunning' /\ sent' = sent
  <2>1. Transmit
    <3>1. ~canFetch("tx")
      BY <1>3, TwoElements DEF TxStage, canFetch, FifoWords
    <3>. QED
      BY <1>3, <3>1 DEF TxStage, Engine, WriteBack, Fetch
  <2>2. moving("tx") = "tx_descriptor_header"
    BY <1>3, TwoElements DEF TxStage, moving
  <2>3. source_stream' = <<HeaderPiece>> /\ sent' = sent
    BY <1>3, <2>1, <2>2, TwoElements
    DEF Transmit, TxUnsent, TxHeaderReady, HeaderPiece, TestFrame
  <2>4. TxStage(TRUE, "tx_descriptor_end",
                <<"tx_descriptor_header", "tx_descriptor_data">>, <<FALSE>>)'
    BY <1>0, <1>3, <2>1, TwoElements DEF Transmit, TxStage
  <2>. QED
    BY <1>3, <1>a, <2>1, <2>3, <2>4
    DEF Transmit, TxRunning, TxHeaderSent, TxDataReady, run, csrVars
<1>4. ASSUME TxHeaderSent, sent = <<>>,
             TxStage(TRUE, "tx_descriptor_end",
                     <<"tx_descriptor_header", "tx_descriptor_data">>, <<FALSE>>)
      PROVE  TxRunning' /\ sent' = sent
  <2>1. WriteBack("tx")
    <3>1. ~canFetch("tx")
      BY <1>4, TwoElements DEF TxStage, canFetch, FifoWords
    <3>2. status_token_fifo["tx"] # <<>>
      BY <1>4, OneElement DEF TxStage
    <3>. QED
      BY <3>1, <3>2 DEF Engine, Fetch, Transmit, canMove
  <2>2. Head(desc_address_fifo["tx"]) = "tx_descriptor_header"
    BY <1>4, TwoElements DEF TxStage
  <2>3. TxStage(TRUE, "tx_descriptor_end", <<"tx_descriptor_data">>, <<>>)'
    BY <1>0, <1>4, <2>1, TwoElements, OneElement DEF WriteBack, TxStage
  <2>4. TxDataReady' /\ descriptor'["tx_descriptor_end"] = descriptor["tx_descriptor_end"]
    BY <1>0, <1>a, <2>1, <2>2 DEF WriteBack, TxDataReady
  <2>5. chain_completed_int' = chain_completed_int
    BY <1>0, <2>1, <2>3 DEF WriteBack, CompleteChain, TxStage, busy
  <2>. QED
    BY <1>4, <1>a, <2>1, <2>3, <2>4, <2>5
    DEF WriteBack, TxRunning, TxHeaderSent, run, streamVars
<1>5. ASSUME TxHeaderSent, sent = <<>>,
             TxStage(TRUE, "tx_descriptor_end", <<"tx_descriptor_data">>, <<>>)
      PROVE  TxRunning' /\ sent' = sent
  <2>1. Fetch("tx")
    <3>1. canFetch("tx")
      BY <1>5, <1>a, TwoElements DEF TxStage, canFetch, FifoWords
    <3>. QED
      BY <1>5, <3>1 DEF TxStage, Engine, WriteBack, Transmit, canMove
  <2>2. /\ ~owned_by_hw'["tx"]
        /\ TxStage(FALSE, descriptor["tx_descriptor_end"].next,
                   <<"tx_descriptor_data">>, <<>>)'
    <3>1. descriptor["tx_descriptor_end"].owned = FALSE
      <4>1. descriptor["tx_descriptor_end"] \in Descriptor
        BY <1>0
      <4>. QED
        BY <1>a, <4>1 DEF Descriptor
    <3>. QED
      BY <1>0, <1>5, <3>1, <2>1 DEF Fetch, TxStage
  <2>3. chain_completed_int' = chain_completed_int
    <3>1. desc_address_fifo'["tx"] # <<>>
      BY <2>2, OneElement DEF TxStage
    <3>. QED
      BY <1>0, <2>1, <3>1 DEF Fetch, CompleteChain, busy
  <2>. QED
    BY <1>5, <1>a, <2>1, <2>2, <2>3
    DEF Fetch, TxRunning, TxHeaderSent, TxDataReady, run, streamVars
<1>6. ASSUME TxHeaderSent, sent = <<>>,
             TxStage(FALSE, descriptor["tx_descriptor_end"].next,
                     <<"tx_descriptor_data">>, <<>>)
      PROVE  TxRunning' /\ sent' = TestFrame
  <2>1. Transmit
    BY <1>6 DEF TxStage, Engine, WriteBack, Fetch, canFetch
  <2>2. moving("tx") = "tx_descriptor_data"
    BY <1>6, OneElement DEF TxStage, moving
  <2>3. source_stream' = <<>> /\ sent' = TestFrame
    <3>. DEFINE piece == [bytes |-> DataBytes, sop |-> FALSE, eop |-> TRUE]
    <3>1. /\ descriptor["tx_descriptor_data"].bytes_to_transfer = DataBytes
          /\ descriptor["tx_descriptor_data"].generate_sop = FALSE
          /\ descriptor["tx_descriptor_data"].generate_eop = TRUE
      BY <1>a DEF TxDataReady
    <3>2. source_stream' = <<>> /\ sent' = Append(source_stream, piece)
      BY <2>1, <2>2, <3>1 DEF Transmit
    <3>3. HeaderPiece = [bytes |-> HeaderBytes, sop |-> TRUE, eop |-> FALSE]
      BY DEF HeaderPiece, TestFrame
    <3>4. source_stream = <<HeaderPiece>>
      BY <1>6 DEF TxHeaderSent
    <3>. QED
      BY <3>2, <3>3, <3>4, TwoElements DEF TestFrame
  <2>4. TxStage(FALSE, descriptor["tx_descriptor_end"].next,
                <<"tx_descriptor_data">>, <<FALSE>>)'
    BY <1>0, <1>6, <2>1, TwoElements DEF Transmit, TxStage
  <2>. QED
    BY <1>a, <2>1, <2>3, <2>4 DEF Transmit, TxRunning, TxDataSent, TxDataReady, run, csrVars
<1>7. ASSUME sent = TestFrame, TxDataSent
      PROVE  TxOver' /\ sent' = sent
  <2>0. TxStage(FALSE, descriptor["tx_descriptor_end"].next,
                <<"tx_descriptor_data">>, <<FALSE>>)
    BY <1>7 DEF TxDataSent
  <2>1. WriteBack("tx")
    <3>1. status_token_fifo["tx"] # <<>> /\ ~owned_by_hw["tx"]
      BY <2>0, OneElement DEF TxStage
    <3>. QED
      BY <3>1 DEF Engine, Fetch, canFetch, Transmit, canMove
  <2>2. desc_address_fifo'["tx"] = <<>> /\ status_token_fifo'["tx"] = <<>>
    BY <1>0, <2>0, <2>1, OneElement DEF WriteBack, TxStage
  <2>3. ~owned_by_hw'["tx"]
    BY <2>0, <2>1 DEF WriteBack, TxStage
  <2>4. chain_completed_int'["tx"]
    BY <1>0, <1>a, <2>1, <2>2, <2>3 DEF WriteBack, CompleteChain, busy
  <2>. QED
    BY <1>7, <2>1, <2>2, <2>3, <2>4
    DEF WriteBack, TxOver, TxDataSent, Rest, run, streamVars
<1>. QED
  BY <1>1, <1>2, <1>3, <1>4, <1>5, <1>6, <1>7 DEF TxRunning, TxUnsent, TxHeaderSent

\* The steps of the other controller are not the transmitter's.
LEMMA RxLeavesTx ==
  ASSUME EthInv, Engine("rx")
  PROVE  UNCHANGED TxView
<1>0. CsrTypeOK /\ ChainTypeOK
  BY DEF EthInv, TypeOK
<1>1. CASE Fetch("rx")
  BY <1>0, <1>1 DEF Fetch, CompleteChain, TxView, CsrTypeOK, ChainTypeOK, streamVars
<1>2. CASE WriteBack("rx")
  <2>1. Head(desc_address_fifo["rx"]) \in RxChain
    <3>1. status_token_fifo["rx"] # <<>>
      BY <1>2 DEF WriteBack
    <3>2. RxRunning \/ RxStopped
      BY <3>1 DEF EthInv, RxInv, RxDone, Rest
    <3>3. desc_address_fifo["rx"] = <<"rx_descriptor">>
      BY <3>1, <3>2 DEF RxRunning, RxStopped
    <3>. QED
      BY <3>3, OneElement
  <2>2. UNCHANGED <<descriptor["tx_descriptor_header"], descriptor["tx_descriptor_data"],
                    descriptor["tx_descriptor_end"]>>
    BY <1>0, <1>2, <2>1 DEF WriteBack, ChainTypeOK
  <2>. QED
    BY <1>0, <1>2, <2>2
    DEF WriteBack, CompleteChain, TxView, CsrTypeOK, ChainTypeOK, streamVars
<1>3. CASE Receive
  BY <1>0, <1>3 DEF Receive, TxView, CsrTypeOK, ChainTypeOK
<1>. QED
  BY <1>1, <1>2, <1>3 DEF Engine

\* A write to a register of the receiver is none to the transmitter's.
LEMMA WritesRx ==
  ASSUME TypeOK, \/ ClearStatus("rx") \/ \E d : WritePointer("rx", d)
                 \/ \E bits, b : WriteControl("rx", bits, b)
  PROVE  UNCHANGED TxView
BY DEF TypeOK, CsrTypeOK, ChainTypeOK, ClearStatus, WritePointer, WriteControl, RunEdge,
   TxView, chainVars, streamVars

\* The driver is about to start the transmitter.
TxAsync == pc \in AsyncPcs /\ channel = "tx"

\* The invariant about the transmitter holds after a step that leaves it alone and
\* does not enter or leave the part of the program that uses it.
LEMMA TxInvKept ==
  ASSUME TxInv, UNCHANGED TxView,
         \/ pc' = pc /\ TxAsync' = TxAsync
         \/ pc # "tx_poll" /\ TxAsync /\ TxAsync'
         \/ pc # "tx_poll" /\ pc' \notin {"tx_header", "tx_data", "tx_poll"} /\ ~TxAsync'
  PROVE  TxInv'
<1>1. TxAsync => pc # "tx_poll" /\ pc \notin {"tx_header", "tx_data"}
  BY DEF TxAsync, AsyncPcs
<1>2. TxAsync' => pc' # "tx_poll" /\ pc' \notin {"tx_header", "tx_data"}
  BY DEF TxAsync, AsyncPcs
<1>3. /\ pc \in {"tx_header", "tx_data"} \/ TxAsync => sent = <<>>
      /\ sent \in {<<>>, TestFrame}
      /\ pc = "tx_data" \/ TxAsync => TxHeaderReady
      /\ TxAsync => TxDataReady /\ ~descriptor["tx_descriptor_end"].owned
      /\ pc = "tx_poll" => TxRunning \/ (TxOver /\ sent = TestFrame)
      /\ pc # "tx_poll" => TxOver
  BY DEF TxInv, TxAsync
<1>4. /\ pc' \in {"tx_header", "tx_data"} \/ TxAsync' => sent = <<>>
      /\ pc' = "tx_data" \/ TxAsync' => TxHeaderReady
      /\ TxAsync' => TxDataReady /\ ~descriptor["tx_descriptor_end"].owned
      /\ pc' = "tx_poll" => TxRunning \/ (TxOver /\ sent = TestFrame)
      /\ pc' # "tx_poll" => TxOver
  BY <1>1, <1>2, <1>3
<1>5. TestFrame' = TestFrame
  BY DEF TestFrame, HeaderBytes, DataBytes
<1>6. /\ TxHeaderReady' = TxHeaderReady /\ TxDataReady' = TxDataReady
      /\ TxRunning' = TxRunning /\ TxOver' = TxOver /\ sent' = sent
      /\ descriptor'["tx_descriptor_end"] = descriptor["tx_descriptor_end"]
  BY TxViewKept
<1>. QED
  BY <1>3, <1>4, <1>5, <1>6 DEF TxInv, TxAsync

LEMMA TxStep ==
  ASSUME EthInv, Next
  PROVE  TxInv'
<1>. USE DEF EthInv
<1>0. /\ TypeOK /\ CpuTypeOK /\ CsrTypeOK /\ ChainTypeOK
      /\ ContextInv /\ TxSilent /\ TxInv
  BY DEF TypeOK
<1>1. /\ ~inHandler => pc \in OpeningPcs \cup PioPcs /\ channel = "rx"
      /\ pc \in RxHandlerPcs => channel = "rx"
      /\ pc \in TxHandlerPcs => channel = "tx"
      /\ channel \in Controllers
  BY <1>0 DEF ContextInv, CpuTypeOK
<1>. USE DEF OpeningPcs, PioPcs, AsyncPcs, RxHandlerPcs, TxHandlerPcs, Goto
<1>. DEFINE PcKept ==
       \/ pc' = pc /\ TxAsync' = TxAsync
       \/ pc # "tx_poll" /\ TxAsync /\ TxAsync'
       \/ pc # "tx_poll" /\ pc' \notin {"tx_header", "tx_data", "tx_poll"} /\ ~TxAsync'
<1>2. PcKept /\ UNCHANGED TxView => TxInv'
  BY <1>0, TxInvKept
<1>3. CASE QuietStep
  <2>1. UNCHANGED TxView
    BY <1>3, QuietUnchanged DEF sgdmaVars, csrVars, chainVars, streamVars, TxView
  <2>2. CASE DoAsync
    <3>1. pc = "do_async" /\ pc' = "clear_run" /\ channel' = channel
      BY <2>2, AsyncAtRest DEF DoAsync
    <3>2. PcKept
      BY <1>1, <3>1 DEF TxAsync
    <3>. QED
      BY <1>2, <2>1, <3>2
  <2>3. CASE CreateHeaders \/ TseInit \/ PioIrqMask \/ PioEdgeCap \/ PioRegister
    <3>1. PcKept
      BY <2>3 DEF CreateHeaders, TseInit, PioIrqMask, PioEdgeCap, PioRegister, TxAsync
    <3>. QED
      BY <1>2, <2>1, <3>1
  <2>4. CASE Interrupt \/ NextHandler
    <3>1. pc # "tx_poll" /\ pc' \in {"sgdma_irq", "button_isr"}
      BY <1>1, <2>4 DEF Interrupt, NextHandler, Dispatch
    <3>2. PcKept
      BY <3>1 DEF TxAsync
    <3>. QED
      BY <1>2, <2>1, <3>2
  <2>5. CASE Leave
    <3>1. inHandler /\ pc = "leave"
      BY <1>1, <2>5 DEF Leave
    <3>2. PICK p \in PioPcs : interrupted = <<p, "rx">>
      BY <1>0, <3>1 DEF ContextInv
    <3>3. pc' \in PioPcs
      BY <2>5, <3>2 DEF Leave
    <3>4. PcKept
      BY <3>1, <3>3 DEF TxAsync
    <3>. QED
      BY <1>2, <2>1, <3>4
  <2>6. CASE RxCheck
    <3>1. PcKept
      BY <2>6 DEF RxCheck, TxAsync
    <3>. QED
      BY <1>2, <2>1, <3>1
  <2>7. CASE TxPoll
    <3>1. pc = "tx_poll" /\ pc' = "leave" /\ ~descriptor["tx_descriptor_data"].owned
      BY <2>7 DEF TxPoll, checkDescriptorStatus
    <3>2. TxOver /\ sent = TestFrame
      BY <1>0, <3>1 DEF TxInv, TxRunning, TxDataReady
    <3>3. TxOver' /\ sent' = sent
      BY <2>1, <3>2, TxViewKept
    <3>4. TestFrame' = TestFrame
      BY DEF TestFrame, HeaderBytes, DataBytes
    <3>. QED
      BY <3>1, <3>2, <3>3, <3>4 DEF TxInv
  <2>. QED
    BY <1>3, <2>2, <2>3, <2>4, <2>5, <2>6, <2>7 DEF QuietStep
<1>4. CASE channel = "rx" /\ (ClearRun \/ ClearStatusReg \/ WriteNextPointer \/ Start
                              \/ SgdmaIrq)
  <2>1. UNCHANGED TxView
    BY <1>0, <1>4, WritesRx DEF ClearRun, ClearStatusReg, WriteNextPointer, Start, SgdmaIrq
  <2>2. pc # "tx_poll" /\ channel' = "rx" /\ pc' \notin {"tx_header", "tx_data", "tx_poll"}
    BY <1>4 DEF ClearRun, ClearStatusReg, WriteNextPointer, Start, SgdmaIrq, Return
  <2>. QED
    BY <1>2, <2>1, <2>2 DEF TxAsync
<1>5. CASE channel = "tx" /\ (ClearRun \/ ClearStatusReg \/ WriteNextPointer)
  <2>1. /\ pc \in AsyncPcs /\ pc' \in AsyncPcs /\ channel' = "tx"
        /\ pc # "tx_data" /\ pc' \notin {"tx_data", "tx_poll"}
    BY <1>5 DEF ClearRun, ClearStatusReg, WriteNextPointer
  <2>2. /\ TxOver /\ sent = <<>> /\ TxHeaderReady /\ TxDataReady
        /\ ~descriptor["tx_descriptor_end"].owned
    BY <1>0, <1>5, <2>1, AsyncAtRest DEF TxInv
  <2>3. UNCHANGED <<descriptor, sent, source_stream>>
    BY <1>5 DEF ClearRun, ClearStatusReg, WriteNextPointer, WriteControl, ClearStatus,
       WritePointer, streamVars
  <2>4. "RUN" \notin control_reg'["tx"] \/ WriteNextPointer
    BY <1>0, <1>5 DEF ClearRun, ClearStatusReg, WriteControl, ClearStatus, CsrTypeOK, AsyncInv
  <2>5. Rest("tx")'
    <3>1. CASE WriteNextPointer
      BY <2>2, <3>1 DEF WriteNextPointer, WritePointer, TxOver, Rest, chainVars, run
    <3>2. CASE ~WriteNextPointer
      <4>1. ~run("tx")'
        BY <2>4, <3>2 DEF run
      <4>. QED
        BY <1>0, <1>5, <2>2, <3>2, <4>1
        DEF ClearRun, ClearStatusReg, WriteControl, ClearStatus, RunEdge, TxOver, Rest, ChainTypeOK
    <3>. QED
      BY <3>1, <3>2
  <2>. QED
    BY <2>1, <2>2, <2>3, <2>5 DEF TxInv, TxOver, TxHeaderReady, TxDataReady
<1>6. CASE channel = "tx" /\ Start
  <2>1. pc = "start" /\ pc' = "tx_poll" /\ channel' = "tx"
    BY <1>1, <1>6 DEF Start, Return
  <2>2. /\ Rest("tx") /\ source_stream = <<>> /\ sent = <<>> /\ TxHeaderReady /\ TxDataReady
        /\ ~descriptor["tx_descriptor_end"].owned
        /\ "RUN" \notin control_reg["tx"] /\ ~chain_completed_int["tx"]
        /\ descriptor_pointer["tx"] = "tx_descriptor_header" /\ ~error["tx"]
    BY <1>0, <1>6, <2>1, AsyncAtRest DEF TxInv, AsyncInv, TxOver
  <2>3. UNCHANGED <<descriptor, sent, source_stream, error>>
    BY <1>6 DEF Start, WriteControl, streamVars
  <2>4. "RUN" \in control_reg'["tx"] /\ ~chain_completed_int'["tx"]
    BY <1>0, <1>6, <2>2 DEF Start, WriteControl, asyncControl, CsrTypeOK
  <2>5. run("tx")' /\ ~run("tx")
    BY <2>2, <2>3, <2>4 DEF run
  <2>6. TxStage(TRUE, "tx_descriptor_header", <<>>, <<>>)'
    BY <1>0, <1>6, <2>2, <2>5 DEF Start, WriteControl, RunEdge, Rest, TxStage, ChainTypeOK
  <2>7. TxRunning'
    BY <2>2, <2>3, <2>5, <2>6 DEF TxRunning, TxUnsent, TxHeaderReady, TxDataReady
  <2>. QED
    BY <2>1, <2>2, <2>3, <2>7 DEF TxInv
<1>7. CASE channel = "tx" /\ SgdmaIrq
  BY <1>1, <1>7 DEF SgdmaIrq
<1>8. CASE OpenSgdma \/ RxConstruct
  <2>1. channel' = "rx" /\ pc # "tx_poll" /\ pc' = "do_async"
    BY <1>1, <1>8 DEF OpenSgdma, RxConstruct
  <2>2. UNCHANGED TxView
    BY <1>0, <1>8 DEF OpenSgdma, RxConstruct, Construct, csrVars, chainVars, streamVars,
       TxView, ChainTypeOK
  <2>. QED
    BY <1>2, <2>1, <2>2 DEF TxAsync
<1>9. CASE RxMemset
  <2>1. UNCHANGED TxView
    BY <1>9 DEF RxMemset, csrVars, chainVars, TxView
  <2>. QED
    BY <1>2, <1>9, <2>1 DEF RxMemset, TxAsync
<1>10. CASE ButtonIsr
  <2>1. pc = "button_isr" /\ pc' = "tx_header" /\ sent' = <<>>
    BY <1>10 DEF ButtonIsr
  <2>2. TxOver /\ TxOver'
    BY <1>0, <1>10, <2>1 DEF TxInv, TxOver, ButtonIsr, Rest, run, csrVars, chainVars
  <2>. QED
    BY <2>1, <2>2 DEF TxInv
<1>11. CASE TxHeader \/ TxData
  <2>1. /\ channel = "tx" /\ channel' = "tx" /\ sent = <<>> /\ TxOver
        /\ pc \in {"tx_header", "tx_data"} /\ (pc = "tx_data" => TxHeaderReady)
    BY <1>0, <1>1, <1>11 DEF TxHeader, TxData, TxInv
  <2>2. UNCHANGED <<csrVars, chainVars, streamVars>>
    BY <1>11 DEF TxHeader, TxData
  <2>3. sent' = <<>> /\ TxOver'
    BY <2>1, <2>2 DEF csrVars, chainVars, streamVars, TxOver, Rest, run
  <2>4. CASE TxHeader
    <3>1. pc' = "tx_data" /\ TxHeaderReady'
      BY <1>0, <2>4 DEF TxHeader, Construct, TxHeaderReady, ChainTypeOK
    <3>. QED
      BY <2>3, <3>1 DEF TxInv
  <2>5. CASE TxData
    <3>1. pc' = "do_async" /\ TxHeaderReady
      BY <2>1, <2>5 DEF TxData
    <3>2. /\ descriptor'["tx_descriptor_data"] =
               [owned |-> TRUE, status |-> FALSE, next |-> "tx_descriptor_end",
                bytes_to_transfer |-> DataBytes, generate_sop |-> FALSE,
                generate_eop |-> TRUE]
          /\ descriptor'["tx_descriptor_header"] = descriptor["tx_descriptor_header"]
          /\ descriptor'["tx_descriptor_end"] =
               [descriptor["tx_descriptor_end"] EXCEPT !.owned = FALSE]
      BY <1>0, <2>5 DEF TxData, Construct, ChainTypeOK
    <3>3. descriptor["tx_descriptor_end"] \in Descriptor
      BY <1>0 DEF ChainTypeOK
    <3>4. ~descriptor'["tx_descriptor_end"].owned
      BY <3>2, <3>3 DEF Descriptor
    <3>. QED
      BY <2>3, <3>1, <3>2, <3>4 DEF TxInv, TxHeaderReady, TxDataReady
  <2>. QED
    BY <1>11, <2>4, <2>5
<1>12. CASE FrameArrives \/ Edge \/ Dma("rx")
  <2>1. UNCHANGED TxView
    <3>1. CASE Dma("rx")
      BY <3>1, RxLeavesTx DEF Dma
    <3>2. CASE FrameArrives \/ Edge
      BY <3>2 DEF FrameArrives, Edge, sgdmaVars, csrVars, chainVars, streamVars, TxView
    <3>. QED
      BY <1>12, <3>1, <3>2
  <2>2. pc' = pc /\ channel' = channel
    BY <1>12 DEF FrameArrives, Edge, Dma, cpuVars
  <2>. QED
    BY <1>2, <2>1, <2>2 DEF TxAsync
<1>13. CASE Dma("tx")
  <2>1. Engine("tx") /\ pc' = pc /\ channel' = channel
    BY <1>13 DEF Dma, cpuVars
  <2>2. ~TxOver
    BY <2>1, RestIsQuiet DEF TxOver
  <2>3. pc = "tx_poll" /\ TxRunning
    BY <1>0, <2>2 DEF TxInv
  <2>4. /\ TxRunning' \/ (TxOver' /\ sent' = TestFrame)
        /\ sent' \in {<<>>, TestFrame}
    BY <1>0, <2>1, <2>3, TxEngine DEF TxInv
  <2>5. TestFrame' = TestFrame
    BY DEF TestFrame, HeaderBytes, DataBytes
  <2>. QED
    BY <2>1, <2>3, <2>4, <2>5 DEF TxInv
<1>. QED
  BY <1>1, <1>3, <1>4, <1>5, <1>6, <1>7, <1>8, <1>9, <1>10, <1>11, <1>12, <1>13
  DEF Next, Cpu, DriverStep, MainStep, HandlerStep, QuietStep

-----------------------------------------------------------------------------
(* The invariant.                                                          *)

LEMMA AsyncStep ==
  ASSUME EthInv, Next
  PROVE  AsyncInv'
<1>. USE DEF EthInv
<1>0. /\ TypeOK /\ CpuTypeOK /\ CsrTypeOK /\ ChainTypeOK /\ ContextInv /\ AsyncInv
      /\ channel \in Controllers /\ (~inHandler => pc \in OpeningPcs \cup PioPcs)
  BY DEF TypeOK, CpuTypeOK, ContextInv
<1>. USE DEF Goto, AsyncInv
<1>1. CASE DoAsync \/ Start
  BY <1>0, <1>1, ReturnPc DEF DoAsync, Start
<1>2. CASE ClearRun
  BY <1>0, <1>2 DEF ClearRun, WriteControl, CsrTypeOK
<1>3. CASE ClearStatusReg
  BY <1>0, <1>3 DEF ClearStatusReg, ClearStatus
<1>4. CASE WriteNextPointer
  BY <1>0, <1>4 DEF WriteNextPointer, WritePointer, CsrTypeOK
<1>5. CASE MainStep \/ Interrupt
  BY <1>5 DEF MainStep, CreateHeaders, TseInit, OpenSgdma, PioIrqMask, PioEdgeCap,
     PioRegister, Interrupt, Dispatch
<1>6. CASE Leave
  <2>1. PICK p \in PioPcs : interrupted = <<p, "rx">>
    BY <1>0, <1>6 DEF Leave, ContextInv, OpeningPcs, PioPcs, AsyncPcs
  <2>2. pc' \in PioPcs
    BY <1>6, <2>1 DEF Leave
  <2>. QED
    BY <2>2 DEF PioPcs
<1>7. CASE NextHandler \/ SgdmaIrq \/ RxCheck \/ RxConstruct \/ RxMemset \/ ButtonIsr
           \/ TxHeader \/ TxData \/ TxPoll
  BY <1>7 DEF NextHandler, Dispatch, SgdmaIrq, RxCheck, RxConstruct, RxMemset, ButtonIsr,
     TxHeader, TxData, TxPoll
<1>8. CASE FrameArrives \/ Edge
  BY <1>8 DEF FrameArrives, Edge, sgdmaVars, csrVars, cpuVars
<1>9. ASSUME NEW c \in Controllers, Dma(c)
      PROVE  AsyncInv'
  <2>1. /\ Engine(c) /\ UNCHANGED <<pc, channel>>
    BY <1>9 DEF Dma, cpuVars
  <2>2. CASE pc \in AsyncPcs
    <3>1. c # channel
      BY <2>1, <2>2, AsyncAtRest, RestIsQuiet
    <3>2. /\ control_reg' = control_reg /\ descriptor_pointer' = descriptor_pointer
          /\ chain_completed_int'[channel] = chain_completed_int[channel]
      BY <1>0, <2>1, <3>1 DEF Engine, Fetch, WriteBack, Receive, Transmit, CompleteChain,
         csrVars, CsrTypeOK
    <3>. QED
      BY <1>0, <2>1, <3>2
  <2>3. CASE pc \notin AsyncPcs
    BY <2>1, <2>3 DEF AsyncPcs
  <2>. QED
    BY <2>2, <2>3
<1>. QED
  BY <1>1, <1>2, <1>3, <1>4, <1>5, <1>6, <1>7, <1>8, <1>9
  DEF Next, Cpu, DriverStep, MainStep, HandlerStep

LEMMA InvStep == EthInv /\ [Next]_vars => EthInv'
<1>. SUFFICES ASSUME EthInv, [Next]_vars PROVE EthInv'
  OBVIOUS
<1>1. CASE Next
  BY <1>1, DeviceType, PcType, ContextStep, SilentStep, AsyncStep, RxStep, TxStep
  DEF EthInv, TypeOK
<1>2. CASE UNCHANGED vars
  <2>. USE DEF EthInv, vars, sgdmaVars, csrVars, chainVars, streamVars, cpuVars, pioVars
  <2>1. TypeOK'
    BY <1>2 DEF TypeOK, CsrTypeOK, ChainTypeOK, StreamTypeOK, CpuTypeOK
  <2>2. ContextInv' /\ TxSilent' /\ AsyncInv'
    BY <1>2 DEF ContextInv, TxSilent, AsyncInv, inHandler, mainPc
  <2>3. RxInv'
    <3>1. UNCHANGED RxView
      BY <1>2 DEF RxView
    <3>2. UNCHANGED <<rxOpening, rxHandled>>
      BY <1>2 DEF rxOpening, rxHandled, mainPc, inHandler
    <3>. QED
      BY <1>2, <3>1, <3>2, RxInvKept DEF RxInv
  <2>4. TxInv'
    <3>1. UNCHANGED TxView
      BY <1>2 DEF TxView
    <3>2. pc' = pc /\ TxAsync' = TxAsync
      BY <1>2 DEF TxAsync
    <3>. QED
      BY <3>1, <3>2, TxInvKept
  <2>. QED
    BY <2>1, <2>2, <2>3, <2>4
<1>. QED
  BY <1>1, <1>2

\* Types, and the stage of each controller's chain that goes with the access the
\* processor makes next (hello_world_small.c:136-246, altera_avalon_sgdma.c:84-143,
\* 725-760).
THEOREM EthInvariance == Spec => []EthInv
BY InitInv, InvStep, PTL DEF Spec

-----------------------------------------------------------------------------
(* What follows from it.                                                   *)

\* The driver never refuses a chain, and no descriptor changes under a
\* controller (altera_avalon_sgdma.c:90-94, hello_world_small.c:204-243).
THEOREM EngineAtRestHolds == Spec => []EngineAtRest
<1>1. EthInv => EngineAtRest
  <2>. SUFFICES ASSUME EthInv PROVE EngineAtRest
    OBVIOUS
  <2>. USE DEF EthInv
  <2>1. pc = "do_async" => ~busy(channel)
    BY AsyncAtRest DEF AsyncPcs
  <2>2. pc \in {"open_sgdma", "rx_construct"} => rxOpening \/ rxHandled
    BY DEF ContextInv, rxOpening, rxHandled, mainPc, OpeningPcs, PioPcs, HandlerPcs,
       RxHandlerPcs, TxHandlerPcs, AsyncPcs
  <2>3. rxOpening \/ rxHandled => ~busy("rx") /\ ~run("rx")
    BY DEF RxInv, Rest, busy
  <2>4. pc \in {"tx_header", "tx_data"} => ~busy("tx") /\ ~run("tx")
    BY DEF TxInv, TxOver, Rest, busy
  <2>. QED
    BY <2>1, <2>2, <2>3, <2>4 DEF EngineAtRest
<1>. QED
  BY <1>1, EthInvariance, PTL

\* The receiver never stops for good without an error (hello_world_small.c:235-246).
THEOREM ReceiverServedHolds == Spec => []ReceiverServed
<1>1. EthInv => ReceiverServed
  BY DEF EthInv, RxInv, RxRunning, RxStopped, RxDone, ReceiverServed
<1>. QED
  BY <1>1, EthInvariance, PTL

\* No descriptor is written back while the interrupt of an earlier one waits
\* (altera_avalon_sgdma.c:733-741).
THEOREM OwnInterruptHolds == Spec => OwnInterrupt
<1>1. EthInv /\ [Next]_vars =>
        [csr_irq["rx"] => desc_address_fifo'["rx"] = desc_address_fifo["rx"]]_vars
  <2>. SUFFICES ASSUME EthInv, Next, csr_irq["rx"]
                PROVE  desc_address_fifo'["rx"] = desc_address_fifo["rx"]
    OBVIOUS
  <2>1. ~Engine("rx")
    <3>1. RxDone
      BY DEF EthInv, RxInv, RxRunning, RxStopped
    <3>. QED
      BY <3>1, RestIsQuiet DEF RxDone
  <2>2. CASE Dma("tx")
    BY <2>2, TxLeavesRx DEF Dma, RxView
  <2>3. CASE QuietStep
    BY <2>3, QuietUnchanged DEF sgdmaVars, chainVars
  <2>4. CASE ClearRun \/ ClearStatusReg \/ WriteNextPointer \/ Start \/ SgdmaIrq
    BY <2>4 DEF ClearRun, ClearStatusReg, WriteNextPointer, Start, SgdmaIrq, WriteControl,
       ClearStatus, WritePointer, RunEdge, chainVars
  <2>5. CASE OpenSgdma \/ RxConstruct \/ RxMemset \/ ButtonIsr \/ TxHeader \/ TxData
             \/ FrameArrives \/ Edge
    BY <2>5 DEF OpenSgdma, RxConstruct, RxMemset, ButtonIsr, TxHeader, TxData,
       FrameArrives, Edge, sgdmaVars, chainVars
  <2>. QED
    BY <2>1, <2>2, <2>3, <2>4, <2>5
    DEF Next, Cpu, DriverStep, MainStep, HandlerStep, QuietStep, Dma
<1>. QED
  BY <1>1, EthInvariance, PTL DEF Spec, OwnInterrupt

-----------------------------------------------------------------------------
(* The firmware implements PacketService.                                  *)

\* The handler of the PIO's interrupt finds the edge that called it.
ButtonInv == pc = "button_isr" => edge_capture

LEMMA ButtonStep == EthInv /\ ButtonInv /\ [Next]_vars => ButtonInv'
<1>. SUFFICES ASSUME EthInv, ButtonInv, [Next]_vars PROVE ButtonInv'
  OBVIOUS
<1>0. ContextInv /\ channel \in Controllers
  BY DEF EthInv, TypeOK, CpuTypeOK
<1>. USE DEF ButtonInv, Goto
<1>1. CASE DriverStep
  BY <1>0, <1>1, ReturnPc DEF DriverStep, DoAsync, ClearRun, ClearStatusReg,
     WriteNextPointer, Start
<1>2. CASE MainStep
  BY <1>2 DEF MainStep, CreateHeaders, TseInit, OpenSgdma, PioIrqMask, PioEdgeCap, PioRegister
<1>3. CASE Interrupt \/ NextHandler
  BY <1>3 DEF Interrupt, NextHandler, Dispatch, pending, pioPending, pioVars
<1>4. CASE Leave
  <2>1. PICK p \in PioPcs : interrupted = <<p, "rx">>
    BY <1>0, <1>4 DEF Leave, ContextInv, OpeningPcs, PioPcs, AsyncPcs
  <2>. QED
    BY <1>4, <2>1 DEF Leave, PioPcs
<1>5. CASE SgdmaIrq \/ RxCheck \/ RxConstruct \/ RxMemset \/ ButtonIsr
           \/ TxHeader \/ TxData \/ TxPoll
  BY <1>5 DEF SgdmaIrq, RxCheck, RxConstruct, RxMemset, ButtonIsr, TxHeader, TxData, TxPoll
<1>6. CASE FrameArrives \/ Edge \/ (\E c \in Controllers : Dma(c)) \/ UNCHANGED vars
  BY <1>6 DEF FrameArrives, Edge, Dma, vars, cpuVars, pioVars
<1>. QED
  BY <1>1, <1>2, <1>3, <1>4, <1>5, <1>6 DEF Next, Cpu, HandlerStep

\* What the abstract specification sees of the firmware.
requestKept == edge_capture /\ armed
isSending == \/ pc \in TxHandlerPcs \ {"button_isr"}
             \/ inHandler /\ pc \in AsyncPcs /\ channel = "tx"
frameSent == sent = TestFrame

LEMMA PacketStep ==
  ASSUME EthInv, ButtonInv, [Next]_vars
  PROVE  \/ UNCHANGED <<requestKept, isSending, frameSent>>
         \/ requestKept' /\ UNCHANGED <<isSending, frameSent>>
         \/ requestKept /\ ~isSending /\ ~requestKept' /\ isSending' /\ ~frameSent'
         \/ isSending /\ ~frameSent /\ frameSent' /\ UNCHANGED <<requestKept, isSending>>
         \/ isSending /\ frameSent /\ ~isSending' /\ UNCHANGED <<requestKept, frameSent>>
<1>0. /\ ContextInv /\ TxInv /\ channel \in Controllers
      /\ inHandler => mainPc \in PioPcs /\ pc \in HandlerPcs
      /\ ~inHandler => mainPc = pc /\ pc \in OpeningPcs \cup PioPcs /\ channel = "rx"
      /\ pc \in TxHandlerPcs => channel = "tx" /\ inHandler
      /\ pc \in RxHandlerPcs => channel = "rx" /\ inHandler
  BY DEF EthInv, TypeOK, CpuTypeOK, ContextInv, inHandler, mainPc, PioPcs, OpeningPcs,
     TxHandlerPcs, RxHandlerPcs, AsyncPcs
<1>a. TestFrame' = TestFrame /\ TestFrame # <<>>
  BY TwoElements DEF TestFrame, HeaderBytes, DataBytes
<1>. USE DEF Goto, pioVars, PioPcs, OpeningPcs, AsyncPcs, HandlerPcs, RxHandlerPcs,
   TxHandlerPcs, inHandler, mainPc
<1>1. CASE UNCHANGED vars
  BY <1>1, <1>a DEF vars, cpuVars, sgdmaVars, streamVars, requestKept, isSending, frameSent, armed
<1>2. CASE DriverStep
  <2>1. /\ UNCHANGED <<interrupted, edge_capture, channel, sent>> /\ pc \in AsyncPcs
        /\ pc' \in AsyncPcs \/ pc' = Return
    BY <1>2 DEF DriverStep, DoAsync, ClearRun, ClearStatusReg, WriteNextPointer, Start,
       WriteControl, ClearStatus, WritePointer, sgdmaVars, streamVars
  <2>2. UNCHANGED requestKept
    <3>1. armed' = armed
      BY <1>0, <2>1 DEF armed, Return
    <3>. QED
      BY <2>1, <3>1 DEF requestKept
  <2>3. UNCHANGED isSending
    BY <1>0, <2>1 DEF isSending, Return
  <2>. QED
    BY <1>a, <2>1, <2>2, <2>3 DEF frameSent
<1>3. CASE MainStep
  <2>1. /\ UNCHANGED <<interrupted, sent>> /\ ~inHandler /\ ~inHandler'
        /\ pc \in OpeningPcs \cup PioPcs /\ pc' \in OpeningPcs \cup PioPcs
        /\ UNCHANGED channel \/ channel' = "rx"
    BY <1>0, <1>3 DEF MainStep, CreateHeaders, TseInit, OpenSgdma, PioIrqMask, PioEdgeCap,
       PioRegister, sgdmaVars, streamVars
  <2>2. UNCHANGED isSending
    BY <2>1 DEF isSending
  <2>3. UNCHANGED requestKept
    <3>1. CASE CreateHeaders \/ TseInit \/ OpenSgdma \/ PioIrqMask
      <4>1. ~armed /\ ~armed'
        BY <2>1, <3>1 DEF CreateHeaders, TseInit, OpenSgdma, PioIrqMask, armed
      <4>. QED
        BY <4>1 DEF requestKept
    <3>2. CASE PioEdgeCap
      <4>1. ~armed /\ ~edge_capture'
        BY <2>1, <3>2 DEF PioEdgeCap, armed
      <4>. QED
        BY <4>1 DEF requestKept
    <3>3. CASE PioRegister
      <4>1. armed /\ armed' /\ UNCHANGED edge_capture
        BY <2>1, <3>3 DEF PioRegister, armed
      <4>. QED
        BY <4>1 DEF requestKept, armed
    <3>. QED
      BY <1>3, <3>1, <3>2, <3>3 DEF MainStep
  <2>. QED
    BY <1>a, <2>1, <2>2, <2>3 DEF frameSent
<1>4. CASE Interrupt \/ NextHandler
  <2>1. /\ UNCHANGED <<edge_capture, sent>> /\ mainPc' = mainPc
        /\ pc' \in {"sgdma_irq", "button_isr"}
    BY <1>0, <1>4 DEF Interrupt, NextHandler, Dispatch, sgdmaVars, streamVars
  <2>2. UNCHANGED isSending
    BY <1>0, <1>4, <2>1 DEF Interrupt, NextHandler, isSending
  <2>3. UNCHANGED requestKept
    BY <2>1 DEF requestKept, armed
  <2>. QED
    BY <1>a, <2>1, <2>2, <2>3 DEF frameSent
<1>5. CASE Leave
  <2>1. PICK p \in PioPcs : interrupted = <<p, "rx">>
    BY <1>0, <1>5 DEF Leave, ContextInv
  <2>2. UNCHANGED <<edge_capture, sent>> /\ mainPc' = mainPc /\ pc' \in PioPcs /\ ~inHandler'
    BY <1>5, <2>1 DEF Leave, sgdmaVars, streamVars
  <2>3. UNCHANGED isSending
    BY <1>5, <2>2 DEF Leave, isSending
  <2>4. UNCHANGED requestKept
    BY <2>2 DEF requestKept, armed
  <2>. QED
    BY <1>a, <2>2, <2>3, <2>4 DEF frameSent
<1>6. CASE SgdmaIrq \/ RxCheck \/ RxConstruct \/ RxMemset \/ TxHeader \/ TxData
  <2>1. /\ UNCHANGED <<interrupted, edge_capture, channel, sent>> /\ inHandler
        /\ inHandler' /\ mainPc' = mainPc
    BY <1>0, <1>6 DEF SgdmaIrq, RxCheck, RxConstruct, RxMemset, TxHeader, TxData,
       WriteControl, sgdmaVars, streamVars
  <2>2. UNCHANGED isSending
    BY <1>0, <1>6, <2>1 DEF SgdmaIrq, RxCheck, RxConstruct, RxMemset, TxHeader, TxData,
       isSending
  <2>3. UNCHANGED requestKept
    BY <2>1 DEF requestKept, armed
  <2>. QED
    BY <1>a, <2>1, <2>2, <2>3 DEF frameSent
<1>7. CASE ButtonIsr
  <2>1. edge_capture /\ ~edge_capture' /\ inHandler /\ mainPc = "forever"
    BY <1>0, <1>7 DEF ButtonIsr, ButtonInv, ContextInv
  <2>2. requestKept /\ ~requestKept'
    BY <2>1 DEF requestKept, armed
  <2>3. ~isSending /\ isSending' /\ ~frameSent'
    BY <1>7, <1>a DEF ButtonIsr, isSending, frameSent
  <2>. QED
    BY <2>2, <2>3
<1>8. CASE TxPoll
  <2>1. pc = "tx_poll" /\ pc' = "leave" /\ ~descriptor["tx_descriptor_data"].owned
    BY <1>8 DEF TxPoll, checkDescriptorStatus
  <2>2. frameSent
    BY <1>0, <2>1 DEF TxInv, TxRunning, TxDataReady, frameSent
  <2>3. UNCHANGED <<interrupted, edge_capture, sent>> /\ inHandler
    BY <1>0, <1>8 DEF TxPoll, sgdmaVars, streamVars
  <2>4. UNCHANGED <<requestKept, frameSent>>
    BY <1>a, <2>3 DEF requestKept, armed, frameSent
  <2>5. isSending /\ ~isSending'
    BY <2>1 DEF isSending
  <2>. QED
    BY <2>2, <2>4, <2>5
<1>9. CASE Edge
  <2>1. edge_capture' /\ UNCHANGED <<pc, channel, interrupted, sent>>
    BY <1>9 DEF Edge, cpuVars, sgdmaVars, streamVars
  <2>2. UNCHANGED <<isSending, frameSent, armed>>
    BY <1>a, <2>1 DEF isSending, frameSent, armed
  <2>3. requestKept' \/ UNCHANGED requestKept
    BY <2>1, <2>2 DEF requestKept
  <2>. QED
    BY <2>2, <2>3
<1>10. CASE FrameArrives \/ Dma("rx")
  <2>1. sent' = sent
    <3>1. CASE Dma("rx")
      BY <3>1, RxLeavesTx DEF Dma, TxView
    <3>. QED
      BY <1>10, <3>1 DEF FrameArrives
  <2>. QED
    BY <1>10, <1>a, <2>1 DEF FrameArrives, Dma, cpuVars, requestKept, isSending, frameSent, armed
<1>11. CASE Dma("tx")
  <2>1. Engine("tx") /\ UNCHANGED <<pc, channel, interrupted, edge_capture>>
    BY <1>11 DEF Dma, cpuVars
  <2>2. UNCHANGED <<requestKept, isSending>>
    BY <2>1 DEF requestKept, isSending, armed
  <2>3. pc = "tx_poll" /\ TxRunning
    <3>1. ~TxOver
      BY <2>1, RestIsQuiet DEF TxOver
    <3>. QED
      BY <1>0, <3>1 DEF TxInv
  <2>4. isSending
    BY <2>3 DEF isSending
  <2>5. sent' = sent \/ (sent = <<>> /\ sent' = TestFrame)
    BY <2>1, <2>3, TxEngine
  <2>6. UNCHANGED frameSent \/ (~frameSent /\ frameSent')
    BY <1>a, <2>5 DEF frameSent
  <2>. QED
    BY <2>2, <2>4, <2>6
<1>. QED
  BY <1>1, <1>2, <1>3, <1>4, <1>5, <1>6, <1>7, <1>8, <1>9, <1>10, <1>11
  DEF Next, Cpu, HandlerStep

\* Every step of the firmware is a step of PacketService or none: a request is kept
\* until it is taken, and each that is taken is answered by one whole frame
\* (hello_world_small.c:199-213).
THEOREM SendsOnRequestHolds == Spec => SendsOnRequest
<1>1. Init => ButtonInv
  BY DEF Init, ButtonInv
<1>2. Spec => []ButtonInv
  BY <1>1, ButtonStep, EthInvariance, PTL DEF Spec
<1>3. Init => Packets!Init
  <2>1. \A x, y : <<x, y>> # <<>>
    OBVIOUS
  <2>. QED
    BY <2>1 DEF Init, SgdmaInit, Packets!Init, armed, mainPc, inHandler, TxHandlerPcs, TestFrame
<1>4. EthInv /\ ButtonInv /\ [Next]_vars =>
        [Packets!Next]_<<edge_capture /\ armed,
                         pc \in TxHandlerPcs \ {"button_isr"}
                           \/ (inHandler /\ pc \in AsyncPcs /\ channel = "tx"),
                         sent = TestFrame>>
  BY PacketStep DEF requestKept, isSending, frameSent, Packets!Next, Packets!Request,
     Packets!Take, Packets!Deliver, Packets!Finish
<1>. QED
  BY <1>2, <1>3, <1>4, EthInvariance, PTL DEF Spec, SendsOnRequest, Packets!Spec

\* The rest is about the registers and does not need these.
HIDE SinkAssumption DEF Controllers, RxChain, TxChain, Descriptors, None, FrameKinds,
  ControlBits, ChainControl

-----------------------------------------------------------------------------
(* Fields of registers.                                                    *)
(* The functions of the driver and of the firmware that change a field     *)
(* (TseMdio), one access to a word at a time, with the hardware in         *)
(* between.  First, which register a word is.                              *)

\* Two sequences one after the other.
LEMMA JoinedAre ==
  ASSUME NEW m \in Nat, NEW n \in Nat, NEW s, NEW t,
         s = [k \in 1..m |-> s[k]], t = [k \in 1..n |-> t[k]]
  PROVE  s \o t = [k \in 1..(m + n) |-> IF k <= m THEN s[k] ELSE t[k - m]]
<1> DEFINE S == {s[k] : k \in 1..m} \cup {t[k] : k \in 1..n}
<1>1. s \in [1..m -> S] /\ t \in [1..n -> S]
  OBVIOUS
<1> HIDE DEF S
<1>2. s \in Seq(S) /\ t \in Seq(S) /\ Len(s) = m /\ Len(t) = n
  BY <1>1
<1>3. s \o t \in Seq(S) /\ Len(s \o t) = m + n
  BY <1>2, ConcatProperties
<1>5. ASSUME NEW k \in 1..(m + n) PROVE (s \o t)[k] = IF k <= m THEN s[k] ELSE t[k - m]
  BY <1>2, ConcatProperties
<1>6. DOMAIN (s \o t) = 1..(m + n)
  BY <1>3
<1>4. s \o t = [k \in 1..(m + n) |-> (s \o t)[k]]
  BY <1>3, <1>6
<1> QED  BY <1>4, <1>5

\* A row of n entries.
IsRow(s, n) == s = [k \in 1..n |-> s[k]]
LEMMA RowsOfWords ==
  /\ IsRow(Fields!Config, 17) /\ IsRow(Fields!Status, 2) /\ IsRow(Fields!Counters, 33)
  /\ IsRow(Fields!CmdStat, 2) /\ IsRow(Fields!Msb, 3) /\ IsRow(Fields!Supplemental, 8)
<1>1. IsRow(Fields!Config, 17)
  BY DEF IsRow, Fields!Config, Fields!Plain
<1>2. IsRow(Fields!Status, 2)
  BY DEF IsRow, Fields!Status, Fields!Plain
<1>3. IsRow(Fields!Counters, 33)
  BY DEF IsRow, Fields!Counters, Fields!Plain
<1>4. IsRow(Fields!CmdStat, 2)
  BY DEF IsRow, Fields!CmdStat, Fields!Plain
<1>5. IsRow(Fields!Msb, 3)
  BY DEF IsRow, Fields!Msb, Fields!Plain
<1>6. IsRow(Fields!Supplemental, 8)
  BY DEF IsRow, Fields!Supplemental, Fields!Plain
<1> QED  BY <1>1, <1>2, <1>3, <1>4, <1>5, <1>6

\* The words of the structure, a run of neighbours at a time.
WordAt(w) ==
  IF w <= 17 THEN Fields!Config[w] ELSE IF w <= 22 THEN <<"reserved", 0>>
  ELSE IF w <= 24 THEN Fields!Status[w - 22] ELSE IF w <= 57 THEN Fields!Counters[w - 24]
  ELSE IF w <= 58 THEN <<"reserved", 0>> ELSE IF w <= 60 THEN Fields!CmdStat[w - 58]
  ELSE IF w <= 63 THEN Fields!Msb[w - 60] ELSE IF w <= 64 THEN <<"reserved", 0>>
  ELSE IF w <= 128 THEN <<"hashtable", w - 65>> ELSE IF w <= 160 THEN <<"mdio0", w - 129>>
  ELSE IF w <= 192 THEN <<"mdio1", w - 161>> ELSE IF w <= 200 THEN Fields!Supplemental[w - 192]
  ELSE <<"reserved", 0>>

\* The words up to m are s, and the n words behind them are t.
Words(s, m) == s = [w \in 1..m |-> WordAt(w)]
Follow(t, m, n) == IsRow(t, n) /\ \A k \in 1..n : t[k] = WordAt(m + k)

\* A run that follows the first m words makes the first m + n.
LEMMA WordsGrow ==
  ASSUME NEW m \in Nat, NEW n \in Nat, NEW s, NEW t, Words(s, m), Follow(t, m, n)
  PROVE  Words(s \o t, m + n)
<1> USE DEF Words, Follow
<1>1. s = [k \in 1..m |-> s[k]] /\ t = [k \in 1..n |-> t[k]]
  BY DEF IsRow
<1>2. s \o t = [k \in 1..(m + n) |-> IF k <= m THEN s[k] ELSE t[k - m]]
  BY <1>1, JoinedAre
<1>3. \A k \in 1..(m + n) : (IF k <= m THEN s[k] ELSE t[k - m]) = WordAt(k)
  <2> SUFFICES ASSUME NEW k \in 1..(m + n)
               PROVE  (IF k <= m THEN s[k] ELSE t[k - m]) = WordAt(k)
    OBVIOUS
  <2>1. CASE k <= m
    BY <2>1
  <2>2. CASE ~(k <= m)
    <3>1. k - m \in 1..n /\ m + (k - m) = k
      BY <2>2
    <3> QED  BY <2>2, <3>1
  <2> QED  BY <2>1, <2>2
<1> QED  BY <1>2, <1>3

\* The 256 words of np_tse_mac (altera_avalon_tse.h).
LEMMA WordsAre == Fields!np_tse_mac = [w \in 1..256 |-> WordAt(w)]
<1> DEFINE w1 == Fields!Config \o Fields!Reserved(5)
           w2 == w1 \o Fields!Status
           w3 == w2 \o Fields!Counters
           w4 == w3 \o Fields!Reserved(1)
           w5 == w4 \o Fields!CmdStat
           w6 == w5 \o Fields!Msb
           w7 == w6 \o Fields!Reserved(1)
           w8 == w7 \o Fields!Array("hashtable", 64)
           w9 == w8 \o Fields!np_tse_mdio("mdio0")
           w10 == w9 \o Fields!np_tse_mdio("mdio1")
           w11 == w10 \o Fields!Supplemental
           w12 == w11 \o Fields!Reserved(56)
<1>0. Fields!np_tse_mac = w12
  BY DEF Fields!np_tse_mac
<1>1. Words(Fields!Config, 17)
  BY RowsOfWords DEF IsRow, Words, WordAt
<1> HIDE DEF w1, w2, w3, w4, w5, w6, w7, w8, w9, w10, w11
<1>2. Words(w1, 22)
  <2>1. IsRow(Fields!Reserved(5), 5)
    BY RowsOfWords DEF IsRow, Fields!Reserved
  <2>2. \A k \in 1..5 : Fields!Reserved(5)[k] = WordAt(17 + k)
    BY DEF WordAt, Fields!Reserved
  <2>3. Follow(Fields!Reserved(5), 17, 5)
    BY <2>1, <2>2 DEF Follow
  <2>4. 17 \in Nat /\ 5 \in Nat /\ 17 + 5 = 22
    OBVIOUS
  <2> QED  BY <1>1, <2>3, <2>4, WordsGrow DEF w1
<1>3. Words(w2, 24)
  <2>1. IsRow(Fields!Status, 2)
    BY RowsOfWords DEF IsRow
  <2>2. \A k \in 1..2 : Fields!Status[k] = WordAt(22 + k)
    BY DEF WordAt
  <2>3. Follow(Fields!Status, 22, 2)
    BY <2>1, <2>2 DEF Follow
  <2>4. 22 \in Nat /\ 2 \in Nat /\ 22 + 2 = 24
    OBVIOUS
  <2> QED  BY <1>2, <2>3, <2>4, WordsGrow DEF w2
<1>4. Words(w3, 57)
  <2>1. IsRow(Fields!Counters, 33)
    BY RowsOfWords DEF IsRow
  <2>2. \A k \in 1..33 : Fields!Counters[k] = WordAt(24 + k)
    BY DEF WordAt
  <2>3. Follow(Fields!Counters, 24, 33)
    BY <2>1, <2>2 DEF Follow
  <2>4. 24 \in Nat /\ 33 \in Nat /\ 24 + 33 = 57
    OBVIOUS
  <2> QED  BY <1>3, <2>3, <2>4, WordsGrow DEF w3
<1>5. Words(w4, 58)
  <2>1. IsRow(Fields!Reserved(1), 1)
    BY RowsOfWords DEF IsRow, Fields!Reserved
  <2>2. \A k \in 1..1 : Fields!Reserved(1)[k] = WordAt(57 + k)
    BY DEF WordAt, Fields!Reserved
  <2>3. Follow(Fields!Reserved(1), 57, 1)
    BY <2>1, <2>2 DEF Follow
  <2>4. 57 \in Nat /\ 1 \in Nat /\ 57 + 1 = 58
    OBVIOUS
  <2> QED  BY <1>4, <2>3, <2>4, WordsGrow DEF w4
<1>6. Words(w5, 60)
  <2>1. IsRow(Fields!CmdStat, 2)
    BY RowsOfWords DEF IsRow
  <2>2. \A k \in 1..2 : Fields!CmdStat[k] = WordAt(58 + k)
    BY DEF WordAt
  <2>3. Follow(Fields!CmdStat, 58, 2)
    BY <2>1, <2>2 DEF Follow
  <2>4. 58 \in Nat /\ 2 \in Nat /\ 58 + 2 = 60
    OBVIOUS
  <2> QED  BY <1>5, <2>3, <2>4, WordsGrow DEF w5
<1>7. Words(w6, 63)
  <2>1. IsRow(Fields!Msb, 3)
    BY RowsOfWords DEF IsRow
  <2>2. \A k \in 1..3 : Fields!Msb[k] = WordAt(60 + k)
    BY DEF WordAt
  <2>3. Follow(Fields!Msb, 60, 3)
    BY <2>1, <2>2 DEF Follow
  <2>4. 60 \in Nat /\ 3 \in Nat /\ 60 + 3 = 63
    OBVIOUS
  <2> QED  BY <1>6, <2>3, <2>4, WordsGrow DEF w6
<1>8. Words(w7, 64)
  <2>1. IsRow(Fields!Reserved(1), 1)
    BY RowsOfWords DEF IsRow, Fields!Reserved
  <2>2. \A k \in 1..1 : Fields!Reserved(1)[k] = WordAt(63 + k)
    BY DEF WordAt, Fields!Reserved
  <2>3. Follow(Fields!Reserved(1), 63, 1)
    BY <2>1, <2>2 DEF Follow
  <2>4. 63 \in Nat /\ 1 \in Nat /\ 63 + 1 = 64
    OBVIOUS
  <2> QED  BY <1>7, <2>3, <2>4, WordsGrow DEF w7
<1>9. Words(w8, 128)
  <2>1. IsRow(Fields!Array("hashtable", 64), 64)
    BY RowsOfWords DEF IsRow, Fields!Array
  <2>2. \A k \in 1..64 : Fields!Array("hashtable", 64)[k] = WordAt(64 + k)
    BY SMTT(30) DEF WordAt, Fields!Array
  <2>3. Follow(Fields!Array("hashtable", 64), 64, 64)
    BY <2>1, <2>2 DEF Follow
  <2>4. 64 \in Nat /\ 64 \in Nat /\ 64 + 64 = 128
    OBVIOUS
  <2> QED  BY <1>8, <2>3, <2>4, WordsGrow DEF w8
<1>10. Words(w9, 160)
  <2>1. IsRow(Fields!np_tse_mdio("mdio0"), 32)
    BY RowsOfWords DEF IsRow, Fields!np_tse_mdio, Fields!Array
  <2>2. \A k \in 1..32 : Fields!np_tse_mdio("mdio0")[k] = WordAt(128 + k)
    BY DEF WordAt, Fields!np_tse_mdio, Fields!Array
  <2>3. Follow(Fields!np_tse_mdio("mdio0"), 128, 32)
    BY <2>1, <2>2 DEF Follow
  <2>4. 128 \in Nat /\ 32 \in Nat /\ 128 + 32 = 160
    OBVIOUS
  <2> QED  BY <1>9, <2>3, <2>4, WordsGrow DEF w9
<1>11. Words(w10, 192)
  <2>1. IsRow(Fields!np_tse_mdio("mdio1"), 32)
    BY RowsOfWords DEF IsRow, Fields!np_tse_mdio, Fields!Array
  <2>2. \A k \in 1..32 : Fields!np_tse_mdio("mdio1")[k] = WordAt(160 + k)
    BY DEF WordAt, Fields!np_tse_mdio, Fields!Array
  <2>3. Follow(Fields!np_tse_mdio("mdio1"), 160, 32)
    BY <2>1, <2>2 DEF Follow
  <2>4. 160 \in Nat /\ 32 \in Nat /\ 160 + 32 = 192
    OBVIOUS
  <2> QED  BY <1>10, <2>3, <2>4, WordsGrow DEF w10
<1>12. Words(w11, 200)
  <2>1. IsRow(Fields!Supplemental, 8)
    BY RowsOfWords DEF IsRow
  <2>2. \A k \in 1..8 : Fields!Supplemental[k] = WordAt(192 + k)
    BY DEF WordAt
  <2>3. Follow(Fields!Supplemental, 192, 8)
    BY <2>1, <2>2 DEF Follow
  <2>4. 192 \in Nat /\ 8 \in Nat /\ 192 + 8 = 200
    OBVIOUS
  <2> QED  BY <1>11, <2>3, <2>4, WordsGrow DEF w11
<1>13. Words(w12, 256)
  <2>1. IsRow(Fields!Reserved(56), 56)
    BY RowsOfWords DEF IsRow, Fields!Reserved
  <2>2. \A k \in 1..56 : Fields!Reserved(56)[k] = WordAt(200 + k)
    BY DEF WordAt, Fields!Reserved
  <2>3. Follow(Fields!Reserved(56), 200, 56)
    BY <2>1, <2>2 DEF Follow
  <2>4. 200 \in Nat /\ 56 \in Nat /\ 200 + 56 = 256
    OBVIOUS
  <2> QED  BY <1>12, <2>3, <2>4, WordsGrow DEF w12
<1> QED  BY <1>0, <1>13 DEF Words

\* The names of the words of a configuration.
LEMMA NamesOfRows ==
  /\ \A k \in 1..17 : Fields!Config[k] = <<Fields!Config[k][1], 0>>
  /\ \A k \in 1..17 : Fields!Config[k][1] \notin {"mdio0", "mdio1", "reserved"}
  /\ \A k \in 1..16 : Fields!Config[k][1] # "MDIO_ADDR1"
  /\ \A k \in 1..2 : Fields!Status[k][1] \notin {"mdio0", "mdio1", "MDIO_ADDR1"}
  /\ \A k \in 1..33 : Fields!Counters[k][1] \notin {"mdio0", "mdio1", "MDIO_ADDR1"}
  /\ \A k \in 1..2 : Fields!CmdStat[k][1] \notin {"mdio0", "mdio1", "MDIO_ADDR1"}
  /\ \A k \in 1..3 : Fields!Msb[k][1] \notin {"mdio0", "mdio1", "MDIO_ADDR1"}
  /\ \A k \in 1..8 : Fields!Supplemental[k][1] \notin {"mdio0", "mdio1", "MDIO_ADDR1"}
<1>1. \A k \in 1..17 : Fields!Config[k] = <<Fields!Config[k][1], 0>>
  BY DEF Fields!Config, Fields!Plain
<1>2. \A k \in 1..17 : Fields!Config[k][1] \notin {"mdio0", "mdio1", "reserved"}
  BY DEF Fields!Config, Fields!Plain
<1>3. \A k \in 1..16 : Fields!Config[k][1] # "MDIO_ADDR1"
  BY DEF Fields!Config, Fields!Plain
<1>4. \A k \in 1..2 : Fields!Status[k][1] \notin {"mdio0", "mdio1", "MDIO_ADDR1"}
  BY DEF Fields!Status, Fields!Plain
<1>5. \A k \in 1..33 : Fields!Counters[k][1] \notin {"mdio0", "mdio1", "MDIO_ADDR1"}
  BY DEF Fields!Counters, Fields!Plain
<1>6. \A k \in 1..2 : Fields!CmdStat[k][1] \notin {"mdio0", "mdio1", "MDIO_ADDR1"}
  BY DEF Fields!CmdStat, Fields!Plain
<1>7. \A k \in 1..3 : Fields!Msb[k][1] \notin {"mdio0", "mdio1", "MDIO_ADDR1"}
  BY DEF Fields!Msb, Fields!Plain
<1>8. \A k \in 1..8 : Fields!Supplemental[k][1] \notin {"mdio0", "mdio1", "MDIO_ADDR1"}
  BY DEF Fields!Supplemental, Fields!Plain
<1> QED  BY <1>1, <1>2, <1>3, <1>4, <1>5, <1>6, <1>7, <1>8

\* A name of the MDIO windows is at one word.
LEMMA OneWord ==
  ASSUME NEW w \in 1..256
  PROVE  /\ WordAt(w)[1] = "mdio1" => w \in 161..192 /\ WordAt(w) = <<"mdio1", w - 161>>
         /\ WordAt(w)[1] = "mdio0" => w \in 129..160 /\ WordAt(w) = <<"mdio0", w - 129>>
         /\ WordAt(w)[1] = "MDIO_ADDR1" => w = 17
<1>1. CASE w \in 1..17
  <2>1. WordAt(w) = Fields!Config[w]
    BY <1>1 DEF WordAt
  <2>2. Fields!Config[w][1] \notin {"mdio0", "mdio1"} /\ (w \in 1..16 => Fields!Config[w][1] # "MDIO_ADDR1")
    BY <1>1, NamesOfRows
  <2>3. w \in 1..16 \/ w = 17
    BY <1>1
  <2> QED  BY <2>1, <2>2, <2>3
<1>2. CASE w \in 18..22
  BY <1>2 DEF WordAt
<1>3. CASE w \in 23..24
  <2>1. WordAt(w) = Fields!Status[w - 22] /\ w - 22 \in 1..2
    BY <1>3 DEF WordAt
  <2> QED  BY <2>1, NamesOfRows
<1>4. CASE w \in 25..57
  <2>1. WordAt(w) = Fields!Counters[w - 24] /\ w - 24 \in 1..33
    BY <1>4 DEF WordAt
  <2> QED  BY <2>1, NamesOfRows
<1>5. CASE w \in 59..60
  <2>1. WordAt(w) = Fields!CmdStat[w - 58] /\ w - 58 \in 1..2
    BY <1>5 DEF WordAt
  <2> QED  BY <2>1, NamesOfRows
<1>6. CASE w \in 61..63
  <2>1. WordAt(w) = Fields!Msb[w - 60] /\ w - 60 \in 1..3
    BY <1>6 DEF WordAt
  <2> QED  BY <2>1, NamesOfRows
<1>7. CASE w \in 193..200
  <2>1. WordAt(w) = Fields!Supplemental[w - 192] /\ w - 192 \in 1..8
    BY <1>7 DEF WordAt
  <2> QED  BY <2>1, NamesOfRows
<1>8. CASE w \in 65..128
  BY <1>8 DEF WordAt
<1>9. CASE w \in 129..160
  BY <1>9 DEF WordAt
<1>10. CASE w \in 161..192
  BY <1>10 DEF WordAt
<1>11. CASE w = 58 \/ w = 64 \/ w \in 201..256
  BY <1>11 DEF WordAt
<1> QED  BY <1>1, <1>2, <1>3, <1>4, <1>5, <1>6, <1>7, <1>8, <1>9, <1>10, <1>11

\* The word of a field that is there once.
LEMMA FieldIs ==
  ASSUME NEW name, NEW k, NEW n \in 1..256, WordAt(n) = <<name, k>>,
         \A w \in 1..256 : WordAt(w) = <<name, k>> => w = n
  PROVE  Fields!Field(name, k) = n - 1
<1>1. DOMAIN Fields!np_tse_mac = 1..256 /\ \A w \in 1..256 : Fields!np_tse_mac[w] = WordAt(w)
  BY WordsAre
<1>2. (CHOOSE w \in 1..256 : Fields!np_tse_mac[w] = <<name, k>>) = n
  BY <1>1
<1> QED  BY <1>1, <1>2 DEF Fields!Field

\* The numbers of the words a function addresses.
LEMMA WordNumbers ==
  /\ Fields!MDIO_ADDR1 = 16
  /\ \A k \in 0..31 : Fields!mdio1(k) = 160 + k
  /\ Fields!Field("mdio0", 0) = 128 /\ Fields!CMD_CONFIG = 2
<1>1. Fields!MDIO_ADDR1 = 16
  <2>1. WordAt(17) = <<"MDIO_ADDR1", 0>>
    BY DEF WordAt, Fields!Config, Fields!Plain
  <2>2. \A w \in 1..256 : WordAt(w) = <<"MDIO_ADDR1", 0>> => w = 17
    BY OneWord, SMTT(30)
  <2>3. Fields!Field("MDIO_ADDR1", 0) = 17 - 1
    <3> 17 \in 1..256
      OBVIOUS
    <3> QED  BY <2>1, <2>2, FieldIs
  <2> QED  BY <2>3 DEF Fields!MDIO_ADDR1
<1>2. ASSUME NEW k \in 0..31 PROVE Fields!mdio1(k) = 160 + k
  <2>1. WordAt(161 + k) = <<"mdio1", k>>
    BY DEF WordAt
  <2>2. \A w \in 1..256 : WordAt(w) = <<"mdio1", k>> => w = 161 + k
    BY OneWord, SMTT(30)
  <2>3. 161 + k \in 1..256
    OBVIOUS
  <2>4. Fields!Field("mdio1", k) = (161 + k) - 1
    BY <2>1, <2>2, <2>3, FieldIs
  <2> QED  BY <2>4 DEF Fields!mdio1
<1>3. Fields!Field("mdio0", 0) = 128
  <2>1. WordAt(129) = <<"mdio0", 0>>
    BY DEF WordAt
  <2>2. \A w \in 1..256 : WordAt(w) = <<"mdio0", 0>> => w = 129
    BY OneWord, SMTT(30)
  <2>3. Fields!Field("mdio0", 0) = 129 - 1
    <3> 129 \in 1..256
      OBVIOUS
    <3> QED  BY <2>1, <2>2, FieldIs
  <2> QED  BY <2>3
<1>4. Fields!CMD_CONFIG = 2
  BY DEF Fields!CMD_CONFIG, Fields!ConfigMacros
<1> QED  BY <1>1, <1>2, <1>3, <1>4

\* Where the runs of the macros are.
LEMMA Spans ==
  /\ Fields!ConfigMacros.first = 0 /\ Len(Fields!ConfigMacros.names) = 17
  /\ Fields!StatusMacros.first = 88 /\ Len(Fields!StatusMacros.names) = 2
  /\ Fields!CounterMacros.first = 96 /\ Len(Fields!CounterMacros.names) = 33
  /\ Fields!CmdStatMacros.first = 232 /\ Len(Fields!CmdStatMacros.names) = 2
  /\ Fields!HashMacro.first = 256 /\ Len(Fields!HashMacro.names) = 64
  /\ Fields!MdioMacro(0).first = 512 /\ Len(Fields!MdioMacro(0).names) = 32
  /\ Fields!MdioMacro(1).first = 640 /\ Len(Fields!MdioMacro(1).names) = 32
  /\ Fields!SupplementalMacros.first = 768 /\ Len(Fields!SupplementalMacros.names) = 8
<1>1. ASSUME NEW n \in Nat, NEW t, IsRow(t, n) PROVE Len(t) = n
  <2> DEFINE S == {t[k] : k \in 1..n}
  <2>1. t \in [1..n -> S]
    BY <1>1 DEF IsRow
  <2> HIDE DEF S
  <2> QED  BY <2>1
<1>2. Fields!ConfigMacros.first = 0 /\ Len(Fields!ConfigMacros.names) = 17
  BY <1>1, RowsOfWords DEF Fields!ConfigMacros
<1>3. Fields!StatusMacros.first = 88 /\ Len(Fields!StatusMacros.names) = 2
  BY <1>1, RowsOfWords DEF Fields!StatusMacros
<1>4. Fields!CounterMacros.first = 96 /\ Len(Fields!CounterMacros.names) = 33
  BY <1>1, RowsOfWords DEF Fields!CounterMacros
<1>5. Fields!CmdStatMacros.first = 232 /\ Len(Fields!CmdStatMacros.names) = 2
  BY <1>1, RowsOfWords DEF Fields!CmdStatMacros
<1>6. Fields!HashMacro.first = 256 /\ Len(Fields!HashMacro.names) = 64
  <2>1. IsRow(Fields!Array("hashtable", 64), 64)
    BY DEF IsRow, Fields!Array
  <2> QED  BY <2>1, <1>1 DEF Fields!HashMacro
<1>7. ASSUME NEW k \in {0, 1}
      PROVE  Fields!MdioMacro(k).first = 512 + (k * 128) /\ Len(Fields!MdioMacro(k).names) = 32
  <2> DEFINE window == IF k = 0 THEN "mdio0" ELSE "mdio1"
  <2>1. IsRow(Fields!np_tse_mdio(window), 32)
    BY DEF IsRow, Fields!Array, Fields!np_tse_mdio
  <2>2. Len(Fields!np_tse_mdio(window)) = 32
    BY <2>1, <1>1
  <2> QED  BY <2>2 DEF Fields!MdioMacro
<1>8. Fields!SupplementalMacros.first = 768 /\ Len(Fields!SupplementalMacros.names) = 8
  BY <1>1, RowsOfWords DEF Fields!SupplementalMacros
<1>9. /\ Fields!MdioMacro(0).first = 512 /\ Len(Fields!MdioMacro(0).names) = 32
      /\ Fields!MdioMacro(1).first = 640 /\ Len(Fields!MdioMacro(1).names) = 32
  BY <1>7
<1> QED  BY <1>2, <1>3, <1>4, <1>5, <1>6, <1>8, <1>9

\* The word is in a run of macros that name bytes.
Within(w, row) == 4 * w \in row.first..(row.first + (4 * Len(row.names)) - 1)

\* The register at a word of a run.
LEMMA DecodeIn ==
  ASSUME NEW row \in Fields!Macros, NEW w \in Nat, Within(w, row)
  PROVE  Fields!Decode(w) = row.names[1 + (w - (row.first \div 4))]
<1>1. \A r \in Fields!Macros : Within(w, r) => r = row
  <2>1. /\ Within(w, Fields!ConfigMacros) <=> 4 * w \in 0..67
        /\ Within(w, Fields!StatusMacros) <=> 4 * w \in 88..95
        /\ Within(w, Fields!CounterMacros) <=> 4 * w \in 96..227
        /\ Within(w, Fields!CmdStatMacros) <=> 4 * w \in 232..239
        /\ Within(w, Fields!HashMacro) <=> 4 * w \in 256..511
        /\ Within(w, Fields!MdioMacro(0)) <=> 4 * w \in 512..639
        /\ Within(w, Fields!MdioMacro(1)) <=> 4 * w \in 640..767
        /\ Within(w, Fields!SupplementalMacros) <=> 4 * w \in 768..799
    <3>1. Within(w, Fields!ConfigMacros) <=> 4 * w \in 0..67
      <4>1. Fields!ConfigMacros.first = 0 /\ Len(Fields!ConfigMacros.names) = 17
        BY Spans
      <4> QED  BY <4>1 DEF Within
    <3>2. Within(w, Fields!StatusMacros) <=> 4 * w \in 88..95
      <4>1. Fields!StatusMacros.first = 88 /\ Len(Fields!StatusMacros.names) = 2
        BY Spans
      <4> QED  BY <4>1 DEF Within
    <3>3. Within(w, Fields!CounterMacros) <=> 4 * w \in 96..227
      <4>1. Fields!CounterMacros.first = 96 /\ Len(Fields!CounterMacros.names) = 33
        BY Spans
      <4> QED  BY <4>1 DEF Within
    <3>4. Within(w, Fields!CmdStatMacros) <=> 4 * w \in 232..239
      <4>1. Fields!CmdStatMacros.first = 232 /\ Len(Fields!CmdStatMacros.names) = 2
        BY Spans
      <4> QED  BY <4>1 DEF Within
    <3>5. Within(w, Fields!HashMacro) <=> 4 * w \in 256..511
      <4>1. Fields!HashMacro.first = 256 /\ Len(Fields!HashMacro.names) = 64
        BY Spans
      <4> QED  BY <4>1 DEF Within
    <3>6. Within(w, Fields!MdioMacro(0)) <=> 4 * w \in 512..639
      <4>1. \A r : r.first = 512 /\ Len(r.names) = 32 => (Within(w, r) <=> 4 * w \in 512..639)
        BY DEF Within
      <4> QED  BY <4>1, Spans
    <3>7. Within(w, Fields!MdioMacro(1)) <=> 4 * w \in 640..767
      <4>1. \A r : r.first = 640 /\ Len(r.names) = 32 => (Within(w, r) <=> 4 * w \in 640..767)
        BY DEF Within
      <4> QED  BY <4>1, Spans
    <3>8. Within(w, Fields!SupplementalMacros) <=> 4 * w \in 768..799
      <4>1. Fields!SupplementalMacros.first = 768 /\ Len(Fields!SupplementalMacros.names) = 8
        BY Spans
      <4> QED  BY <4>1 DEF Within
    <3> QED  BY <3>1, <3>2, <3>3, <3>4, <3>5, <3>6, <3>7, <3>8
  <2>2. \A r \in Fields!Macros :
          \/ r = Fields!ConfigMacros
          \/ r = Fields!StatusMacros
          \/ r = Fields!CounterMacros
          \/ r = Fields!CmdStatMacros
          \/ r = Fields!HashMacro
          \/ r = Fields!MdioMacro(0)
          \/ r = Fields!MdioMacro(1)
          \/ r = Fields!SupplementalMacros
    BY DEF Fields!Macros
  <2>3. CASE row = Fields!ConfigMacros
    BY <2>1, <2>2, <2>3
  <2>4. CASE row = Fields!StatusMacros
    BY <2>1, <2>2, <2>4
  <2>5. CASE row = Fields!CounterMacros
    BY <2>1, <2>2, <2>5
  <2>6. CASE row = Fields!CmdStatMacros
    BY <2>1, <2>2, <2>6
  <2>7. CASE row = Fields!HashMacro
    BY <2>1, <2>2, <2>7
  <2>8. CASE row = Fields!MdioMacro(0)
    BY <2>1, <2>2, <2>8
  <2>9. CASE row = Fields!MdioMacro(1)
    BY <2>1, <2>2, <2>9
  <2>10. CASE row = Fields!SupplementalMacros
    BY <2>1, <2>2, <2>10
  <2> QED  BY <2>2, <2>3, <2>4, <2>5, <2>6, <2>7, <2>8, <2>9, <2>10
<1> DEFINE at == {r \in Fields!Macros : 4 * w \in r.first..(r.first + 4 * Len(r.names) - 1)}
<1>2. at = {row}
  BY <1>1 DEF Within
<1> HIDE DEF at
<1>3. at # {} /\ (CHOOSE r \in at : TRUE) = row
  BY <1>2
<1> QED  BY <1>3 DEF at, Fields!Decode

\* The registers at the words that are used.
LEMMA DecodeConfig ==
  ASSUME NEW w \in 0..16
  PROVE  Fields!Decode(w) = Fields!Config[w + 1]
<1>1. Fields!ConfigMacros.first = 0 /\ Len(Fields!ConfigMacros.names) = 17
  BY Spans
<1>2. Within(w, Fields!ConfigMacros) /\ Fields!ConfigMacros \in Fields!Macros
  BY <1>1 DEF Within, Fields!Macros
<1>3. Fields!Decode(w) = Fields!ConfigMacros.names[1 + (w - (0 \div 4))]
  BY <1>1, <1>2, DecodeIn
<1>4. 1 + (w - (0 \div 4)) = w + 1
  OBVIOUS
<1> QED  BY <1>3, <1>4 DEF Fields!ConfigMacros

\* Words of the two MDIO spaces.
LEMMA DecodeMdio ==
  ASSUME NEW m \in {0, 1}, NEW k \in 0..31
  PROVE  Fields!Decode((128 + (m * 32)) + k) = <<IF m = 0 THEN "mdio0" ELSE "mdio1", k>>
<1> DEFINE row == Fields!MdioMacro(m)
           w == (128 + (m * 32)) + k
<1>1. row.first = 512 + (m * 128) /\ Len(row.names) = 32
  BY Spans
<1>2. row \in Fields!Macros
  BY DEF Fields!Macros
<1>3. row.names[1 + k] = <<IF m = 0 THEN "mdio0" ELSE "mdio1", k>>
  BY DEF Fields!MdioMacro, Fields!np_tse_mdio, Fields!Array
<1> HIDE DEF row
<1>4. w \in Nat /\ Within(w, row)
  BY <1>1 DEF Within
<1>5. Fields!Decode(w) = row.names[1 + (w - (row.first \div 4))]
  BY <1>2, <1>4, DecodeIn
<1>6. 1 + (w - (row.first \div 4)) = 1 + k
  BY <1>1
<1> QED  BY <1>3, <1>5, <1>6

\* The registers at the first words.
LEMMA Registers16 ==
  /\ Fields!Decode(2) = <<"COMMAND_CONFIG", 0>>
  /\ Fields!Decode(3) = <<"MAC_0", 0>>
  /\ Fields!Decode(4) = <<"MAC_1", 0>>
  /\ Fields!Decode(5) = <<"FRM_LENGTH", 0>>
  /\ Fields!Decode(6) = <<"PAUSE_QUANT", 0>>
  /\ Fields!Decode(7) = <<"RX_SECTION_EMPTY", 0>>
  /\ Fields!Decode(8) = <<"RX_SECTION_FULL", 0>>
  /\ Fields!Decode(9) = <<"TX_SECTION_EMPTY", 0>>
  /\ Fields!Decode(10) = <<"TX_SECTION_FULL", 0>>
  /\ Fields!Decode(11) = <<"RX_ALMOST_EMPTY", 0>>
  /\ Fields!Decode(12) = <<"RX_ALMOST_FULL", 0>>
  /\ Fields!Decode(13) = <<"TX_ALMOST_EMPTY", 0>>
  /\ Fields!Decode(14) = <<"TX_ALMOST_FULL", 0>>
  /\ Fields!Decode(15) = <<"MDIO_ADDR0", 0>>
  /\ Fields!Decode(16) = <<"MDIO_ADDR1", 0>>
<1>1. \A w \in 0..16 : Fields!Decode(w) = Fields!Config[w + 1]
  BY DecodeConfig
<1>2. Fields!Decode(2) = <<"COMMAND_CONFIG", 0>>
  <2>1. Fields!Decode(2) = Fields!Config[2 + 1]
    BY <1>1
  <2> QED  BY <2>1 DEF Fields!Config, Fields!Plain
<1>3. Fields!Decode(3) = <<"MAC_0", 0>>
  <2>1. Fields!Decode(3) = Fields!Config[3 + 1]
    BY <1>1
  <2> QED  BY <2>1 DEF Fields!Config, Fields!Plain
<1>4. Fields!Decode(4) = <<"MAC_1", 0>>
  <2>1. Fields!Decode(4) = Fields!Config[4 + 1]
    BY <1>1
  <2> QED  BY <2>1 DEF Fields!Config, Fields!Plain
<1>5. Fields!Decode(5) = <<"FRM_LENGTH", 0>>
  <2>1. Fields!Decode(5) = Fields!Config[5 + 1]
    BY <1>1
  <2> QED  BY <2>1 DEF Fields!Config, Fields!Plain
<1>6. Fields!Decode(6) = <<"PAUSE_QUANT", 0>>
  <2>1. Fields!Decode(6) = Fields!Config[6 + 1]
    BY <1>1
  <2> QED  BY <2>1 DEF Fields!Config, Fields!Plain
<1>7. Fields!Decode(7) = <<"RX_SECTION_EMPTY", 0>>
  <2>1. Fields!Decode(7) = Fields!Config[7 + 1]
    BY <1>1
  <2> QED  BY <2>1 DEF Fields!Config, Fields!Plain
<1>8. Fields!Decode(8) = <<"RX_SECTION_FULL", 0>>
  <2>1. Fields!Decode(8) = Fields!Config[8 + 1]
    BY <1>1
  <2> QED  BY <2>1 DEF Fields!Config, Fields!Plain
<1>9. Fields!Decode(9) = <<"TX_SECTION_EMPTY", 0>>
  <2>1. Fields!Decode(9) = Fields!Config[9 + 1]
    BY <1>1
  <2> QED  BY <2>1 DEF Fields!Config, Fields!Plain
<1>10. Fields!Decode(10) = <<"TX_SECTION_FULL", 0>>
  <2>1. Fields!Decode(10) = Fields!Config[10 + 1]
    BY <1>1
  <2> QED  BY <2>1 DEF Fields!Config, Fields!Plain
<1>11. Fields!Decode(11) = <<"RX_ALMOST_EMPTY", 0>>
  <2>1. Fields!Decode(11) = Fields!Config[11 + 1]
    BY <1>1
  <2> QED  BY <2>1 DEF Fields!Config, Fields!Plain
<1>12. Fields!Decode(12) = <<"RX_ALMOST_FULL", 0>>
  <2>1. Fields!Decode(12) = Fields!Config[12 + 1]
    BY <1>1
  <2> QED  BY <2>1 DEF Fields!Config, Fields!Plain
<1>13. Fields!Decode(13) = <<"TX_ALMOST_EMPTY", 0>>
  <2>1. Fields!Decode(13) = Fields!Config[13 + 1]
    BY <1>1
  <2> QED  BY <2>1 DEF Fields!Config, Fields!Plain
<1>14. Fields!Decode(14) = <<"TX_ALMOST_FULL", 0>>
  <2>1. Fields!Decode(14) = Fields!Config[14 + 1]
    BY <1>1
  <2> QED  BY <2>1 DEF Fields!Config, Fields!Plain
<1>15. Fields!Decode(15) = <<"MDIO_ADDR0", 0>>
  <2>1. Fields!Decode(15) = Fields!Config[15 + 1]
    BY <1>1
  <2> QED  BY <2>1 DEF Fields!Config, Fields!Plain
<1>16. Fields!Decode(16) = <<"MDIO_ADDR1", 0>>
  <2>1. Fields!Decode(16) = Fields!Config[16 + 1]
    BY <1>1
  <2> QED  BY <2>1 DEF Fields!Config, Fields!Plain
<1> QED  BY <1>2, <1>3, <1>4, <1>5, <1>6, <1>7, <1>8, <1>9, <1>10, <1>11, <1>12, <1>13, <1>14, <1>15, <1>16

\* The registers further on that tse_init writes.
LEMMA RegisterOf ==
  /\ Fields!Decode(23) = <<"TX_IPG_LENGTH", 0>> /\ Fields!Decode(58) = <<"TX_CMD_STAT", 0>>
  /\ Fields!Decode(148) = <<"mdio0", 20>>
  /\ \A k \in 0..31 : Fields!Decode(160 + k) = <<"mdio1", k>>
<1>1. Fields!Decode(23) = <<"TX_IPG_LENGTH", 0>>
  <2>1. Fields!StatusMacros.first = 88 /\ Len(Fields!StatusMacros.names) = 2
    BY Spans
  <2>2. Within(23, Fields!StatusMacros) /\ Fields!StatusMacros \in Fields!Macros
    BY <2>1 DEF Within, Fields!Macros
  <2>3. Fields!Decode(23) = Fields!StatusMacros.names[1 + (23 - (88 \div 4))]
    BY <2>1, <2>2, DecodeIn
  <2>4. 1 + (23 - (88 \div 4)) = 2
    OBVIOUS
  <2> QED  BY <2>3, <2>4 DEF Fields!StatusMacros, Fields!Status, Fields!Plain
<1>2. Fields!Decode(58) = <<"TX_CMD_STAT", 0>>
  <2>1. Fields!CmdStatMacros.first = 232 /\ Len(Fields!CmdStatMacros.names) = 2
    BY Spans
  <2>2. Within(58, Fields!CmdStatMacros) /\ Fields!CmdStatMacros \in Fields!Macros
    BY <2>1 DEF Within, Fields!Macros
  <2>3. Fields!Decode(58) = Fields!CmdStatMacros.names[1 + (58 - (232 \div 4))]
    BY <2>1, <2>2, DecodeIn
  <2>4. 1 + (58 - (232 \div 4)) = 1
    OBVIOUS
  <2> QED  BY <2>3, <2>4 DEF Fields!CmdStatMacros, Fields!CmdStat, Fields!Plain
<1>3. Fields!Decode(148) = <<"mdio0", 20>>
  <2>1. Fields!Decode((128 + (0 * 32)) + 20) = <<"mdio0", 20>>
    BY DecodeMdio
  <2>2. (128 + (0 * 32)) + 20 = 148
    OBVIOUS
  <2> QED  BY <2>1, <2>2
<1>4. ASSUME NEW k \in 0..31 PROVE Fields!Decode(160 + k) = <<"mdio1", k>>
  <2>1. Fields!Decode((128 + (1 * 32)) + k) = <<"mdio1", k>>
    BY DecodeMdio
  <2>2. (128 + (1 * 32)) + k = 160 + k
    OBVIOUS
  <2> QED  BY <2>1, <2>2
<1> QED  BY <1>1, <1>2, <1>3, <1>4

\* The registers of the MAC.
MacNames == {Fields!np_tse_mac[w + 1][1] : w \in (2..16) \cup {23, 58}}
LEMMA NamesAre ==
  {"COMMAND_CONFIG", "MAC_0", "MAC_1", "FRM_LENGTH", "RX_SECTION_EMPTY", "TX_SECTION_EMPTY",
   "MDIO_ADDR1"} \subseteq MacNames
<1>1. ASSUME NEW w \in 2..16 PROVE Fields!Config[w + 1][1] \in MacNames
  <2>1. Fields!np_tse_mac[w + 1] = WordAt(w + 1)
    BY WordsAre
  <2>2. WordAt(w + 1) = Fields!Config[w + 1]
    BY DEF WordAt
  <2> QED  BY <2>1, <2>2 DEF MacNames
<1>2. /\ Fields!Config[2 + 1][1] = "COMMAND_CONFIG" /\ Fields!Config[3 + 1][1] = "MAC_0"
      /\ Fields!Config[4 + 1][1] = "MAC_1" /\ Fields!Config[5 + 1][1] = "FRM_LENGTH"
      /\ Fields!Config[7 + 1][1] = "RX_SECTION_EMPTY"
      /\ Fields!Config[9 + 1][1] = "TX_SECTION_EMPTY"
      /\ Fields!Config[16 + 1][1] = "MDIO_ADDR1"
  BY DEF Fields!Config, Fields!Plain
<1>3. /\ Fields!Config[2 + 1][1] \in MacNames /\ Fields!Config[3 + 1][1] \in MacNames
      /\ Fields!Config[4 + 1][1] \in MacNames /\ Fields!Config[5 + 1][1] \in MacNames
      /\ Fields!Config[7 + 1][1] \in MacNames /\ Fields!Config[9 + 1][1] \in MacNames
      /\ Fields!Config[16 + 1][1] \in MacNames
  <2> 2 \in 2..16 /\ 3 \in 2..16 /\ 4 \in 2..16 /\ 5 \in 2..16 /\ 7 \in 2..16 /\ 9 \in 2..16
      /\ 16 \in 2..16
    OBVIOUS
  <2> QED  BY <1>1
<1> QED  BY <1>2, <1>3

\* The bits of an address tell it from the others.
LEMMA AddressOfBits ==
  ASSUME NEW a \in 0..31
  PROVE  Fields!AddrOf(Fields!Bits(a)) = a
<1>1. ASSUME NEW n \in 0..31
      PROVE  /\ 0 \in Fields!Bits(n) <=> n % 2 = 1
             /\ 1 \in Fields!Bits(n) <=> (n \div 2) % 2 = 1
             /\ 2 \in Fields!Bits(n) <=> (n \div 4) % 2 = 1
             /\ 3 \in Fields!Bits(n) <=> (n \div 8) % 2 = 1
             /\ 4 \in Fields!Bits(n) <=> (n \div 16) % 2 = 1
  <2>1. 2^0 = 1 /\ 2^1 = 2 /\ 2^2 = 4 /\ 2^3 = 8 /\ 2^4 = 16
    OBVIOUS
  <2>2. n \div 1 = n
    OBVIOUS
  <2> QED  BY <2>1, <2>2 DEF Fields!Bits
<1>2. ASSUME NEW n \in 0..31
      PROVE  n = ((((n % 2) + (2 * ((n \div 2) % 2))) + (4 * ((n \div 4) % 2)))
                  + (8 * ((n \div 8) % 2))) + (16 * ((n \div 16) % 2))
  OBVIOUS
<1>3. ASSUME NEW n \in 0..31, Fields!Bits(n) = Fields!Bits(a) PROVE n = a
  <2>1. /\ n % 2 = 1 <=> a % 2 = 1
        /\ (n \div 2) % 2 = 1 <=> (a \div 2) % 2 = 1
        /\ (n \div 4) % 2 = 1 <=> (a \div 4) % 2 = 1
        /\ (n \div 8) % 2 = 1 <=> (a \div 8) % 2 = 1
        /\ (n \div 16) % 2 = 1 <=> (a \div 16) % 2 = 1
    BY <1>1, <1>3
  <2>2. /\ n % 2 = a % 2
        /\ (n \div 2) % 2 = (a \div 2) % 2
        /\ (n \div 4) % 2 = (a \div 4) % 2
        /\ (n \div 8) % 2 = (a \div 8) % 2
        /\ (n \div 16) % 2 = (a \div 16) % 2
    BY <2>1
  <2> QED  BY <2>2, <1>2
<1> QED  BY <1>3 DEF Fields!AddrOf

-----------------------------------------------------------------------------
(* The invariant.                                                          *)
(* After j accesses, what is to come makes of the view of the PHY what     *)
(* the whole function makes of it as it was before the call; MDIO_ADDR1    *)
(* is what it has to be then; and the MAC is set up as far as tse_init     *)
(* has come.                                                               *)

\* The accesses of the running function, those behind the first j, and the bits of
\* a register that the PHY clears by itself.
Body == IF function.fn = "tse_init" THEN Fields!tse_init ELSE Fields!Ops(function, who)
Behind(s, j) == [n \in 1..(Len(s) - j) |-> s[n + j]]
Volatile(k) == IF k = 0 THEN {9, 15} ELSE {}

\* What of the registers r of a PHY a function can change for good.
View(r) == [k \in Fields!Numbers |-> IF k \in {1, 15} THEN {} ELSE r[k] \ Volatile(k)]

\* The capabilities in a register of PHY a, the bits an access sets there, and what it
\* makes of a view v; and what the up to six accesses of s make of it.
CapBits(a, k) ==
  IF k = 1 THEN Fields!Encoded(Able[a], Fields!ModeBits.status)
  ELSE Fields!Encoded(Able[a], Fields!ModeBits.ext)
BitsFor(a, o) ==
  IF o.cap = Fields!NoCap THEN o.bits
  ELSE IF o.cap[2] \in CapBits(a, o.cap[1]) THEN o.bits ELSE {}
Changed(a, o, v) ==
  IF o.do = "set"
    THEN [k \in Fields!Numbers |->
            IF k = o.word - 160 THEN ((v[k] \ o.clear) \cup BitsFor(a, o)) \ Volatile(k) ELSE v[k]]
    ELSE v
Nth(a, s, n, v) == IF n <= Len(s) THEN Changed(a, s[n], v) ELSE v
After(a, s, v) ==
  Nth(a, s, 6, Nth(a, s, 5, Nth(a, s, 4, Nth(a, s, 3, Nth(a, s, 2, Nth(a, s, 1, v))))))

\* The first call, of tse_init, and what it makes of the MAC.
TseUp == Fields!Fn("tse_init", 0, TRUE)
MacIs(m) ==
  /\ m["MAC_0"] = Fields!BitsOfBytes(<<222, 173, 190, 239>>)
  /\ m["MAC_1"] = Fields!BitsOfBytes(<<202, 254, 0, 0>>)
  /\ m["FRM_LENGTH"] = Fields!Bits(1280 + 54)
  /\ m["RX_SECTION_EMPTY"] = Fields!Bits(128 - 16)
  /\ m["TX_SECTION_EMPTY"] = Fields!Bits(128 - 16)

\* Of the registers: which there are, and the modes a PHY says it can do.
RegistersOk ==
  /\ mac_registers = [r \in MacNames |-> mac_registers[r]]
  /\ phy_registers = [a \in Populated |-> phy_registers[a]]
  /\ \A a \in Populated :
       /\ phy_registers[a] = [k \in Fields!Numbers |-> phy_registers[a][k]]
       /\ \A b \in 11..15 : b \in phy_registers[a][1] <=> b \in CapBits(a, 1)
       /\ \A b \in 12..13 : b \in phy_registers[a][15] <=> b \in CapBits(a, 15)

\* Of the call: a function for a PHY has one, the others have none.
CallOk ==
  /\ loaded \in BOOLEAN /\ disturbed \in BOOLEAN
  /\ \/ function \in Fields!OfPhy \cup Fields!OfAddress /\ who \in Populated
     \/ function \in Fields!OfMac \cup {TseUp} /\ who = -1
  /\ function \in Fields!OfAddress => Fields!AddrOf(addr1) = who

\* MDIO_ADDR1 when j accesses are made.
Selects(j) ==
  /\ mac_registers["MDIO_ADDR1"] =
       IF function \in Fields!OfPhy /\ j \in 2..(Len(Body) - 1) THEN Fields!Bits(who) ELSE addr1
  /\ function \in Fields!OfPhy /\ j \in 1..(Len(Body) - 1) => saved = addr1

\* The MAC is set up before it is on.
SetsUp(j) ==
  IF function # TseUp THEN MacIs(mac_registers)
  ELSE /\ j <= 20 => mac_registers["COMMAND_CONFIG"] \cap {0, 1} = {}
       /\ j <= 19 /\ loaded => temp \cap {0, 1} = {}
       /\ j >= 4 => mac_registers["TX_SECTION_EMPTY"] = Fields!Bits(128 - 16)
       /\ j >= 7 => mac_registers["RX_SECTION_EMPTY"] = Fields!Bits(128 - 16)
       /\ j >= 12 => mac_registers["MAC_0"] = Fields!BitsOfBytes(<<222, 173, 190, 239>>)
       /\ j >= 13 => mac_registers["MAC_1"] = Fields!BitsOfBytes(<<202, 254, 0, 0>>)
       /\ j >= 14 => mac_registers["FRM_LENGTH"] = Fields!Bits(1280 + 54)

\* What is to come makes of the PHY what the whole function makes of it as it was.
Promises(j) ==
  who \in Populated /\ function.fn # "marvell_phy_cfg" /\ ~disturbed =>
    /\ After(who, Behind(Body, j), View(phy_registers[who])) = After(who, Body, View(before))
    /\ loaded => LET k == Body[j + 1].word - 160 IN
                   temp \ Volatile(k) = phy_registers[who][k] \ Volatile(k)

\* After j accesses of the function.
Along(j) ==
  /\ todo = Behind(Body, j) /\ (loaded => j < Len(Body) /\ Body[j + 1].do = "set")
  /\ Selects(j) /\ SetsUp(j) /\ Promises(j)
FieldsInv == RegistersOk /\ CallOk /\ \E j \in 0..Len(Body) : Along(j)

\* Rows have their length and are sequences; what is behind the first of them.
LEMMA RowIs ==
  ASSUME NEW n \in Nat, NEW s, IsRow(s, n)
  PROVE  Len(s) = n /\ s \in Seq({s[k] : k \in 1..n})
<1> DEFINE S == {s[k] : k \in 1..n}
<1>1. s \in [1..n -> S]
  BY DEF IsRow
<1> HIDE DEF S
<1>2. Len(s) = n /\ s \in Seq(S)
  BY <1>1
<1> QED  BY <1>2 DEF S

\* What is behind j accesses is the next one and what is behind it.
LEMMA BehindIs ==
  ASSUME NEW n \in Nat, NEW s, IsRow(s, n)
  PROVE  /\ Behind(s, 0) = s /\ Behind(s, n) = <<>>
         /\ \A j \in 0..(n - 1) : /\ Behind(s, j) # <<>> /\ Head(Behind(s, j)) = s[j + 1]
                                  /\ Tail(Behind(s, j)) = Behind(s, j + 1)
<1>1. Len(s) = n
  BY RowIs
<1>2. Behind(s, 0) = s
  <2>1. \A k \in 1..n : s[k + 0] = s[k]
    OBVIOUS
  <2> QED  BY <1>1, <2>1 DEF Behind, IsRow
<1>3. Behind(s, n) = <<>>
  <2>1. IsRow(Behind(s, n), 0)
    BY <1>1 DEF Behind, IsRow
  <2>2. Len(Behind(s, n)) = 0 /\ Behind(s, n) \in Seq({Behind(s, n)[k] : k \in 1..0})
    BY <2>1, RowIs
  <2> QED  BY <2>2, EmptySeq
<1>4. ASSUME NEW j \in 0..(n - 1)
      PROVE  /\ Behind(s, j) # <<>> /\ Head(Behind(s, j)) = s[j + 1]
             /\ Tail(Behind(s, j)) = Behind(s, j + 1)
  <2> DEFINE b == Behind(s, j)
             S == {b[k] : k \in 1..(n - j)}
  <2>1. IsRow(b, n - j) /\ n - j \in Nat /\ n - j > 0
    BY <1>1 DEF Behind, IsRow
  <2>2. b[1] = s[j + 1] /\ \A k \in 1..(n - (j + 1)) : b[k + 1] = s[k + (j + 1)]
    BY <1>1 DEF Behind
  <2> HIDE DEF b
  <2>3. Len(b) = n - j /\ b \in Seq(S)
    BY <2>1, RowIs
  <2> HIDE DEF S
  <2>4. b # <<>>
    BY <2>1, <2>3
  <2>5. Head(b) = b[1]
    BY <2>3, <2>4
  <2>6. Tail(b) \in Seq(S) /\ Len(Tail(b)) = (n - j) - 1
        /\ \A k \in 1..((n - j) - 1) : Tail(b)[k] = b[k + 1]
    BY <2>1, <2>3, <2>4, HeadTailProperties
  <2>7. Tail(b) = [k \in 1..(n - (j + 1)) |-> s[k + (j + 1)]]
    <3>1. (n - j) - 1 = n - (j + 1)
      BY <2>1
    <3>2. Tail(b) = [k \in 1..(n - (j + 1)) |-> Tail(b)[k]]
      <4>1. Tail(b) \in [1..Len(Tail(b)) -> S]
        BY <2>6, LenProperties
      <4> QED  BY <4>1, <2>6, <3>1
    <3>3. \A k \in 1..(n - (j + 1)) : Tail(b)[k] = s[k + (j + 1)]
      BY <3>1, <2>2, <2>6
    <3> QED  BY <3>2, <3>3
  <2> QED  BY <1>1, <2>2, <2>4, <2>5, <2>7 DEF b, Behind
<1> QED  BY <1>2, <1>3, <1>4

\* An access to a field of a PHY.
FieldOp(o) ==
  /\ o.do = "set" /\ o.word \in {160, 164, 169, 180, 187}
  /\ \/ o.cap = <<0, 0>>
     \/ o.cap[1] = 1 /\ o.cap[2] \in 11..15
     \/ o.cap[1] = 15 /\ o.cap[2] \in 12..13
SetBits(w, clear, bits, cap) ==
  [do |-> "set", word |-> w, clear |-> clear, bits |-> bits, cap |-> cap]

\* A field of one bit.
LEMMA OneBit ==
  ASSUME NEW k \in 0..31, NEW b \in 0..15
  PROVE  /\ Fields!WriteField(k, b, 1, 0) = SetBits(160 + k, {b}, {}, <<0, 0>>)
         /\ Fields!WriteField(k, b, 1, 1) = SetBits(160 + k, {b}, {b}, <<0, 0>>)
         /\ Fields!WriteField(k, b, 1, 2) = SetBits(160 + k, {b}, {}, <<0, 0>>)
<1>1. Fields!bit_mask(b, 1) = {b}
  BY DEF Fields!bit_mask
<1>2. 0 \notin Fields!Bits(0) /\ 0 \in Fields!Bits(1) /\ 0 \notin Fields!Bits(2)
  <2>1. /\ 2^0 = 1 /\ 0 \div 1 = 0 /\ 1 \div 1 = 1 /\ 2 \div 1 = 2
        /\ 0 % 2 = 0 /\ 1 % 2 = 1 /\ 2 % 2 = 0
    OBVIOUS
  <2> QED  BY <2>1 DEF Fields!Bits
<1>3. Fields!mdio1(k) = 160 + k
  BY WordNumbers
<1>4. /\ {x \in {b} : x - b \in Fields!Bits(0)} = {}
      /\ {x \in {b} : x - b \in Fields!Bits(1)} = {b}
      /\ {x \in {b} : x - b \in Fields!Bits(2)} = {}
  <2>1. b - b = 0
    OBVIOUS
  <2> HIDE DEF Fields!Bits
  <2> QED  BY <1>2, <2>1
<1>5. \A n : Fields!WriteField(k, b, 1, n)
             = SetBits(160 + k, {b}, {x \in {b} : x - b \in Fields!Bits(n)}, <<0, 0>>)
  BY <1>1, <1>3 DEF Fields!WriteField, Fields!Set, Fields!Op, Fields!NoCap, SetBits
<1>6. Fields!WriteField(k, b, 1, 0) = SetBits(160 + k, {b}, {}, <<0, 0>>)
  BY <1>4, <1>5
<1>7. Fields!WriteField(k, b, 1, 1) = SetBits(160 + k, {b}, {b}, <<0, 0>>)
  BY <1>4, <1>5
<1>8. Fields!WriteField(k, b, 1, 2) = SetBits(160 + k, {b}, {}, <<0, 0>>)
  BY <1>4, <1>5
<1> QED  BY <1>6, <1>7, <1>8

\* What set_adv does to a bit.
OfferMode(k, b, r, n, on) ==
  SetBits(160 + k, {b}, IF on THEN {b} ELSE {}, IF on THEN <<r, n>> ELSE <<0, 0>>)
LEMMA OfferIs ==
  ASSUME NEW k \in 0..31, NEW b \in 0..15, NEW r, NEW n, NEW on \in BOOLEAN
  PROVE  Fields!SetAdv(k, b, r, n, on) = OfferMode(k, b, r, n, on)
<1>1. CASE on
  <2>1. Fields!bit_mask(b, 1) = {b}
    BY DEF Fields!bit_mask
  <2>2. Fields!mdio1(k) = 160 + k
    BY WordNumbers
  <2> QED  BY <1>1, <2>1, <2>2 DEF Fields!SetAdv, OfferMode, Fields!CopyBit, Fields!Op, SetBits
<1>2. CASE ~on
  <2>1. Fields!WriteField(k, b, 1, 0) = SetBits(160 + k, {b}, {}, <<0, 0>>)
    BY OneBit
  <2> QED  BY <1>2, <2>1 DEF Fields!SetAdv, OfferMode
<1> QED  BY <1>1, <1>2

\* The accesses between the change of MDIO_ADDR1 and its return.
LEMMA SetAdvIs ==
  ASSUME NEW on \in BOOLEAN
  PROVE  /\ Fields!set_adv(2, on) = <<OfferMode(9, 9, 15, 13, on), OfferMode(9, 8, 15, 12, on)>>
         /\ Fields!set_adv(1, on) = <<OfferMode(4, 9, 1, 15, on), OfferMode(4, 8, 1, 14, on),
                                      OfferMode(4, 7, 1, 13, on)>>
         /\ Fields!set_adv(0, on) = <<OfferMode(4, 6, 1, 12, on), OfferMode(4, 5, 1, 11, on)>>
<1>1. /\ Fields!set_adv(2, on) = Fields!set_adv_1000(on)
      /\ Fields!set_adv(1, on) = Fields!set_adv_100(on)
      /\ Fields!set_adv(0, on) = Fields!set_adv_10(on)
  BY DEF Fields!set_adv
<1>2. Fields!set_adv_1000(on) = <<OfferMode(9, 9, 15, 13, on), OfferMode(9, 8, 15, 12, on)>>
  BY OfferIs DEF Fields!set_adv_1000, Fields!Mdio, Fields!TCtrl, Fields!ExtStatus
<1>3. Fields!set_adv_100(on) = <<OfferMode(4, 9, 1, 15, on), OfferMode(4, 8, 1, 14, on),
                                 OfferMode(4, 7, 1, 13, on)>>
  BY OfferIs DEF Fields!set_adv_100, Fields!Mdio, Fields!Adv, Fields!Stat
<1>4. Fields!set_adv_10(on) = <<OfferMode(4, 6, 1, 12, on), OfferMode(4, 5, 1, 11, on)>>
  BY OfferIs DEF Fields!set_adv_10, Fields!Mdio, Fields!Adv, Fields!Stat
<1> QED  BY <1>1, <1>2, <1>3, <1>4

\* A bit of the control register.
Bit(b, on) == SetBits(160, {b}, IF on THEN {b} ELSE {}, <<0, 0>>)
LEMMA Joined2 == \A x, y : <<x>> \o <<y>> = <<x, y>> /\ <<>> \o <<x>> = <<x>>
<1>1. ASSUME NEW x, NEW y PROVE <<x>> \o <<y>> = <<x, y>>
  <2>1. <<x>> = [k \in 1..1 |-> <<x>>[k]] /\ <<y>> = [k \in 1..1 |-> <<y>>[k]]
    OBVIOUS
  <2>2. <<x>> \o <<y>> = [k \in 1..(1 + 1) |-> IF k <= 1 THEN <<x>>[k] ELSE <<y>>[k - 1]]
    BY <2>1, JoinedAre
  <2>3. <<x, y>> = [k \in 1..(1 + 1) |-> IF k <= 1 THEN <<x>>[k] ELSE <<y>>[k - 1]]
    OBVIOUS
  <2> QED  BY <2>2, <2>3
<1>2. ASSUME NEW x PROVE <<>> \o <<x>> = <<x>>
  <2>1. <<x>> \in Seq({x})
    OBVIOUS
  <2> QED  BY <2>1, ConcatEmptySeq
<1> QED  BY <1>1, <1>2

\* The functions of the control register.
LEMMA ControlBitsAre ==
  /\ Fields!loopback = <<Bit(14, FALSE)>>
  /\ Fields!restart_an = <<Bit(12, TRUE), Bit(9, TRUE)>>
  /\ \A n \in 0..2 : /\ Fields!force(n, TRUE) = <<Bit(6, n = 2), Bit(13, n = 1)>>
                     /\ Fields!force(n, FALSE) = <<Bit(13, n = 1)>>
<1>0. ASSUME NEW b \in 0..15
      PROVE  /\ Fields!WriteField(0, b, 1, 0) = Bit(b, FALSE)
             /\ Fields!WriteField(0, b, 1, 1) = Bit(b, TRUE)
             /\ Fields!WriteField(0, b, 1, 2) = Bit(b, FALSE)
  <2>1. /\ Fields!WriteField(0, b, 1, 0) = SetBits(160 + 0, {b}, {}, <<0, 0>>)
        /\ Fields!WriteField(0, b, 1, 1) = SetBits(160 + 0, {b}, {b}, <<0, 0>>)
        /\ Fields!WriteField(0, b, 1, 2) = SetBits(160 + 0, {b}, {}, <<0, 0>>)
    <3>1. 0 \in 0..31
      OBVIOUS
    <3> QED  BY <3>1, OneBit
  <2>2. 160 + 0 = 160
    OBVIOUS
  <2> QED  BY <2>1, <2>2 DEF Bit
<1> 14 \in 0..15 /\ 12 \in 0..15 /\ 9 \in 0..15 /\ 6 \in 0..15 /\ 13 \in 0..15
  OBVIOUS
<1>6. /\ Fields!WriteField(0, 14, 1, 0) = Bit(14, FALSE)
      /\ Fields!WriteField(0, 6, 1, 0) = Bit(6, FALSE)
      /\ Fields!WriteField(0, 6, 1, 1) = Bit(6, TRUE)
      /\ Fields!WriteField(0, 12, 1, 1) = Bit(12, TRUE)
      /\ Fields!WriteField(0, 9, 1, 1) = Bit(9, TRUE)
      /\ Fields!WriteField(0, 13, 1, 0) = Bit(13, FALSE)
      /\ Fields!WriteField(0, 13, 1, 1) = Bit(13, TRUE)
      /\ Fields!WriteField(0, 13, 1, 2) = Bit(13, FALSE)
  BY <1>0
<1>1. Fields!loopback = <<Bit(14, FALSE)>>
  BY <1>6 DEF Fields!loopback, Fields!Mdio, Fields!Control
<1>2. Fields!restart_an = <<Bit(12, TRUE), Bit(9, TRUE)>>
  BY <1>6 DEF Fields!restart_an, Fields!Mdio, Fields!Control
<1>3. ASSUME NEW n \in 0..2
      PROVE  /\ Fields!WriteField(0, 13, 1, n) = Bit(13, n = 1)
             /\ Fields!WriteField(0, 6, 1, n \div 2) = Bit(6, n = 2)
  <2>1. n = 0 \/ n = 1 \/ n = 2
    OBVIOUS
  <2>2. n \div 2 = IF n = 2 THEN 1 ELSE 0
    OBVIOUS
  <2>3. Fields!WriteField(0, 6, 1, n \div 2) = Bit(6, n = 2)
    BY <2>2, <1>6 DEF Bit
  <2>4. Fields!WriteField(0, 13, 1, n) = Bit(13, n = 1)
    BY <2>1, <1>6 DEF Bit
  <2> QED  BY <2>3, <2>4
<1>5. \A x, y : <<x>> \o <<y>> = <<x, y>> /\ <<>> \o <<x>> = <<x>>
  BY Joined2
<1>4. ASSUME NEW n \in 0..2
      PROVE  /\ Fields!force(n, TRUE) = <<Bit(6, n = 2), Bit(13, n = 1)>>
             /\ Fields!force(n, FALSE) = <<Bit(13, n = 1)>>
  <2>1. /\ Fields!force(n, TRUE) = <<Fields!WriteField(0, 6, 1, n \div 2)>>
                                      \o <<Fields!WriteField(0, 13, 1, n)>>
        /\ Fields!force(n, FALSE) = <<>> \o <<Fields!WriteField(0, 13, 1, n)>>
    BY DEF Fields!force, Fields!Mdio, Fields!Control
  <2>2. /\ Fields!WriteField(0, 6, 1, n \div 2) = Bit(6, n = 2)
        /\ Fields!WriteField(0, 13, 1, n) = Bit(13, n = 1)
    BY <1>3
  <2>3. PICK x, y : x = Bit(6, n = 2) /\ y = Bit(13, n = 1)
    OBVIOUS
  <2>4. Fields!WriteField(0, 6, 1, n \div 2) = x /\ Fields!WriteField(0, 13, 1, n) = y
    BY <2>2, <2>3, Zenon
  <2>5. Fields!force(n, TRUE) = <<x>> \o <<y>> /\ Fields!force(n, FALSE) = <<>> \o <<y>>
    BY <2>1, <2>4, Zenon
  <2>6. Fields!force(n, TRUE) = <<x, y>> /\ Fields!force(n, FALSE) = <<y>>
    BY <1>5, <2>5, Zenon
  <2> QED  BY <2>3, <2>6, Zenon
<1> QED  BY <1>1, <1>2, <1>4, Zenon

\* The accesses of a function that says by itself which PHY it is for.
LEMMA SelectingIs ==
  ASSUME NEW a, NEW M, NEW m \in Nat, IsRow(M, m), NEW s, s = Fields!Selecting(a, M)
  PROVE  /\ IsRow(s, m + 3)
         /\ s[1] = Fields!Save(16) /\ s[2] = Fields!Put(16, Fields!Bits(a))
         /\ \A n \in 1..m : s[n + 2] = M[n]
         /\ s[m + 3] = Fields!Restore(16)
<1> DEFINE h == <<Fields!Save(16), Fields!Put(16, Fields!Bits(a))>>
           t == <<Fields!Restore(16)>>
           u == h \o M
<1>1. s = u \o t
  BY WordNumbers DEF Fields!Selecting
<1>2. IsRow(h, 2) /\ h[1] = Fields!Save(16) /\ h[2] = Fields!Put(16, Fields!Bits(a))
  BY DEF IsRow
<1>3. IsRow(t, 1) /\ t[1] = Fields!Restore(16)
  BY DEF IsRow
<1> HIDE DEF h, t
<1>4. u = [k \in 1..(2 + m) |-> IF k <= 2 THEN h[k] ELSE M[k - 2]]
  BY <1>2, JoinedAre DEF IsRow
<1> HIDE DEF u
<1>5. 2 + m \in Nat /\ 1 \in Nat
  OBVIOUS
<1>6. IsRow(u, 2 + m)
  BY <1>4 DEF IsRow
<1>7. u \o t = [k \in 1..((2 + m) + 1) |-> IF k <= 2 + m THEN u[k] ELSE t[k - (2 + m)]]
  BY <1>3, <1>5, <1>6, JoinedAre DEF IsRow
<1>8. (2 + m) + 1 = m + 3
  OBVIOUS
<1>9. s = [k \in 1..(m + 3) |-> IF k <= 2 + m THEN u[k] ELSE t[k - (2 + m)]]
  BY <1>1, <1>7, <1>8
<1>10. IsRow(s, m + 3)
  BY <1>9 DEF IsRow
<1>11. s[1] = h[1] /\ s[2] = h[2]
  BY <1>4, <1>9
<1>12. ASSUME NEW n \in 1..m PROVE s[n + 2] = M[n]
  <2>1. n + 2 \in 1..(2 + m) /\ n + 2 \in 1..(m + 3) /\ ~(n + 2 <= 2) /\ (n + 2) - 2 = n
    OBVIOUS
  <2>2. u[n + 2] = M[n]
    BY <1>4, <2>1
  <2> QED  BY <1>9, <2>1, <2>2
<1>13. s[m + 3] = t[1]
  <2>1. m + 3 \in 1..(m + 3) /\ ~(m + 3 <= 2 + m) /\ (m + 3) - (2 + m) = 1
    OBVIOUS
  <2> QED  BY <1>9, <2>1
<1> QED  BY <1>2, <1>3, <1>10, <1>11, <1>12, <1>13

\* The accesses M of a call of g, between those to MDIO_ADDR1.
Chosen(g, a, M, m) ==
  Fields!Ops(g, a) = Fields!Selecting(a, M) /\ IsRow(M, m) /\ \A n \in 1..m : FieldOp(M[n])

\* Which accesses are to a field.
LEMMA FieldOps ==
  /\ \A b, on : FieldOp(Bit(b, on))
  /\ \A b, on : on \in BOOLEAN => /\ \A n \in 12..13 : FieldOp(OfferMode(9, b, 15, n, on))
                                  /\ \A n \in 11..15 : FieldOp(OfferMode(4, b, 1, n, on))
<1>1. \A b, on : FieldOp(Bit(b, on))
  BY DEF FieldOp, Bit, SetBits
<1>2. ASSUME NEW b, NEW on \in BOOLEAN, NEW n \in 12..13 PROVE FieldOp(OfferMode(9, b, 15, n, on))
  <2>1. CASE on
    BY <2>1 DEF FieldOp, OfferMode, SetBits
  <2>2. CASE ~on
    BY <2>2 DEF FieldOp, OfferMode, SetBits
  <2> QED  BY <2>1, <2>2
<1>3. ASSUME NEW b, NEW on \in BOOLEAN, NEW n \in 11..15 PROVE FieldOp(OfferMode(4, b, 1, n, on))
  <2>1. CASE on
    BY <2>1 DEF FieldOp, OfferMode, SetBits
  <2>2. CASE ~on
    BY <2>2 DEF FieldOp, OfferMode, SetBits
  <2> QED  BY <2>1, <2>2
<1> QED  BY <1>1, <1>2, <1>3

\* Rows of one, two and three accesses.
LEMMA ShortRows ==
  ASSUME NEW x, NEW y, NEW z
  PROVE  /\ IsRow(<<x>>, 1) /\ (FieldOp(x) => \A n \in 1..1 : FieldOp(<<x>>[n]))
         /\ IsRow(<<x, y>>, 2)
         /\ FieldOp(x) /\ FieldOp(y) => \A n \in 1..2 : FieldOp(<<x, y>>[n])
         /\ IsRow(<<x, y, z>>, 3)
         /\ FieldOp(x) /\ FieldOp(y) /\ FieldOp(z) => \A n \in 1..3 : FieldOp(<<x, y, z>>[n])
BY DEF IsRow

\* The functions, each by its name and parameters.
LEMMA OfPhyAre ==
  ASSUME NEW g \in Fields!OfPhy
  PROVE  \/ \E s \in 0..2, on \in BOOLEAN : g = Fields!Fn("set_adv", s, on)
         \/ \E s \in 0..2, gb \in BOOLEAN : g = Fields!Fn("force", s, gb) /\ (s = 2 => gb)
         \/ g = Fields!Fn("loopback", 0, FALSE) \/ g = Fields!Fn("restart_an", 0, TRUE)
<1> DEFINE S1 == {Fields!Fn("set_adv", s, on) : s \in 0..2, on \in BOOLEAN}
           S2 == {Fields!Fn("force", s, FALSE) : s \in 0..1}
           S4 == {Fields!Fn("force", s, TRUE) : s \in 0..2}
           S3 == {Fields!Fn("loopback", 0, FALSE), Fields!Fn("restart_an", 0, TRUE)}
<1>1. ASSUME NEW x \in S1 PROVE \E s \in 0..2, on \in BOOLEAN : x = Fields!Fn("set_adv", s, on)
  OBVIOUS
<1>2. ASSUME NEW x \in S2
      PROVE  \E s \in 0..2, gb \in BOOLEAN : x = Fields!Fn("force", s, gb) /\ (s = 2 => gb)
  <2>1. PICK s \in 0..1 : x = Fields!Fn("force", s, FALSE)
    OBVIOUS
  <2>2. s \in 0..2 /\ s # 2
    OBVIOUS
  <2> QED  BY <2>1, <2>2
<1>5. ASSUME NEW x \in S4
      PROVE  \E s \in 0..2, gb \in BOOLEAN : x = Fields!Fn("force", s, gb) /\ (s = 2 => gb)
  OBVIOUS
<1>3. CASE g \in S3
  BY <1>3
<1>4. Fields!OfPhy = ((S1 \cup S2) \cup S4) \cup S3
  BY DEF Fields!OfPhy
<1> HIDE DEF S1, S2, S3, S4
<1> QED  BY <1>1, <1>2, <1>3, <1>4, <1>5, Zenon

\* The name and parameters of a call.
LEMMA FnIs == \A name, x, on : /\ Fields!Fn(name, x, on).fn = name
                               /\ Fields!Fn(name, x, on).x = x
                               /\ Fields!Fn(name, x, on).on = on
BY DEF Fields!Fn

\* A call of g is of that form.
Choice(g, a) == \E m \in 1..3 : \E M : Chosen(g, a, M, m)
LEMMA ChosenBy ==
  ASSUME NEW g, NEW a, NEW x, NEW y, NEW z, FieldOp(x)
  PROVE  /\ Fields!Ops(g, a) = Fields!Selecting(a, <<x>>) => Choice(g, a)
         /\ FieldOp(y) /\ Fields!Ops(g, a) = Fields!Selecting(a, <<x, y>>) => Choice(g, a)
         /\ FieldOp(y) /\ FieldOp(z) /\ Fields!Ops(g, a) = Fields!Selecting(a, <<x, y, z>>)
              => Choice(g, a)
<1> 1 \in 1..3 /\ 2 \in 1..3 /\ 3 \in 1..3
  OBVIOUS
<1>1. Fields!Ops(g, a) = Fields!Selecting(a, <<x>>) => Chosen(g, a, <<x>>, 1)
  BY ShortRows DEF Chosen
<1>2. FieldOp(y) /\ Fields!Ops(g, a) = Fields!Selecting(a, <<x, y>>) => Chosen(g, a, <<x, y>>, 2)
  BY ShortRows DEF Chosen
<1>3. FieldOp(y) /\ FieldOp(z) /\ Fields!Ops(g, a) = Fields!Selecting(a, <<x, y, z>>)
        => Chosen(g, a, <<x, y, z>>, 3)
  BY ShortRows DEF Chosen
<1> QED  BY <1>1, <1>2, <1>3 DEF Choice

\* The functions for a PHY by its address are of that form.
LEMMA OpsOfPhy ==
  ASSUME NEW g \in Fields!OfPhy, NEW a
  PROVE  Choice(g, a)
<1>1. ASSUME NEW on \in BOOLEAN, NEW s \in 0..2, g = Fields!Fn("set_adv", s, on)
      PROVE  Choice(g, a)
  <2>1. g.fn = "set_adv" /\ g.x = s /\ g.on = on
    BY <1>1, FnIs
  <2>2. Fields!Ops(g, a) = Fields!Selecting(a, Fields!set_adv(s, on))
    BY <2>1 DEF Fields!Ops
  <2> DEFINE g1 == OfferMode(9, 9, 15, 13, on)
             g2 == OfferMode(9, 8, 15, 12, on)
             h1 == OfferMode(4, 9, 1, 15, on)
             h2 == OfferMode(4, 8, 1, 14, on)
             h3 == OfferMode(4, 7, 1, 13, on)
             t1 == OfferMode(4, 6, 1, 12, on)
             t2 == OfferMode(4, 5, 1, 11, on)
  <2>3. /\ FieldOp(g1) /\ FieldOp(g2) /\ FieldOp(h1) /\ FieldOp(h2) /\ FieldOp(h3)
        /\ FieldOp(t1) /\ FieldOp(t2)
    <3> 13 \in 12..13 /\ 12 \in 12..13 /\ 15 \in 11..15 /\ 14 \in 11..15 /\ 13 \in 11..15
        /\ 12 \in 11..15 /\ 11 \in 11..15
      OBVIOUS
    <3> QED  BY FieldOps
  <2>4. /\ Fields!set_adv(2, on) = <<g1, g2>> /\ Fields!set_adv(1, on) = <<h1, h2, h3>>
        /\ Fields!set_adv(0, on) = <<t1, t2>>
    BY SetAdvIs
  <2> HIDE DEF g1, g2, h1, h2, h3, t1, t2
  <2>5. CASE s = 2
    <3>1. Fields!Ops(g, a) = Fields!Selecting(a, <<g1, g2>>)
      BY <2>2, <2>4, <2>5
    <3> QED  BY <3>1, <2>3, ChosenBy
  <2>6. CASE s = 1
    <3>1. Fields!Ops(g, a) = Fields!Selecting(a, <<h1, h2, h3>>)
      BY <2>2, <2>4, <2>6
    <3> QED  BY <3>1, <2>3, ChosenBy
  <2>7. CASE s = 0
    <3>1. Fields!Ops(g, a) = Fields!Selecting(a, <<t1, t2>>)
      BY <2>2, <2>4, <2>7
    <3> QED  BY <3>1, <2>3, ChosenBy
  <2> QED  BY <2>5, <2>6, <2>7
<1>2. ASSUME NEW gb \in BOOLEAN, NEW s \in 0..2, g = Fields!Fn("force", s, gb)
      PROVE  Choice(g, a)
  <2>1. g.fn = "force" /\ g.x = s /\ g.on = gb
    BY <1>2, FnIs
  <2>2. Fields!Ops(g, a) = Fields!Selecting(a, Fields!force(s, gb))
    BY <2>1 DEF Fields!Ops
  <2> DEFINE m == Bit(6, s = 2)
             l == Bit(13, s = 1)
  <2>3. FieldOp(m) /\ FieldOp(l)
    BY FieldOps
  <2>4. CASE gb = TRUE
    <3>1. Fields!force(s, TRUE) = <<m, l>>
      BY ControlBitsAre
    <3> HIDE DEF m, l
    <3>2. Fields!Ops(g, a) = Fields!Selecting(a, <<m, l>>)
      BY <2>2, <2>4, <3>1
    <3> QED  BY <3>2, <2>3, ChosenBy
  <2>5. CASE gb = FALSE
    <3>1. Fields!force(s, FALSE) = <<l>>
      BY ControlBitsAre
    <3> HIDE DEF m, l
    <3>2. Fields!Ops(g, a) = Fields!Selecting(a, <<l>>)
      BY <2>2, <2>5, <3>1
    <3> QED  BY <3>2, <2>3, ChosenBy
  <2> QED  BY <2>4, <2>5
<1>3. ASSUME g = Fields!Fn("loopback", 0, FALSE) PROVE Choice(g, a)
  <2>1. g.fn = "loopback"
    BY <1>3, FnIs
  <2>2. Fields!Ops(g, a) = Fields!Selecting(a, Fields!loopback)
    BY <2>1 DEF Fields!Ops
  <2> DEFINE l == Bit(14, FALSE)
  <2>3. FieldOp(l) /\ Fields!loopback = <<l>>
    BY FieldOps, ControlBitsAre
  <2> HIDE DEF l
  <2> QED  BY <2>2, <2>3, ChosenBy
<1>4. ASSUME g = Fields!Fn("restart_an", 0, TRUE) PROVE Choice(g, a)
  <2>1. g.fn = "restart_an"
    BY <1>4, FnIs
  <2>2. Fields!Ops(g, a) = Fields!Selecting(a, Fields!restart_an)
    BY <2>1 DEF Fields!Ops
  <2> DEFINE e == Bit(12, TRUE)
             r == Bit(9, TRUE)
  <2>3. FieldOp(e) /\ FieldOp(r) /\ Fields!restart_an = <<e, r>>
    BY FieldOps, ControlBitsAre
  <2> HIDE DEF e, r
  <2> QED  BY <2>2, <2>3, ChosenBy
<1> QED  BY <1>1, <1>2, <1>3, <1>4, OfPhyAre

\* The words of the registers of a PHY that profiles write.
LEMMA MdioWords ==
  /\ Fields!mdio1(0) = 160 /\ Fields!mdio1(1) = 161 /\ Fields!mdio1(20) = 180
  /\ Fields!mdio1(27) = 187
<1> 0 \in 0..31 /\ 1 \in 0..31 /\ 20 \in 0..31 /\ 27 \in 0..31
  OBVIOUS
<1>1. /\ Fields!mdio1(0) = 160 + 0 /\ Fields!mdio1(1) = 160 + 1
      /\ Fields!mdio1(20) = 160 + 20 /\ Fields!mdio1(27) = 160 + 27
  BY WordNumbers
<1> QED  BY <1>1

\* The functions that get the registers of the MAC and not the address of the PHY.
LEMMA MarvellCfgIs ==
  ASSUME NEW mode, NEW timing \in BOOLEAN
  PROVE  Fields!marvell_cfg(mode, timing) =
           <<SetBits(187, 0..3, Fields!Bits(mode), <<0, 0>>),
             SetBits(180, {1, 7}, IF timing THEN {1, 7} ELSE {}, <<0, 0>>),
             SetBits(160, {}, {15}, <<0, 0>>)>>
BY MdioWords DEF Fields!marvell_cfg, Fields!Set, Fields!Op, Fields!NoCap, SetBits,
  Fields!phy_reset, Fields!PCS_CTL_sw_reset, Fields!Mdio

\* The accesses of PEF7071_config.
LEMMA Pef7071Is ==
  Fields!PEF7071_config = <<SetBits(180, {14, 15}, {8}, <<0, 0>>)>>
BY MdioWords DEF Fields!PEF7071_config, Fields!Set, Fields!Op, Fields!NoCap, SetBits

\* The accesses of marvell_phy_cfg.
LEMMA MarvellPhyCfgIs ==
  Fields!marvell_phy_cfg =
    <<Fields!Unless(161, {5}), Fields!Put(176, Fields!Bits(120)),
      SetBits(160, {}, {15}, <<0, 0>>)>>
<1>1. Fields!mdio1(0) + 16 = 176
  BY MdioWords
<1> QED  BY <1>1, MdioWords DEF Fields!marvell_phy_cfg, Fields!Set, Fields!Op, Fields!NoCap,
  SetBits, Fields!phy_reset, Fields!PCS_CTL_sw_reset, Fields!PCS_ST_an_done, Fields!Mdio

\* The functions for the PHY that is selected.
LEMMA OfAddressAre ==
  ASSUME NEW g \in Fields!OfAddress
  PROVE  \/ g.fn = "marvell_phy_cfg" /\ g.on = TRUE
         \/ g.fn = "PEF7071_config" /\ g.on = TRUE
         \/ g.fn = "marvell_cfg" /\ g.on = FALSE /\ g.x = 15
         \/ g.fn = "marvell_cfg" /\ g.on = FALSE /\ g.x = 4
         \/ g.fn = "marvell_cfg" /\ g.on = TRUE /\ g.x = 11
BY DEF Fields!OfAddress, Fields!Fn

\* Their accesses are all to that PHY.
MarvellOp(o) == o.do \in {"unless", "put", "set"} /\ o.word \in 160..191
LEMMA OpsOfAddress ==
  ASSUME NEW g \in Fields!OfAddress, NEW a
  PROVE  /\ \E m \in 1..3 : /\ IsRow(Fields!Ops(g, a), m)
                            /\ \A n \in 1..m : MarvellOp(Fields!Ops(g, a)[n])
                            /\ g.fn # "marvell_phy_cfg" => \A n \in 1..m : FieldOp(Fields!Ops(g, a)[n])
<1> DEFINE Right(s, m) == /\ IsRow(s, m) /\ \A n \in 1..m : MarvellOp(s[n])
                          /\ g.fn # "marvell_phy_cfg" => \A n \in 1..m : FieldOp(s[n])
<1> 1 \in 1..3 /\ 3 \in 1..3
  OBVIOUS
<1>1. CASE g.fn = "marvell_phy_cfg"
  <2>1. Fields!Ops(g, a) = Fields!marvell_phy_cfg
    BY <1>1 DEF Fields!Ops
  <2>2. Right(Fields!marvell_phy_cfg, 3)
    BY <1>1, MarvellPhyCfgIs DEF IsRow, MarvellOp, SetBits, Fields!Unless, Fields!Put, Fields!Op
  <2> HIDE DEF Right
  <2>3. \E m \in 1..3 : Right(Fields!Ops(g, a), m)
    BY <2>1, <2>2
  <2> QED  BY <2>3 DEF Right
<1>2. CASE g.fn = "PEF7071_config"
  <2>1. Fields!Ops(g, a) = Fields!PEF7071_config
    BY <1>2 DEF Fields!Ops
  <2>2. Right(Fields!PEF7071_config, 1)
    BY Pef7071Is DEF IsRow, MarvellOp, FieldOp, SetBits
  <2> HIDE DEF Right
  <2>3. \E m \in 1..3 : Right(Fields!Ops(g, a), m)
    BY <2>1, <2>2
  <2> QED  BY <2>3 DEF Right
<1>3. CASE g.fn = "marvell_cfg"
  <2>1. Fields!Ops(g, a) = Fields!marvell_cfg(g.x, g.on) /\ g.on \in BOOLEAN
    BY <1>3, OfAddressAre DEF Fields!Ops
  <2>2. PICK mode, timing : Fields!Ops(g, a) = Fields!marvell_cfg(mode, timing) /\ timing \in BOOLEAN
    BY <2>1
  <2> DEFINE s == Fields!marvell_cfg(mode, timing)
  <2>3. IsRow(s, 3)
    BY <2>2, MarvellCfgIs DEF IsRow
  <2>4. /\ s[1] = SetBits(187, 0..3, Fields!Bits(mode), <<0, 0>>)
        /\ s[2] = SetBits(180, {1, 7}, IF timing THEN {1, 7} ELSE {}, <<0, 0>>)
        /\ s[3] = SetBits(160, {}, {15}, <<0, 0>>)
    BY <2>2, MarvellCfgIs
  <2>5. \A n \in 1..3 : MarvellOp(s[n]) /\ FieldOp(s[n])
    <3>1. MarvellOp(s[1]) /\ FieldOp(s[1])
      BY <2>4 DEF MarvellOp, FieldOp, SetBits
    <3>2. MarvellOp(s[2]) /\ FieldOp(s[2])
      BY <2>4 DEF MarvellOp, FieldOp, SetBits
    <3>3. MarvellOp(s[3]) /\ FieldOp(s[3])
      BY <2>4 DEF MarvellOp, FieldOp, SetBits
    <3>4. \A n \in 1..3 : n = 1 \/ n = 2 \/ n = 3
      OBVIOUS
    <3> QED  BY <3>1, <3>2, <3>3, <3>4
  <2> HIDE DEF s
  <2>6. Right(s, 3)
    BY <2>3, <2>5
  <2> HIDE DEF Right
  <2>7. \E m \in 1..3 : Right(Fields!Ops(g, a), m)
    BY <2>2, <2>6 DEF s
  <2> QED  BY <2>7 DEF Right
<1> QED  BY <1>1, <1>2, <1>3, OfAddressAre

\* The functions for the MAC.
LEMMA OfMacAre ==
  ASSUME NEW g \in Fields!OfMac
  PROVE  \/ g.fn = "set_speed" /\ g.x \in 0..2
         \/ g.fn = "SwReset"
         \/ g.fn \in {"set_duplex", "setMode", "cfg_pcs"} /\ g.on \in BOOLEAN
<1> DEFINE S1 == {Fields!Fn("set_speed", s, TRUE) : s \in 0..2}
           S2 == {Fields!Fn("SwReset", 0, TRUE)}
           S3 == {Fields!Fn(name, 0, on) : name \in {"set_duplex", "setMode", "cfg_pcs"}, on \in BOOLEAN}
<1>1. \A x \in S1 : x.fn = "set_speed" /\ x.x \in 0..2
  BY DEF Fields!Fn
<1>2. \A x \in S2 : x.fn = "SwReset"
  BY DEF Fields!Fn
<1>3. \A x \in S3 : x.fn \in {"set_duplex", "setMode", "cfg_pcs"} /\ x.on \in BOOLEAN
  <2>1. ASSUME NEW x \in S3
        PROVE  \E name \in {"set_duplex", "setMode", "cfg_pcs"}, on \in BOOLEAN : x = Fields!Fn(name, 0, on)
    OBVIOUS
  <2> QED  BY <2>1, FnIs
<1>4. Fields!OfMac = (S1 \cup S2) \cup S3
  BY DEF Fields!OfMac
<1> HIDE DEF S1, S2, S3
<1> QED  BY <1>1, <1>2, <1>3, <1>4

\* Their accesses are to COMMAND_CONFIG or to the PCS.
MacOp(o) == o.do \in {"set", "put", "save", "brief", "restore"} /\ o.word \in {2, 148}
LEMMA OpsOfMac ==
  ASSUME NEW g \in Fields!OfMac, NEW a
  PROVE  \E m \in 1..4 : IsRow(Fields!Ops(g, a), m) /\ \A n \in 1..m : MacOp(Fields!Ops(g, a)[n])
<1> DEFINE Right(s, m) == IsRow(s, m) /\ \A n \in 1..m : MacOp(s[n])
<1> 1 \in 1..4 /\ 4 \in 1..4
  OBVIOUS
<1>0. Fields!CMD_CONFIG = 2 /\ Fields!Field("mdio0", 0) + Fields!ALTERA_TSE_PCS_IF_MODE = 148
  BY WordNumbers DEF Fields!ALTERA_TSE_PCS_IF_MODE
<1>1. \A c, d : Right(<<Fields!Set(2, c, d)>>, 1) /\ Right(<<Fields!Set(148, c, d)>>, 1)
  BY DEF IsRow, MacOp, Fields!Set, Fields!Op
<1>2. Right(Fields!SwReset, 4)
  <2>1. \A c, d : Right(<<Fields!Save(2), Fields!Put(2, c), Fields!Brief(2, d), Fields!Restore(2)>>, 4)
    BY DEF IsRow, MacOp, Fields!Save, Fields!Put, Fields!Brief, Fields!Restore, Fields!Op
  <2> QED  BY <1>0, <2>1 DEF Fields!SwReset
<1> HIDE DEF Right
<1>3. \A x : Right(Fields!set_speed(x), 1)
  <2> TAKE x
  <2> DEFINE d == CASE x = 2 -> {Fields!Cmd.ETH_SPEED} [] x = 1 -> {} [] x = 0 -> {Fields!Cmd.ENA_10}
             c == {Fields!Cmd.ETH_SPEED, Fields!Cmd.ENA_10}
  <2>1. Fields!set_speed(x) = <<Fields!Set(2, c, d)>>
    BY <1>0 DEF Fields!set_speed
  <2> HIDE DEF c, d
  <2> QED  BY <2>1, <1>1
<1>4. \A x : Right(Fields!set_duplex(x), 1)
  <2> TAKE x
  <2> DEFINE d == IF x THEN {} ELSE {Fields!Cmd.HD_ENA}
             c == {Fields!Cmd.HD_ENA}
  <2>1. Fields!set_duplex(x) = <<Fields!Set(2, c, d)>>
    BY <1>0 DEF Fields!set_duplex
  <2> HIDE DEF c, d
  <2> QED  BY <2>1, <1>1
<1>5. Right(Fields!setMIImode, 1) /\ Right(Fields!setGMIImode, 1)
  <2> DEFINE c == {Fields!Cmd.ETH_SPEED}
  <2>1. Fields!setMIImode = <<Fields!Set(2, c, {})>> /\ Fields!setGMIImode = <<Fields!Set(2, {}, c)>>
    BY <1>0 DEF Fields!setMIImode, Fields!setGMIImode
  <2> HIDE DEF c
  <2> QED  BY <2>1, <1>1
<1>6. \A x : Right(Fields!cfg_pcs(x), 1)
  BY <1>0, <1>1 DEF Fields!cfg_pcs
<1>7. \E m \in 1..4 : Right(Fields!Ops(g, a), m)
  <2>1. CASE g.fn = "set_speed"
    BY <2>1, <1>3 DEF Fields!Ops
  <2>2. CASE g.fn = "SwReset"
    BY <2>2, <1>2 DEF Fields!Ops
  <2>3. CASE g.fn = "set_duplex"
    BY <2>3, <1>4 DEF Fields!Ops
  <2>4. CASE g.fn = "cfg_pcs"
    BY <2>4, <1>6 DEF Fields!Ops
  <2>5. CASE g.fn = "setMode"
    <3>1. Fields!Ops(g, a) = IF g.on THEN Fields!setGMIImode ELSE Fields!setMIImode
      BY <2>5 DEF Fields!Ops
    <3> QED  BY <3>1, <1>5
  <2> QED  BY <2>1, <2>2, <2>3, <2>4, <2>5, OfMacAre
<1> QED  BY <1>7 DEF Right

\* The accesses of tse_init.
InitOp(o) ==
  /\ o.do \in {"put", "await", "set", "clear", "holds"} /\ o.word \in (2..15) \cup {23, 58}
  /\ o.cap = <<0, 0>>
  /\ o.do # "put" => o.word = 2
  /\ o.word = 3 => o.bits = Fields!BitsOfBytes(<<222, 173, 190, 239>>)
  /\ o.word = 4 => o.bits = Fields!BitsOfBytes(<<202, 254, 0, 0>>)
  /\ o.word = 5 => o.bits = Fields!Bits(1280 + 54)
  /\ o.word \in {7, 9} => o.bits = Fields!Bits(128 - 16)
LEMMA OpsOfInit ==
  /\ IsRow(Fields!tse_init, 23)
  /\ \A n \in 1..23 : InitOp(Fields!tse_init[n])
  /\ \A n \in 1..20 : Fields!tse_init[n].word = 2 /\ Fields!tse_init[n].do \in {"put", "set"}
        => Fields!tse_init[n].bits \cap {0, 1} = {}
  /\ Fields!tse_init[4].do = "put" /\ Fields!tse_init[4].word = 9
  /\ Fields!tse_init[7].do = "put" /\ Fields!tse_init[7].word = 7
  /\ Fields!tse_init[12].do = "put" /\ Fields!tse_init[12].word = 3
  /\ Fields!tse_init[13].do = "put" /\ Fields!tse_init[13].word = 4
  /\ Fields!tse_init[14].do = "put" /\ Fields!tse_init[14].word = 5
<1> DEFINE s == Fields!tse_init
<1>1. IsRow(s, 23)
  BY DEF Fields!tse_init, IsRow
<1>2. /\ s[1] = Fields!Put(15, {}) /\ s[2] = Fields!Put(2, Fields!Off)
      /\ s[3] = Fields!Await(2, Fields!Off) /\ s[4] = Fields!Put(9, Fields!Bits(128 - 16))
      /\ s[5] = Fields!Put(14, Fields!Bits(3)) /\ s[6] = Fields!Put(13, Fields!Bits(8))
      /\ s[7] = Fields!Put(7, Fields!Bits(128 - 16)) /\ s[8] = Fields!Put(12, Fields!Bits(8))
      /\ s[9] = Fields!Put(11, Fields!Bits(8)) /\ s[10] = Fields!Put(10, {})
      /\ s[11] = Fields!Put(8, {})
  BY DEF Fields!tse_init, Fields!FIFO_DEPTH
<1>3. /\ s[12] = Fields!Put(3, Fields!BitsOfBytes(<<222, 173, 190, 239>>))
      /\ s[13] = Fields!Put(4, Fields!BitsOfBytes(<<202, 254, 0, 0>>))
      /\ s[14] = Fields!Put(5, Fields!Bits(1280 + 54)) /\ s[15] = Fields!Put(23, Fields!Bits(12))
      /\ s[16] = Fields!Put(6, 0..15) /\ s[17] = Fields!Put(2, Fields!Off)
      /\ s[18] = Fields!Await(2, Fields!Off)
      /\ s[19] = Fields!Set(2, {}, {13}) /\ s[20] = Fields!Clear(2, {13})
      /\ s[21] = Fields!Set(2, {}, Fields!On) /\ s[22] = Fields!Holds(2, Fields!On)
      /\ s[23] = Fields!Put(58, {})
  BY DEF Fields!tse_init
<1> HIDE DEF s
<1>4. \A n \in 1..23 :
        \/ n = 1 \/ n = 2 \/ n = 3 \/ n = 4 \/ n = 5 \/ n = 6 \/ n = 7 \/ n = 8 \/ n = 9 \/ n = 10
        \/ n = 11 \/ n = 12 \/ n = 13 \/ n = 14 \/ n = 15 \/ n = 16 \/ n = 17 \/ n = 18 \/ n = 19
        \/ n = 20 \/ n = 21 \/ n = 22 \/ n = 23
  OBVIOUS
<1> USE DEF Fields!Put, Fields!Await, Fields!Set, Fields!Clear, Fields!Holds, Fields!Op, Fields!NoCap
<1>5. /\ InitOp(s[1]) /\ InitOp(s[2]) /\ InitOp(s[3]) /\ InitOp(s[4]) /\ InitOp(s[5])
      /\ InitOp(s[6]) /\ InitOp(s[7]) /\ InitOp(s[8]) /\ InitOp(s[9]) /\ InitOp(s[10])
      /\ InitOp(s[11])
  BY <1>2 DEF InitOp
<1>6. /\ InitOp(s[12]) /\ InitOp(s[13]) /\ InitOp(s[14]) /\ InitOp(s[15]) /\ InitOp(s[16])
      /\ InitOp(s[17]) /\ InitOp(s[18]) /\ InitOp(s[19]) /\ InitOp(s[20]) /\ InitOp(s[21])
      /\ InitOp(s[22]) /\ InitOp(s[23])
  BY <1>3 DEF InitOp
<1>7. ASSUME NEW n \in 1..23 PROVE InitOp(s[n])
  <2> HIDE DEF InitOp
  <2> QED  BY <1>4, <1>5, <1>6
<1>8. ASSUME NEW n \in 1..20, s[n].word = 2, s[n].do \in {"put", "set"}
      PROVE  s[n].bits \cap {0, 1} = {}
  <2>1. n \in {2, 17, 19}
    BY <1>2, <1>3, <1>4, <1>8
  <2>2. s[2].bits = Fields!Off /\ s[17].bits = Fields!Off /\ s[19].bits = {13}
    BY <1>2, <1>3
  <2>3. Fields!Off \cap {0, 1} = {}
    BY DEF Fields!Off
  <2> QED  BY <2>1, <2>2, <2>3
<1>9. /\ s[4].do = "put" /\ s[4].word = 9 /\ s[7].do = "put" /\ s[7].word = 7
      /\ s[12].do = "put" /\ s[12].word = 3 /\ s[13].do = "put" /\ s[13].word = 4
      /\ s[14].do = "put" /\ s[14].word = 5
  BY <1>2, <1>3
<1> QED  BY <1>1, <1>7, <1>8, <1>9 DEF s

\* The kinds of functions are apart.
LEMMA KindsApart ==
  ASSUME NEW g
  PROVE  /\ g \in Fields!OfPhy => g.fn \in {"set_adv", "force", "loopback", "restart_an"}
         /\ g \in Fields!OfAddress => g.fn \in {"marvell_phy_cfg", "PEF7071_config", "marvell_cfg"}
         /\ g \in Fields!OfMac => g.fn \in {"set_speed", "SwReset", "set_duplex", "setMode", "cfg_pcs"}
         /\ g = TseUp => g.fn = "tse_init"
<1>1. g \in Fields!OfPhy => g.fn \in {"set_adv", "force", "loopback", "restart_an"}
  <2> SUFFICES ASSUME g \in Fields!OfPhy
               PROVE  g.fn \in {"set_adv", "force", "loopback", "restart_an"}
    OBVIOUS
  <2>1. ASSUME NEW s \in 0..2, NEW on \in BOOLEAN, g = Fields!Fn("set_adv", s, on)
        PROVE  g.fn = "set_adv"
    BY <2>1, FnIs
  <2>2. ASSUME NEW s \in 0..2, NEW gb \in BOOLEAN, g = Fields!Fn("force", s, gb)
        PROVE  g.fn = "force"
    BY <2>2, FnIs
  <2>3. g = Fields!Fn("loopback", 0, FALSE) => g.fn = "loopback"
    BY DEF Fields!Fn
  <2>4. g = Fields!Fn("restart_an", 0, TRUE) => g.fn = "restart_an"
    BY DEF Fields!Fn
  <2> QED  BY <2>1, <2>2, <2>3, <2>4, OfPhyAre
<1>2. g \in Fields!OfAddress => g.fn \in {"marvell_phy_cfg", "PEF7071_config", "marvell_cfg"}
  BY OfAddressAre
<1>3. g \in Fields!OfMac => g.fn \in {"set_speed", "SwReset", "set_duplex", "setMode", "cfg_pcs"}
  BY OfMacAre
<1>4. g = TseUp => g.fn = "tse_init"
  BY DEF TseUp, Fields!Fn
<1> QED  BY <1>1, <1>2, <1>3, <1>4

\* The access number n of the running function, o.
SelectingOp(o, n) ==
  \E m \in 1..3 : /\ Len(Body) = m + 3
                  /\ n = 1 => o = Fields!Save(16)
                  /\ n = 2 => o = Fields!Put(16, Fields!Bits(who))
                  /\ n \in 3..(m + 2) => FieldOp(o)
                  /\ n = m + 3 => o = Fields!Restore(16)
LEMMA BodyIs ==
  ASSUME CallOk
  PROVE  /\ Len(Body) \in 1..23 /\ IsRow(Body, Len(Body))
         /\ function \in Fields!OfPhy => /\ Len(Body) \in 4..6
                                         /\ \A n \in 1..Len(Body) : SelectingOp(Body[n], n)
         /\ function \in Fields!OfAddress =>
              /\ Len(Body) \in 1..3 /\ \A n \in 1..Len(Body) : MarvellOp(Body[n])
              /\ function.fn # "marvell_phy_cfg" => \A n \in 1..Len(Body) : FieldOp(Body[n])
         /\ function \in Fields!OfMac => \A n \in 1..Len(Body) : MacOp(Body[n])
         /\ function = TseUp => Body = Fields!tse_init /\ Len(Body) = 23
<1>1. CASE function \in Fields!OfPhy
  <2>1. Body = Fields!Ops(function, who) /\ function \notin Fields!OfAddress
        /\ function \notin Fields!OfMac /\ function # TseUp
    BY <1>1, KindsApart DEF Body
  <2>2. PICK m \in 1..3 : \E M : Chosen(function, who, M, m)
    BY <1>1, OpsOfPhy DEF Choice
  <2>3. PICK M : Chosen(function, who, M, m)
    BY <2>2
  <2>4. Body = Fields!Selecting(who, M) /\ IsRow(M, m) /\ \A n \in 1..m : FieldOp(M[n])
    BY <2>1, <2>3 DEF Chosen
  <2> DEFINE s == Body
  <2>5. /\ IsRow(s, m + 3)
        /\ s[1] = Fields!Save(16) /\ s[2] = Fields!Put(16, Fields!Bits(who))
        /\ \A n \in 1..m : s[n + 2] = M[n]
        /\ s[m + 3] = Fields!Restore(16)
    <3> m \in Nat
      OBVIOUS
    <3> QED  BY <2>4, SelectingIs
  <2>6. m + 3 \in Nat /\ m + 3 \in 4..6 /\ m + 3 \in 1..23
    OBVIOUS
  <2>7. Len(s) = m + 3
    BY <2>5, <2>6, RowIs
  <2>8. ASSUME NEW n \in 3..(m + 2) PROVE FieldOp(s[n])
    <3>1. n - 2 \in 1..m /\ (n - 2) + 2 = n
      OBVIOUS
    <3>2. s[(n - 2) + 2] = M[n - 2]
      BY <2>5, <3>1
    <3> QED  BY <2>4, <3>1, <3>2
  <2>9. ASSUME NEW n \in 1..Len(s) PROVE SelectingOp(s[n], n)
    <3> HIDE DEF s
    <3> QED  BY <2>5, <2>7, <2>8 DEF SelectingOp, s
  <2> QED  BY <1>1, <2>1, <2>5, <2>6, <2>7, <2>9
<1>2. CASE function \in Fields!OfAddress
  <2>1. Body = Fields!Ops(function, who) /\ function \notin Fields!OfPhy
        /\ function \notin Fields!OfMac /\ function # TseUp
    BY <1>2, KindsApart DEF Body
  <2>2. PICK m \in 1..3 : /\ IsRow(Body, m) /\ \A n \in 1..m : MarvellOp(Body[n])
                          /\ function.fn # "marvell_phy_cfg" => \A n \in 1..m : FieldOp(Body[n])
    BY <1>2, <2>1, OpsOfAddress
  <2>3. Len(Body) = m
    <3> m \in Nat
      OBVIOUS
    <3> QED  BY <2>2, RowIs
  <2>4. m \in 1..23
    OBVIOUS
  <2> QED  BY <1>2, <2>1, <2>2, <2>3, <2>4
<1>3. CASE function \in Fields!OfMac
  <2>1. Body = Fields!Ops(function, who) /\ function \notin Fields!OfPhy
        /\ function \notin Fields!OfAddress /\ function # TseUp
    BY <1>3, KindsApart DEF Body
  <2>2. PICK m \in 1..4 : IsRow(Body, m) /\ \A n \in 1..m : MacOp(Body[n])
    BY <1>3, <2>1, OpsOfMac
  <2>3. Len(Body) = m
    <3> m \in Nat
      OBVIOUS
    <3> QED  BY <2>2, RowIs
  <2>4. m \in 1..23
    OBVIOUS
  <2> QED  BY <1>3, <2>1, <2>2, <2>3, <2>4
<1>4. CASE function = TseUp
  <2>1. Body = Fields!tse_init /\ function \notin Fields!OfPhy
        /\ function \notin Fields!OfAddress /\ function \notin Fields!OfMac
    BY <1>4, KindsApart DEF Body
  <2>2. Len(Fields!tse_init) = 23 /\ IsRow(Fields!tse_init, 23)
    BY OpsOfInit, RowIs
  <2> QED  BY <1>4, <2>1, <2>2
<1> QED  BY <1>1, <1>2, <1>3, <1>4 DEF CallOk

\* The access that is made next.
LEMMA NextOp ==
  ASSUME CallOk, NEW j \in 0..Len(Body), todo = Behind(Body, j), todo # <<>>
  PROVE  /\ j \in 0..(Len(Body) - 1) /\ j + 1 \in 0..Len(Body) /\ j + 1 \in 1..Len(Body)
         /\ Fields!op = Body[j + 1] /\ Tail(todo) = Behind(Body, j + 1)
<1>1. Len(Body) \in Nat /\ IsRow(Body, Len(Body))
  BY BodyIs
<1>2. j # Len(Body)
  BY <1>1, BehindIs
<1>3. j \in 0..(Len(Body) - 1)
  BY <1>1, <1>2
<1>4. Head(todo) = Body[j + 1] /\ Tail(todo) = Behind(Body, j + 1)
  BY <1>1, <1>3, BehindIs
<1> QED  BY <1>1, <1>3, <1>4 DEF Fields!op

\* What a write does.
LEMMA WriteIs ==
  ASSUME NEW w, NEW bits, Fields!Write(w, bits)
  PROVE  /\ w \in 160..191 =>
              /\ mac_registers' = mac_registers
              /\ phy_registers' =
                   IF Fields!Selected \in Populated /\ w - 160 \notin {1, 15}
                     THEN [phy_registers EXCEPT ![Fields!Selected][w - 160] = bits] ELSE phy_registers
         /\ w = 148 => mac_registers' = mac_registers /\ phy_registers' = phy_registers
         /\ w \in (2..16) \cup {23, 58} =>
              /\ phy_registers' = phy_registers
              /\ mac_registers' = [mac_registers EXCEPT ![Fields!Decode(w)[1]] = bits]
<1>1. ASSUME w \in 160..191
      PROVE  /\ mac_registers' = mac_registers
             /\ phy_registers' =
                  IF Fields!Selected \in Populated /\ w - 160 \notin {1, 15}
                    THEN [phy_registers EXCEPT ![Fields!Selected][w - 160] = bits] ELSE phy_registers
  <2>1. w - 160 \in 0..31 /\ 160 + (w - 160) = w
    BY <1>1
  <2>2. Fields!Decode(w) = <<"mdio1", w - 160>>
    BY <2>1, RegisterOf
  <2>3. Fields!Decode(w)[1] = "mdio1" /\ Fields!Decode(w)[2] = w - 160
    BY <2>2
  <2>4. Fields!ReadOnly = {1, 15}
    BY DEF Fields!ReadOnly, Fields!Mdio
  <2> QED  BY <2>3, <2>4 DEF Fields!Write
<1>2. ASSUME w = 148 PROVE mac_registers' = mac_registers /\ phy_registers' = phy_registers
  <2>1. Fields!Decode(w)[1] = "mdio0"
    BY <1>2, RegisterOf
  <2> QED  BY <2>1 DEF Fields!Write
<1>3. ASSUME w \in (2..16) \cup {23, 58}
      PROVE  /\ phy_registers' = phy_registers
             /\ mac_registers' = [mac_registers EXCEPT ![Fields!Decode(w)[1]] = bits]
  <2>1. Fields!Decode(w)[1] \notin {"mdio0", "mdio1"}
    <3>1. CASE w \in 2..16
      <4>1. Fields!Decode(w) = Fields!Config[w + 1] /\ w + 1 \in 1..17
        BY <3>1, DecodeConfig
      <4> QED  BY <4>1, NamesOfRows
    <3>2. CASE w = 23 \/ w = 58
      BY <3>2, RegisterOf
    <3> QED  BY <1>3, <3>1, <3>2
  <2> QED  BY <2>1 DEF Fields!Write
<1> QED  BY <1>1, <1>2, <1>3

\* The assumptions on the constants, as facts.
LEMMA SetUpAssumed == SystemAssumption /\ SetUpAssumption
BY SystemAssumption, SetUpAssumption
LEMMA AddressesAre ==
  Populated \subseteq 0..31 /\ -1 \notin Populated
BY SetUpAssumed DEF SetUpAssumption, Fields!MdioAssumption

\* The words that a function accesses.
UsedWords == ((2..16) \cup {23, 58, 148}) \cup (160..191)
LEMMA UsedWordsAre ==
  ASSUME CallOk, NEW n \in 1..Len(Body)
  PROVE  Body[n].word \in UsedWords
<1>1. CASE function \in Fields!OfPhy
  <2>1. SelectingOp(Body[n], n)
    BY <1>1, BodyIs
  <2>2. \A o : FieldOp(o) => o.word \in UsedWords
    BY DEF FieldOp, UsedWords
  <2>3. /\ Fields!Save(16).word = 16 /\ Fields!Put(16, Fields!Bits(who)).word = 16
        /\ Fields!Restore(16).word = 16
    BY DEF Fields!Save, Fields!Put, Fields!Restore, Fields!Op
  <2>4. 16 \in UsedWords
    BY DEF UsedWords
  <2> QED  BY <2>1, <2>2, <2>3, <2>4 DEF SelectingOp
<1>2. CASE function \in Fields!OfAddress
  BY <1>2, BodyIs DEF MarvellOp, UsedWords
<1>3. CASE function \in Fields!OfMac
  BY <1>3, BodyIs DEF MacOp, UsedWords
<1>4. CASE function = TseUp
  <2>1. InitOp(Body[n])
    BY <1>4, BodyIs, OpsOfInit
  <2> QED  BY <2>1 DEF InitOp, UsedWords
<1> QED  BY <1>1, <1>2, <1>3, <1>4 DEF CallOk

\* A write changes a register and adds none.
LEMMA RegistersWritten ==
  ASSUME RegistersOk, NEW w \in UsedWords, NEW bits, Fields!Write(w, bits)
  PROVE  RegistersOk'
<1>1. mac_registers' = [r \in MacNames |-> mac_registers'[r]]
  <2>1. CASE w \in (2..16) \cup {23, 58}
    BY <2>1, WriteIs DEF RegistersOk
  <2>2. CASE w \notin (2..16) \cup {23, 58}
    BY <2>2, WriteIs DEF RegistersOk, UsedWords
  <2> QED  BY <2>1, <2>2
<1>2. CASE phy_registers' = phy_registers
  BY <1>1, <1>2 DEF RegistersOk
<1>3. CASE /\ Fields!Selected \in Populated /\ w - 160 \notin {1, 15}
           /\ phy_registers' = [phy_registers EXCEPT ![Fields!Selected][w - 160] = bits]
  <2> DEFINE s == Fields!Selected
             p == phy_registers
             k == w - 160
  <2>1. p = [a \in Populated |-> p[a]] /\ s \in Populated /\ k # 1 /\ k # 15
        /\ \A a \in Populated : p[a] = [n \in Fields!Numbers |-> p[a][n]]
    BY <1>3 DEF RegistersOk
  <2>2. p' = [p EXCEPT ![s][k] = bits]
    BY <1>3
  <2> HIDE DEF s, p, k
  <2>3. p' = [a \in Populated |-> IF a = s THEN [p[a] EXCEPT ![k] = bits] ELSE p[a]]
    BY <2>1, <2>2
  <2>4. p' = [a \in Populated |-> p'[a]]
    BY <2>3
  <2>5. ASSUME NEW a \in Populated
        PROVE  /\ p'[a] = [n \in Fields!Numbers |-> p'[a][n]]
               /\ p'[a][1] = p[a][1] /\ p'[a][15] = p[a][15]
    <3>1. 1 \in Fields!Numbers /\ 15 \in Fields!Numbers
      BY DEF Fields!Numbers
    <3>2. CASE a = s
      <4>1. p'[a] = [p[a] EXCEPT ![k] = bits]
        BY <2>3, <3>2
      <4>2. p[a] = [n \in Fields!Numbers |-> p[a][n]]
        BY <2>1
      <4> QED  BY <4>1, <4>2, <2>1, <3>1
    <3>3. CASE a # s
      BY <2>1, <2>3, <3>3
    <3> QED  BY <3>2, <3>3
  <2> QED  BY <1>1, <2>4, <2>5 DEF RegistersOk, p
<1> QED  BY <1>2, <1>3, WriteIs DEF UsedWords

\* The running function writes `bits', by its access number j + 1, which is o.
Made(j, o, bits) ==
  /\ o = Body[j + 1] /\ Fields!Write(o.word, bits) /\ o.do \in {"set", "put", "restore"}
  /\ o.do = "put" => bits = o.bits
  /\ o.do = "set" => loaded = TRUE /\ bits = (temp \ o.clear) \cup Fields!Value /\ Fields!op = o
  /\ o.do = "restore" => bits = saved
  /\ o.do # "restore" => saved' = saved
  /\ function' = function /\ who' = who /\ addr1' = addr1 /\ before' = before
  /\ disturbed' = disturbed

\* A function that goes on has the same accesses.
LEMMA BodyStays ==
  ASSUME function' = function, who' = who PROVE Body' = Body
BY DEF Body

\* MDIO_ADDR1 after an access that writes.
LEMMA SelectsMade ==
  ASSUME RegistersOk, CallOk, NEW j \in 0..(Len(Body) - 1), Selects(j), NEW o, NEW bits, Made(j, o, bits)
  PROVE  Selects(j + 1)'
<1> DEFINE L == Len(Body)
<1>0. Body' = Body /\ L \in Nat /\ j + 1 \in 1..L
  BY BodyStays, BodyIs DEF Made
<1>1. CASE function \in Fields!OfPhy
  <2>1. SelectingOp(o, j + 1) /\ L \in 4..6
    BY <1>0, <1>1, BodyIs DEF Made
  <2>2. PICK m \in 1..3 : /\ L = m + 3
                          /\ j + 1 = 1 => o = Fields!Save(16)
                          /\ j + 1 = 2 => o = Fields!Put(16, Fields!Bits(who))
                          /\ j + 1 \in 3..(m + 2) => FieldOp(o)
                          /\ j + 1 = m + 3 => o = Fields!Restore(16)
    BY <2>1 DEF SelectingOp
  <2>3. j # 0
    BY <2>2 DEF Made, Fields!Save, Fields!Op
  <2>4. CASE j = 1
    <3>1. o.do = "put" /\ o.word = 16 /\ o.bits = Fields!Bits(who)
      BY <2>2, <2>4 DEF Fields!Put, Fields!Op
    <3>5. Fields!Write(16, Fields!Bits(who)) /\ 16 \in (2..16) \cup {23, 58}
      BY <3>1 DEF Made
    <3>2. mac_registers' = [mac_registers EXCEPT !["MDIO_ADDR1"] = Fields!Bits(who)]
      <4>1. mac_registers' = [mac_registers EXCEPT ![Fields!Decode(16)[1]] = Fields!Bits(who)]
        BY <3>5, WriteIs
      <4>2. Fields!Decode(16)[1] = "MDIO_ADDR1"
        BY Registers16
      <4> QED  BY <4>1, <4>2
    <3>3. mac_registers'["MDIO_ADDR1"] = Fields!Bits(who)
      BY <3>2, NamesAre DEF RegistersOk
    <3>4. saved' = addr1
      BY <1>1, <2>1, <2>4, <3>1 DEF Made, Selects
    <3>6. /\ function' \in Fields!OfPhy /\ j + 1 \in 2..(L - 1) /\ j + 1 \in 1..(L - 1)
          /\ who' = who /\ addr1' = addr1
      <4>1. function' = function /\ who' = who /\ addr1' = addr1
        BY DEF Made
      <4>2. \A n \in 4..6 : 2 \in 2..(n - 1) /\ 2 \in 1..(n - 1)
        OBVIOUS
      <4>3. j + 1 = 2
        BY <2>4
      <4>4. 2 \in 2..(L - 1) /\ 2 \in 1..(L - 1)
        BY <2>1, <4>2
      <4> QED  BY <1>1, <4>1, <4>3, <4>4
    <3> QED  BY <1>0, <3>3, <3>4, <3>6 DEF Selects
  <2>5. CASE j \in 2..(L - 2)
    <3>1. FieldOp(o)
      BY <2>2, <2>5
    <3>4. o.word \in 160..191 /\ Fields!Write(o.word, bits)
      BY <3>1 DEF Made, FieldOp
    <3>2. mac_registers' = mac_registers
      BY <3>4, WriteIs
    <3>3. saved' = saved
      BY <3>1 DEF Made, FieldOp
    <3> QED  BY <1>0, <1>1, <2>1, <2>5, <3>2, <3>3 DEF Selects, Made
  <2>6. CASE j = L - 1
    <3>1. o.do = "restore" /\ o.word = 16
      BY <2>2, <2>6 DEF Fields!Restore, Fields!Op
    <3>5. Fields!Write(16, saved) /\ 16 \in (2..16) \cup {23, 58}
      BY <3>1 DEF Made
    <3>2. mac_registers' = [mac_registers EXCEPT !["MDIO_ADDR1"] = saved]
      <4>1. mac_registers' = [mac_registers EXCEPT ![Fields!Decode(16)[1]] = saved]
        BY <3>5, WriteIs
      <4>2. Fields!Decode(16)[1] = "MDIO_ADDR1"
        BY Registers16
      <4> QED  BY <4>1, <4>2
    <3>3. mac_registers'["MDIO_ADDR1"] = saved
      BY <3>2, NamesAre DEF RegistersOk
    <3>4. saved = addr1
      BY <1>1, <2>1, <2>6 DEF Selects
    <3> QED  BY <1>0, <1>1, <2>1, <2>6, <3>3, <3>4 DEF Selects, Made
  <2> QED  BY <2>1, <2>3, <2>4, <2>5, <2>6
<1>2. CASE function \notin Fields!OfPhy
  <2>0. o = Body[j + 1] /\ Fields!Write(o.word, bits)
    BY DEF Made
  <2>3. o.word \in UsedWords
    BY <1>0, <2>0, UsedWordsAre
  <2>1. o.word # 16
    <3>1. CASE function \in Fields!OfAddress
      <4>1. MarvellOp(o)
        BY <1>0, <2>0, <3>1, BodyIs
      <4>2. 16 \notin 160..191
        OBVIOUS
      <4> QED  BY <4>1, <4>2 DEF MarvellOp
    <3>2. CASE function \in Fields!OfMac
      <4>1. MacOp(o)
        BY <1>0, <2>0, <3>2, BodyIs
      <4> QED  BY <4>1 DEF MacOp
    <3>3. CASE function = TseUp
      <4>1. InitOp(o)
        BY <1>0, <2>0, <3>3, BodyIs, OpsOfInit
      <4>2. 16 \notin (2..15) \cup {23, 58}
        OBVIOUS
      <4>3. o.word \in (2..15) \cup {23, 58}
        BY <4>1 DEF InitOp
      <4> QED  BY <4>2, <4>3
    <3> QED  BY <1>2, <3>1, <3>2, <3>3 DEF CallOk
  <2>2. mac_registers'["MDIO_ADDR1"] = mac_registers["MDIO_ADDR1"]
    <3>1. CASE o.word \in (2..15) \cup {23, 58}
      <4>1. Fields!Decode(o.word)[1] # "MDIO_ADDR1"
        <5>1. CASE o.word \in 2..15
          <6>1. o.word \in 0..16 /\ o.word + 1 \in 1..16
            BY <5>1
          <6>2. Fields!Decode(o.word) = Fields!Config[o.word + 1]
            BY <6>1, DecodeConfig
          <6> QED  BY <6>1, <6>2, NamesOfRows
        <5>2. CASE o.word = 23 \/ o.word = 58
          <6>1. Fields!Decode(23)[1] = "TX_IPG_LENGTH" /\ Fields!Decode(58)[1] = "TX_CMD_STAT"
            BY RegisterOf
          <6> QED  BY <5>2, <6>1
        <5> QED  BY <3>1, <5>1, <5>2
      <4>2. mac_registers' = [mac_registers EXCEPT ![Fields!Decode(o.word)[1]] = bits]
        <5>1. o.word \in (2..16) \cup {23, 58}
          BY <3>1
        <5> QED  BY <5>1, <2>0, WriteIs
      <4> QED  BY <4>1, <4>2, NamesAre DEF RegistersOk
    <3>2. CASE o.word \notin (2..15) \cup {23, 58}
      <4>1. o.word \in 160..191 \/ o.word = 148
        BY <2>1, <2>3, <3>2 DEF UsedWords
      <4> QED  BY <4>1, <2>0, WriteIs, ZenonT(60)
    <3> QED  BY <3>1, <3>2
  <2> QED  BY <1>0, <1>2, <2>2 DEF Selects, Made
<1> QED  BY <1>1, <1>2

\* The registers that have to be set before the MAC is on.
SetUpNames == {"MAC_0", "MAC_1", "FRM_LENGTH", "RX_SECTION_EMPTY", "TX_SECTION_EMPTY"}
\* The registers at the words of tse_init, the five that are set up among them.
LEMMA NameOfWord ==
  ASSUME NEW w \in (2..15) \cup {23, 58}
  PROVE  LET name == Fields!Decode(w)[1] IN
         /\ name = "COMMAND_CONFIG" <=> w = 2
         /\ name = "MAC_0" <=> w = 3
         /\ name = "MAC_1" <=> w = 4
         /\ name = "FRM_LENGTH" <=> w = 5
         /\ name = "RX_SECTION_EMPTY" <=> w = 7
         /\ name = "TX_SECTION_EMPTY" <=> w = 9
<1> DEFINE name == Fields!Decode(w)[1]
<1>1. /\ Fields!Decode(2)[1] = "COMMAND_CONFIG" /\ Fields!Decode(3)[1] = "MAC_0"
      /\ Fields!Decode(4)[1] = "MAC_1" /\ Fields!Decode(5)[1] = "FRM_LENGTH"
      /\ Fields!Decode(6)[1] = "PAUSE_QUANT" /\ Fields!Decode(7)[1] = "RX_SECTION_EMPTY"
      /\ Fields!Decode(8)[1] = "RX_SECTION_FULL" /\ Fields!Decode(9)[1] = "TX_SECTION_EMPTY"
      /\ Fields!Decode(10)[1] = "TX_SECTION_FULL" /\ Fields!Decode(11)[1] = "RX_ALMOST_EMPTY"
      /\ Fields!Decode(12)[1] = "RX_ALMOST_FULL" /\ Fields!Decode(13)[1] = "TX_ALMOST_EMPTY"
      /\ Fields!Decode(14)[1] = "TX_ALMOST_FULL" /\ Fields!Decode(15)[1] = "MDIO_ADDR0"
  BY Registers16
<1>2. Fields!Decode(23)[1] = "TX_IPG_LENGTH" /\ Fields!Decode(58)[1] = "TX_CMD_STAT"
  BY RegisterOf
<1>3. \/ w = 2 \/ w = 3 \/ w = 4 \/ w = 5 \/ w = 6 \/ w = 7 \/ w = 8 \/ w = 9 \/ w = 10 \/ w = 11
      \/ w = 12 \/ w = 13 \/ w = 14 \/ w = 15 \/ w = 23 \/ w = 58
  OBVIOUS
<1> QED  BY <1>1, <1>2, <1>3

\* The MAC is set up by the words that tse_init writes, and stays so.
LEMMA SetsUpMade ==
  ASSUME RegistersOk, CallOk, NEW j \in 0..(Len(Body) - 1), SetsUp(j), NEW o, NEW bits,
         Made(j, o, bits), loaded' = FALSE
  PROVE  SetsUp(j + 1)'
<1> DEFINE m == mac_registers
<1>0. /\ Body' = Body /\ j + 1 \in 1..Len(Body) /\ o = Body[j + 1] /\ Fields!Write(o.word, bits)
      /\ function' = function
  BY BodyStays, BodyIs DEF Made
<1>1. CASE function # TseUp
  <2>1. o.word \in {2, 16, 148} \cup (160..191)
    <3>1. CASE function \in Fields!OfPhy
      <4>1. SelectingOp(o, j + 1)
        BY <1>0, <3>1, BodyIs
      <4>2. o.word = 16 \/ FieldOp(o)
        BY <4>1 DEF SelectingOp, Fields!Save, Fields!Put, Fields!Restore, Fields!Op
      <4> QED  BY <4>2 DEF FieldOp
    <3>2. CASE function \in Fields!OfAddress
      BY <1>0, <3>2, BodyIs DEF MarvellOp
    <3>3. CASE function \in Fields!OfMac
      BY <1>0, <3>3, BodyIs DEF MacOp
    <3> QED  BY <1>1, <3>1, <3>2, <3>3 DEF CallOk
  <2>2. \A r \in SetUpNames : m'[r] = m[r]
    <3>1. CASE o.word = 2 \/ o.word = 16
      <4>1. o.word \in (2..16) \cup {23, 58}
        BY <3>1
      <4>2. m' = [m EXCEPT ![Fields!Decode(o.word)[1]] = bits]
        BY <4>1, <1>0, WriteIs
      <4>3. Fields!Decode(2)[1] = "COMMAND_CONFIG" /\ Fields!Decode(16)[1] = "MDIO_ADDR1"
        BY Registers16
      <4>4. Fields!Decode(o.word)[1] \notin SetUpNames
        BY <3>1, <4>3 DEF SetUpNames
      <4> QED  BY <4>2, <4>4, NamesAre DEF RegistersOk, SetUpNames
    <3>2. CASE o.word = 148
      <4>1. m' = m
        BY <1>0, <3>2, WriteIs
      <4> QED  BY <4>1
    <3>3. CASE o.word \in 160..191
      <4>1. m' = m
        BY <1>0, <3>3, WriteIs
      <4> QED  BY <4>1
    <3> QED  BY <2>1, <3>1, <3>2, <3>3
  <2>3. MacIs(m)
    BY <1>1 DEF SetsUp
  <2>4. MacIs(m')
    BY <2>2, <2>3 DEF MacIs, SetUpNames
  <2> QED  BY <1>0, <1>1, <2>4 DEF SetsUp, MacIs, TseUp, Fields!Fn
<1>2. CASE function = TseUp
  <2> DEFINE w == o.word
             name == Fields!Decode(w)[1]
  <2>1. InitOp(o) /\ o = Fields!tse_init[j + 1] /\ j \in 0..22 /\ j + 1 \in 1..23
    <3>1. Body = Fields!tse_init /\ Len(Body) = 23
      BY <1>2, BodyIs
    <3>2. j \in 0..22 /\ j + 1 \in 1..23
      BY <1>0, <3>1
    <3>3. o = Fields!tse_init[j + 1]
      BY <1>0, <3>1
    <3>4. InitOp(Fields!tse_init[j + 1])
      BY <3>2, OpsOfInit
    <3> QED  BY <3>2, <3>3, <3>4
  <2>2. w \in (2..15) \cup {23, 58}
    BY <2>1 DEF InitOp
  <2>3. m' = [m EXCEPT ![name] = bits] /\ m = [r \in MacNames |-> m[r]]
    <3>1. w \in (2..16) \cup {23, 58}
      BY <2>2
    <3> QED  BY <3>1, <1>0, WriteIs DEF RegistersOk
  <2>4. \A r \in MacNames : m'[r] = IF r = name THEN bits ELSE m[r]
    BY <2>3
  <2>5. w # 2 => o.do = "put" /\ bits = o.bits
    <3>1. w # 2 => o.do = "put"
      BY <2>1 DEF InitOp
    <3>2. o.do = "put" => bits = o.bits
      BY DEF Made
    <3> QED  BY <3>1, <3>2
  <2>6. /\ m'["COMMAND_CONFIG"] = IF w = 2 THEN bits ELSE m["COMMAND_CONFIG"]
        /\ m'["MAC_0"] = IF w = 3 THEN bits ELSE m["MAC_0"]
        /\ m'["MAC_1"] = IF w = 4 THEN bits ELSE m["MAC_1"]
        /\ m'["FRM_LENGTH"] = IF w = 5 THEN bits ELSE m["FRM_LENGTH"]
        /\ m'["RX_SECTION_EMPTY"] = IF w = 7 THEN bits ELSE m["RX_SECTION_EMPTY"]
        /\ m'["TX_SECTION_EMPTY"] = IF w = 9 THEN bits ELSE m["TX_SECTION_EMPTY"]
    BY <2>2, <2>4, NameOfWord, NamesAre, ZenonT(60)
  <2>7. /\ w = 3 => bits = Fields!BitsOfBytes(<<222, 173, 190, 239>>)
        /\ w = 4 => bits = Fields!BitsOfBytes(<<202, 254, 0, 0>>)
        /\ w = 5 => bits = Fields!Bits(1280 + 54)
        /\ w \in {7, 9} => bits = Fields!Bits(128 - 16)
    BY <2>1, <2>5, SMTT(30) DEF InitOp
  <2>8. /\ j + 1 = 4 => w = 9
        /\ j + 1 = 7 => w = 7
        /\ j + 1 = 12 => w = 3
        /\ j + 1 = 13 => w = 4
        /\ j + 1 = 14 => w = 5
    BY <2>1, OpsOfInit
  <2>9. j + 1 <= 20 => m'["COMMAND_CONFIG"] \cap {0, 1} = {}
    <3> SUFFICES ASSUME j + 1 <= 20 PROVE m'["COMMAND_CONFIG"] \cap {0, 1} = {}
      OBVIOUS
    <3>1. m["COMMAND_CONFIG"] \cap {0, 1} = {} /\ (loaded => temp \cap {0, 1} = {})
      <4>1. j <= 20 /\ j <= 19
        BY <2>1
      <4> QED  BY <1>2, <4>1 DEF SetsUp
    <3>2. CASE w = 2
      <4>1. o.do \in {"put", "set"}
        BY <2>1 DEF Made, InitOp
      <4>2. o.bits \cap {0, 1} = {}
        <5>1. j + 1 \in 1..20
          BY <2>1
        <5> QED  BY <5>1, <4>1, <2>1, <3>2, OpsOfInit
      <4>3. CASE o.do = "put"
        <5>1. bits = o.bits
          BY <4>3 DEF Made
        <5> QED  BY <5>1, <4>2, <2>6, <3>2
      <4>4. CASE o.do = "set"
        <5>1. loaded /\ bits = (temp \ o.clear) \cup Fields!Value /\ Fields!op = o
          BY <4>4 DEF Made
        <5>2. Fields!Value = o.bits
          <6>1. o.cap = <<0, 0>>
            BY <2>1 DEF InitOp
          <6> QED  BY <5>1, <6>1 DEF Fields!Value, Fields!NoCap
        <5> QED  BY <5>1, <5>2, <4>2, <2>6, <3>1, <3>2
      <4> QED  BY <4>1, <4>3, <4>4
    <3>3. CASE w # 2
      BY <2>6, <3>1, <3>3
    <3> QED  BY <3>2, <3>3
  <2>10. /\ j + 1 >= 4 => m'["TX_SECTION_EMPTY"] = Fields!Bits(128 - 16)
         /\ j + 1 >= 7 => m'["RX_SECTION_EMPTY"] = Fields!Bits(128 - 16)
         /\ j + 1 >= 12 => m'["MAC_0"] = Fields!BitsOfBytes(<<222, 173, 190, 239>>)
         /\ j + 1 >= 13 => m'["MAC_1"] = Fields!BitsOfBytes(<<202, 254, 0, 0>>)
         /\ j + 1 >= 14 => m'["FRM_LENGTH"] = Fields!Bits(1280 + 54)
    <3>1. /\ j >= 4 => m["TX_SECTION_EMPTY"] = Fields!Bits(128 - 16)
          /\ j >= 7 => m["RX_SECTION_EMPTY"] = Fields!Bits(128 - 16)
          /\ j >= 12 => m["MAC_0"] = Fields!BitsOfBytes(<<222, 173, 190, 239>>)
          /\ j >= 13 => m["MAC_1"] = Fields!BitsOfBytes(<<202, 254, 0, 0>>)
          /\ j >= 14 => m["FRM_LENGTH"] = Fields!Bits(1280 + 54)
      BY <1>2 DEF SetsUp
    <3>2. /\ j + 1 >= 4 => j >= 4 \/ j + 1 = 4
          /\ j + 1 >= 7 => j >= 7 \/ j + 1 = 7
          /\ j + 1 >= 12 => j >= 12 \/ j + 1 = 12
          /\ j + 1 >= 13 => j >= 13 \/ j + 1 = 13
          /\ j + 1 >= 14 => j >= 14 \/ j + 1 = 14
      BY <2>1
    <3> HIDE DEF m, w
    <3>3. j + 1 >= 4 => m'["TX_SECTION_EMPTY"] = Fields!Bits(128 - 16)
      BY <2>6, <2>7, <2>8, <3>1, <3>2
    <3>4. j + 1 >= 7 => m'["RX_SECTION_EMPTY"] = Fields!Bits(128 - 16)
      BY <2>6, <2>7, <2>8, <3>1, <3>2
    <3>5. j + 1 >= 12 => m'["MAC_0"] = Fields!BitsOfBytes(<<222, 173, 190, 239>>)
      BY <2>6, <2>7, <2>8, <3>1, <3>2
    <3>6. j + 1 >= 13 => m'["MAC_1"] = Fields!BitsOfBytes(<<202, 254, 0, 0>>)
      BY <2>6, <2>7, <2>8, <3>1, <3>2
    <3>7. j + 1 >= 14 => m'["FRM_LENGTH"] = Fields!Bits(1280 + 54)
      BY <2>6, <2>7, <2>8, <3>1, <3>2
    <3> QED  BY <3>3, <3>4, <3>5, <3>6, <3>7
  <2> QED  BY <1>0, <1>2, <2>9, <2>10 DEF SetsUp, TseUp, Fields!Fn
<1> QED  BY <1>1, <1>2

\* What is left to do after an access.
LEMMA AfterStep ==
  ASSUME NEW a, NEW s, NEW n \in Nat, IsRow(s, n), NEW j \in 0..(n - 1), n - j <= 6, NEW v
  PROVE  After(a, Behind(s, j), v) = After(a, Behind(s, j + 1), Changed(a, s[j + 1], v))
<1> DEFINE b == Behind(s, j)
           c == Behind(s, j + 1)
<1>1. Len(s) = n
  BY RowIs
<1>2. IsRow(b, n - j) /\ n - j \in Nat /\ \A k \in 1..(n - j) : b[k] = s[k + j]
  BY <1>1 DEF Behind, IsRow
<1>3. /\ IsRow(c, n - (j + 1)) /\ n - (j + 1) \in Nat
      /\ \A k \in 1..(n - (j + 1)) : c[k] = s[k + (j + 1)]
  BY <1>1 DEF Behind, IsRow
<1>4. Len(b) = n - j /\ Len(c) = n - (j + 1)
  BY <1>2, <1>3, RowIs
<1> HIDE DEF b, c
<1>5. ASSUME NEW k \in 1..5, NEW x PROVE Nth(a, c, k, x) = Nth(a, b, k + 1, x)
  <2>1. CASE k <= n - (j + 1)
    <3>1. k \in 1..(n - (j + 1)) /\ k + 1 \in 1..(n - j) /\ k + (j + 1) = (k + 1) + j
      BY <2>1
    <3>2. c[k] = b[k + 1]
      BY <1>2, <1>3, <3>1
    <3>3. k <= Len(c) /\ k + 1 <= Len(b)
      BY <1>4, <3>1
    <3> QED  BY <3>2, <3>3 DEF Nth
  <2>2. CASE ~(k <= n - (j + 1))
    <3>1. ~(k <= Len(c)) /\ ~(k + 1 <= Len(b))
      BY <1>4, <2>2
    <3> QED  BY <3>1 DEF Nth
  <2> QED  BY <2>1, <2>2
<1>6. \A x : Nth(a, c, 6, x) = x
  <2>1. ~(6 <= Len(c))
    BY <1>4
  <2> QED  BY <2>1 DEF Nth
<1>7. Nth(a, b, 1, v) = Changed(a, s[j + 1], v)
  <2>1. 1 \in 1..(n - j) /\ 1 <= Len(b) /\ 1 + j = j + 1
    BY <1>4
  <2>2. b[1] = s[j + 1]
    BY <1>2, <2>1
  <2> QED  BY <2>1, <2>2 DEF Nth
<1>8. \A x : /\ Nth(a, c, 1, x) = Nth(a, b, 2, x) /\ Nth(a, c, 2, x) = Nth(a, b, 3, x)
             /\ Nth(a, c, 3, x) = Nth(a, b, 4, x) /\ Nth(a, c, 4, x) = Nth(a, b, 5, x)
             /\ Nth(a, c, 5, x) = Nth(a, b, 6, x)
  <2>1. /\ 1 \in 1..5 /\ 2 \in 1..5 /\ 3 \in 1..5 /\ 4 \in 1..5 /\ 5 \in 1..5
        /\ 1 + 1 = 2 /\ 2 + 1 = 3 /\ 3 + 1 = 4 /\ 4 + 1 = 5 /\ 5 + 1 = 6
    OBVIOUS
  <2>2. \A x : /\ Nth(a, c, 1, x) = Nth(a, b, 1 + 1, x) /\ Nth(a, c, 2, x) = Nth(a, b, 2 + 1, x)
               /\ Nth(a, c, 3, x) = Nth(a, b, 3 + 1, x) /\ Nth(a, c, 4, x) = Nth(a, b, 4 + 1, x)
               /\ Nth(a, c, 5, x) = Nth(a, b, 5 + 1, x)
    BY <2>1, <1>5
  <2> QED  BY <2>1, <2>2
<1> QED  BY <1>6, <1>7, <1>8 DEF After, b, c

\* No access changes nothing.
LEMMA AfterEnd == \A a, v : After(a, <<>>, v) = v
<1>1. Len(<<>>) = 0
  OBVIOUS
<1> QED  BY <1>1 DEF After, Nth

\* What a field's write makes of the view of the registers p.
Written(a, o, p, t, k, r) ==
  /\ p = [n \in Fields!Numbers |-> p[n]] /\ FieldOp(o) /\ k = o.word - 160
  /\ t \ Volatile(k) = p[k] \ Volatile(k)
  /\ r = [p EXCEPT ![k] = (t \ o.clear) \cup BitsFor(a, o)]
LEMMA ViewWritten ==
  ASSUME NEW a, NEW p, NEW o, NEW t, NEW k, NEW r, Written(a, o, p, t, k, r)
  PROVE  View(r) = Changed(a, o, View(p))
<1>0. /\ p = [n \in Fields!Numbers |-> p[n]] /\ FieldOp(o) /\ k = o.word - 160
      /\ t \ Volatile(k) = p[k] \ Volatile(k)
  BY DEF Written
<1>1. k = o.word - 160
  BY <1>0
<1> DEFINE bits == (t \ o.clear) \cup BitsFor(a, o)
<1>2. k \in {0, 4, 9, 20, 27} /\ o.do = "set"
  BY <1>0 DEF FieldOp
<1>3. k \in Fields!Numbers /\ k \notin {1, 15}
  BY <1>2 DEF Fields!Numbers
<1> DEFINE q == [p EXCEPT ![k] = bits]
<1>4. q[k] = bits /\ \A n \in Fields!Numbers : n # k => q[n] = p[n]
  BY <1>0, <1>3
<1>5. Changed(a, o, View(p)) =
        [n \in Fields!Numbers |->
          IF n = k THEN ((View(p)[n] \ o.clear) \cup BitsFor(a, o)) \ Volatile(n) ELSE View(p)[n]]
  BY <1>1, <1>2 DEF Changed
<1>6. View(p)[k] = p[k] \ Volatile(k)
  BY <1>3 DEF View
<1>7. bits \ Volatile(k) = ((View(p)[k] \ o.clear) \cup BitsFor(a, o)) \ Volatile(k)
  <2>1. t \ Volatile(k) = p[k] \ Volatile(k) /\ bits = (t \ o.clear) \cup BitsFor(a, o)
    BY <1>0
  <2>2. PICK V, B, c : V = Volatile(k) /\ B = BitsFor(a, o) /\ c = o.clear
    OBVIOUS
  <2> QED  BY <1>6, <2>1, <2>2
<1> HIDE DEF q
<1>8. View(q) = [n \in Fields!Numbers |->
          IF n = k THEN ((View(p)[n] \ o.clear) \cup BitsFor(a, o)) \ Volatile(n) ELSE View(p)[n]]
  <2>1. ASSUME NEW n \in Fields!Numbers
        PROVE  (IF n \in {1, 15} THEN {} ELSE q[n] \ Volatile(n))
               = IF n = k THEN ((View(p)[n] \ o.clear) \cup BitsFor(a, o)) \ Volatile(n) ELSE View(p)[n]
    <3>1. CASE n = k
      <4>1. n \notin {1, 15} /\ q[n] = bits
        BY <1>3, <1>4, <3>1
      <4> QED  BY <1>7, <3>1, <4>1
    <3>2. CASE n # k
      <4>1. q[n] = p[n]
        BY <1>4, <3>2
      <4>2. View(p)[n] = IF n \in {1, 15} THEN {} ELSE p[n] \ Volatile(n)
        BY DEF View
      <4> QED  BY <3>2, <4>1, <4>2
    <3> QED  BY <3>1, <3>2
  <2>2. View(q) = [n \in Fields!Numbers |-> IF n \in {1, 15} THEN {} ELSE q[n] \ Volatile(n)]
    BY DEF View
  <2> DEFINE F(n) == IF n \in {1, 15} THEN {} ELSE q[n] \ Volatile(n)
             G(n) == IF n = k THEN ((View(p)[n] \ o.clear) \cup BitsFor(a, o)) \ Volatile(n)
                     ELSE View(p)[n]
  <2>3. \A n \in Fields!Numbers : F(n) = G(n)
    BY <2>1
  <2>4. View(q) = [n \in Fields!Numbers |-> F(n)]
    BY <2>2
  <2> HIDE DEF F, G
  <2>5. View(q) = [n \in Fields!Numbers |-> G(n)]
    BY <2>3, <2>4
  <2> QED  BY <2>5 DEF G
<1>9. View(q) = Changed(a, o, View(p))
  BY <1>5, <1>8
<1>10. r = q
  BY DEF Written, q
<1> QED  BY <1>9, <1>10

\* The bits an access sets are those its capability allows.
LEMMA ValueIs ==
  ASSUME RegistersOk, who \in Populated, NEW o, FieldOp(o), Fields!op = o
  PROVE  Fields!Value = BitsFor(who, o)
<1>1. /\ \A b \in 11..15 : b \in phy_registers[who][1] <=> b \in CapBits(who, 1)
      /\ \A b \in 12..13 : b \in phy_registers[who][15] <=> b \in CapBits(who, 15)
  BY DEF RegistersOk
<1>2. CASE o.cap = <<0, 0>>
  BY <1>2 DEF Fields!Value, BitsFor, Fields!NoCap
<1>3. CASE o.cap[1] = 1 /\ o.cap[2] \in 11..15
  BY <1>1, <1>3 DEF Fields!Value, BitsFor
<1>4. CASE o.cap[1] = 15 /\ o.cap[2] \in 12..13
  BY <1>1, <1>4 DEF Fields!Value, BitsFor
<1> QED  BY <1>2, <1>3, <1>4 DEF FieldOp

\* The PHY that answers to an access to a PHY is the one the function is for.
LEMMA RightPhyRead ==
  ASSUME CallOk, NEW j \in 0..(Len(Body) - 1), Selects(j), Body[j + 1].word \in 160..191
  PROVE  who \in Populated /\ Fields!Selected = who /\ who \in 0..31
<1>0. j + 1 \in 1..Len(Body) /\ Len(Body) \in Nat
  BY BodyIs
<1>1. CASE function \in Fields!OfPhy
  <2>1. who \in Populated /\ who \in 0..31
    BY <1>1, AddressesAre, KindsApart DEF CallOk
  <2>2. SelectingOp(Body[j + 1], j + 1)
    BY <1>0, <1>1, BodyIs
  <2>3. PICK m \in 1..3 : /\ Len(Body) = m + 3
                          /\ j + 1 = 1 => Body[j + 1] = Fields!Save(16)
                          /\ j + 1 = 2 => Body[j + 1] = Fields!Put(16, Fields!Bits(who))
                          /\ j + 1 = m + 3 => Body[j + 1] = Fields!Restore(16)
    BY <2>2 DEF SelectingOp
  <2>4. /\ Fields!Save(16).word = 16 /\ Fields!Put(16, Fields!Bits(who)).word = 16
        /\ Fields!Restore(16).word = 16
    BY DEF Fields!Save, Fields!Put, Fields!Restore, Fields!Op
  <2>5. 16 \notin 160..191
    OBVIOUS
  <2>6. j + 1 # 1 /\ j + 1 # 2 /\ j + 1 # m + 3
    BY <2>3, <2>4, <2>5
  <2>7. j \in 2..(Len(Body) - 1)
    BY <1>0, <2>6
  <2>8. mac_registers["MDIO_ADDR1"] = Fields!Bits(who)
    BY <1>1, <2>7 DEF Selects
  <2> QED  BY <2>1, <2>8, AddressOfBits, ZenonT(60) DEF Fields!Selected
<1>2. CASE function \in Fields!OfAddress
  <2>1. function \notin Fields!OfPhy /\ function \notin Fields!OfMac /\ function # TseUp
    BY <1>2, KindsApart
  <2>2. mac_registers["MDIO_ADDR1"] = addr1
    BY <2>1 DEF Selects
  <2>3. who \in Populated /\ Fields!AddrOf(addr1) = who
    BY <1>2, <2>1 DEF CallOk
  <2> QED  BY <2>2, <2>3, AddressesAre DEF Fields!Selected
<1>3. CASE function \in Fields!OfMac
  <2>1. Body[j + 1].word \in {2, 148}
    BY <1>0, <1>3, BodyIs DEF MacOp
  <2>2. 2 \notin 160..191 /\ 148 \notin 160..191
    OBVIOUS
  <2> QED  BY <2>1, <2>2
<1>4. CASE function = TseUp
  <2>1. InitOp(Body[j + 1])
    BY <1>0, <1>4, BodyIs, OpsOfInit
  <2>2. Body[j + 1].word \in (2..15) \cup {23, 58}
    BY <2>1 DEF InitOp
  <2>3. \A w \in (2..15) \cup {23, 58} : w \notin 160..191
    OBVIOUS
  <2> QED  BY <2>2, <2>3, ZenonT(60)
<1> QED  BY <1>1, <1>2, <1>3, <1>4 DEF CallOk

\* No other PHY is written.
LEMMA OthersStay ==
  ASSUME RegistersOk, CallOk, NEW j \in 0..(Len(Body) - 1), Selects(j), NEW o, NEW bits, Made(j, o, bits),
         NEW a \in Populated, a # who
  PROVE  phy_registers'[a] = phy_registers[a]
<1>0. o = Body[j + 1] /\ j + 1 \in 1..Len(Body) /\ Fields!Write(o.word, bits)
  BY BodyIs DEF Made
<1>1. o.word \in UsedWords
  BY <1>0, UsedWordsAre
<1>2. CASE o.word \in 160..191
  <2>1. Fields!Selected = who
    BY <1>0, <1>2, RightPhyRead
  <2>2. \/ phy_registers' = [phy_registers EXCEPT ![who][o.word - 160] = bits]
        \/ phy_registers' = phy_registers
    <3>1. phy_registers' =
            IF Fields!Selected \in Populated /\ o.word - 160 \notin {1, 15}
              THEN [phy_registers EXCEPT ![Fields!Selected][o.word - 160] = bits] ELSE phy_registers
      BY <1>0, <1>2, WriteIs
    <3> QED  BY <3>1, <2>1
  <2>3. phy_registers = [b \in Populated |-> phy_registers[b]]
    BY DEF RegistersOk
  <2> QED  BY <2>2, <2>3
<1>3. CASE o.word \notin 160..191
  <2>1. o.word = 148 \/ o.word \in (2..16) \cup {23, 58}
    BY <1>1, <1>3 DEF UsedWords
  <2> QED  BY <1>0, <2>1, WriteIs
<1> QED  BY <1>2, <1>3

\* What is to come keeps the promise when an access is made.
LEMMA PromisesMade ==
  ASSUME RegistersOk, CallOk, NEW j \in 0..(Len(Body) - 1), Selects(j), Promises(j),
         NEW o, NEW bits, Made(j, o, bits), loaded' = FALSE
  PROVE  Promises(j + 1)'
<1>0. /\ Body' = Body /\ o = Body[j + 1] /\ j + 1 \in 1..Len(Body) /\ Fields!Write(o.word, bits)
      /\ IsRow(Body, Len(Body)) /\ Len(Body) \in Nat
  BY BodyStays, BodyIs DEF Made
<1>1. /\ function' = function /\ who' = who /\ before' = before /\ disturbed' = disturbed
  BY DEF Made
<1> DEFINE p == phy_registers[who]
<1>2. ASSUME who \in Populated, function.fn # "marvell_phy_cfg", ~disturbed
      PROVE  After(who, Behind(Body, j + 1), View(phy_registers'[who])) = After(who, Body, View(before))
  <2>1. /\ After(who, Behind(Body, j), View(p)) = After(who, Body, View(before))
        /\ loaded => temp \ Volatile(o.word - 160) = p[o.word - 160] \ Volatile(o.word - 160)
    BY <1>0, <1>2 DEF Promises
  <2>2. function \in Fields!OfPhy \cup Fields!OfAddress /\ Len(Body) <= 6
    BY <1>0, <1>2, BodyIs, AddressesAre DEF CallOk
  <2>3. After(who, Behind(Body, j), View(p)) = After(who, Behind(Body, j + 1), Changed(who, o, View(p)))
    <3>1. Len(Body) - j <= 6
      BY <1>0, <2>2
    <3> QED  BY <1>0, <3>1, AfterStep
  <2>4. View(phy_registers'[who]) = Changed(who, o, View(p))
    <3>1. FieldOp(o) \/ (o.word = 16 /\ o.do # "set")
      <4>1. CASE function \in Fields!OfPhy
        <5>1. SelectingOp(o, j + 1)
          BY <1>0, <4>1, BodyIs
        <5> QED  BY <5>1 DEF SelectingOp, Fields!Save, Fields!Put, Fields!Restore, Fields!Op
      <4>2. CASE function \in Fields!OfAddress
        BY <1>0, <1>2, <4>2, BodyIs
      <4> QED  BY <2>2, <4>1, <4>2
    <3>2. CASE FieldOp(o)
      <4>1. o.word \in 160..191 /\ o.do = "set" /\ o.word - 160 \notin {1, 15}
        BY <3>2 DEF FieldOp
      <4>2. Fields!Selected = who
        BY <1>0, <4>1, RightPhyRead
      <4>3. phy_registers' = [phy_registers EXCEPT ![who][o.word - 160] = bits]
        BY <1>0, <1>2, <4>1, <4>2, WriteIs
      <4>4. phy_registers'[who] = [p EXCEPT ![o.word - 160] = bits]
        BY <1>2, <4>3 DEF RegistersOk
      <4>5. loaded = TRUE /\ bits = (temp \ o.clear) \cup Fields!Value /\ Fields!op = o
        BY <4>1 DEF Made
      <4>6. bits = (temp \ o.clear) \cup BitsFor(who, o)
        BY <1>2, <3>2, <4>5, ValueIs
      <4>7. temp \ Volatile(o.word - 160) = p[o.word - 160] \ Volatile(o.word - 160)
        BY <2>1, <4>5
      <4>8. p = [k \in Fields!Numbers |-> p[k]]
        BY <1>2 DEF RegistersOk
      <4> HIDE DEF p
      <4>9. Written(who, o, p, temp, o.word - 160, phy_registers'[who])
        BY <3>2, <4>4, <4>6, <4>7, <4>8 DEF Written
      <4> HIDE DEF Written
      <4> QED  BY <4>9, ViewWritten
    <3>3. CASE o.word = 16 /\ o.do # "set"
      <4>1. Changed(who, o, View(p)) = View(p)
        BY <3>3 DEF Changed
      <4>2. o.word \in (2..16) \cup {23, 58}
        BY <3>3
      <4>3. phy_registers' = phy_registers
        BY <1>0, <4>2, WriteIs
      <4> QED  BY <4>1, <4>3
    <3> QED  BY <3>1, <3>2, <3>3
  <2> QED  BY <2>1, <2>3, <2>4
<1> QED  BY <1>0, <1>1, <1>2 DEF Promises

\* What a word reads as.
LEMMA ReadingIs ==
  /\ \A w \in 160..191 : Fields!Selected \in Populated
        => Fields!Reading(w) = phy_registers[Fields!Selected][w - 160]
  /\ Fields!Reading(2) = mac_registers["COMMAND_CONFIG"]
  /\ Fields!Reading(16) = mac_registers["MDIO_ADDR1"]
<1>1. ASSUME NEW w \in 160..191, Fields!Selected \in Populated
      PROVE  Fields!Reading(w) = phy_registers[Fields!Selected][w - 160]
  <2>1. w - 160 \in 0..31 /\ 160 + (w - 160) = w
    OBVIOUS
  <2>2. Fields!Decode(w) = <<"mdio1", w - 160>>
    BY <2>1, RegisterOf
  <2>3. Fields!Decode(w)[1] = "mdio1" /\ Fields!Decode(w)[2] = w - 160
    BY <2>2
  <2> QED  BY <1>1, <2>3 DEF Fields!Reading
<1>2. Fields!Reading(2) = mac_registers["COMMAND_CONFIG"]
  <2>1. Fields!Decode(2)[1] = "COMMAND_CONFIG"
    BY Registers16
  <2> QED  BY <2>1 DEF Fields!Reading
<1>3. Fields!Reading(16) = mac_registers["MDIO_ADDR1"]
  <2>1. Fields!Decode(16)[1] = "MDIO_ADDR1"
    BY Registers16
  <2> QED  BY <2>1 DEF Fields!Reading
<1> QED  BY <1>1, <1>2, <1>3

\* The accesses of a function that is for a PHY and keeps its promise.
LEMMA PhyOps ==
  ASSUME CallOk, NEW j \in 0..(Len(Body) - 1), who \in Populated, function.fn # "marvell_phy_cfg"
  PROVE  /\ function \in Fields!OfPhy \cup Fields!OfAddress /\ Len(Body) <= 6
         /\ FieldOp(Body[j + 1]) \/ (Body[j + 1].word = 16 /\ Body[j + 1].do # "set")
<1>0. j + 1 \in 1..Len(Body) /\ Len(Body) \in Nat
  BY BodyIs
<1>1. function \in Fields!OfPhy \cup Fields!OfAddress
  BY AddressesAre DEF CallOk
<1>2. CASE function \in Fields!OfPhy
  <2>1. SelectingOp(Body[j + 1], j + 1) /\ Len(Body) \in 4..6
    BY <1>0, <1>2, BodyIs
  <2>3. Len(Body) <= 6
    <3>1. Len(Body) \in 4..6
      BY <2>1
    <3>2. \A n \in 4..6 : n <= 6
      OBVIOUS
    <3> QED  BY <3>1, <3>2
  <2>2. FieldOp(Body[j + 1]) \/ (Body[j + 1].word = 16 /\ Body[j + 1].do # "set")
    BY <2>1 DEF SelectingOp, Fields!Save, Fields!Put, Fields!Restore, Fields!Op
  <2> QED  BY <1>1, <2>2, <2>3
<1>3. CASE function \in Fields!OfAddress
  <2>1. FieldOp(Body[j + 1]) /\ Len(Body) \in 1..3
    BY <1>0, <1>3, BodyIs
  <2>2. Len(Body) <= 6
    <3>1. Len(Body) \in 1..3
      BY <2>1
    <3>2. \A n \in 1..3 : n <= 6
      OBVIOUS
    <3> QED  BY <3>1, <3>2
  <2>3. FieldOp(Body[j + 1])
    BY <2>1
  <2> HIDE DEF FieldOp
  <2> QED  BY <1>1, <2>2, <2>3
<1> HIDE DEF FieldOp
<1> QED  BY <1>1, <1>2, <1>3

\* An access that does not write a register.
LEMMA NothingWritten ==
  ASSUME RegistersOk, CallOk, NEW j \in 0..(Len(Body) - 1), Selects(j), SetsUp(j), Promises(j),
         NEW o, o = Body[j + 1], o.do \notin {"set", "put", "restore"},
         mac_registers' = mac_registers, phy_registers' = phy_registers,
         function' = function, who' = who, addr1' = addr1, before' = before, disturbed' = disturbed,
         loaded' = FALSE,
         saved' = IF o.do = "save" THEN Fields!Reading(o.word) ELSE saved
  PROVE  Selects(j + 1)' /\ SetsUp(j + 1)' /\ Promises(j + 1)'
<1>0. Body' = Body /\ j + 1 \in 1..Len(Body) /\ Len(Body) \in Nat /\ IsRow(Body, Len(Body))
  BY BodyStays, BodyIs
<1>1. Selects(j + 1)'
  <2>1. CASE function \in Fields!OfPhy
    <3>1. SelectingOp(o, j + 1) /\ Len(Body) \in 4..6
      BY <1>0, <2>1, BodyIs
    <3>2. PICK m \in 1..3 : /\ Len(Body) = m + 3
                            /\ j + 1 = 1 => o = Fields!Save(16)
                            /\ j + 1 = 2 => o = Fields!Put(16, Fields!Bits(who))
                            /\ j + 1 \in 3..(m + 2) => FieldOp(o)
                            /\ j + 1 = m + 3 => o = Fields!Restore(16)
      BY <3>1 DEF SelectingOp
    <3>3. j = 0
      BY <1>0, <3>2 DEF Fields!Put, Fields!Restore, Fields!Op, FieldOp
    <3>4. o.do = "save" /\ o.word = 16
      BY <3>2, <3>3 DEF Fields!Save, Fields!Op
    <3>5. saved' = addr1 /\ mac_registers'["MDIO_ADDR1"] = addr1
      BY <2>1, <3>3, <3>4, ReadingIs DEF Selects
    <3>6. j + 1 \notin 2..(Len(Body) - 1)
      BY <3>3
    <3> QED  BY <1>0, <3>5, <3>6 DEF Selects
  <2>2. CASE function \notin Fields!OfPhy
    BY <1>0, <2>2 DEF Selects
  <2> QED  BY <2>1, <2>2
<1>2. SetsUp(j + 1)'
  <2>1. CASE function # TseUp
    BY <2>1 DEF SetsUp, MacIs, TseUp, Fields!Fn
  <2>2. CASE function = TseUp
    <3>1. Body = Fields!tse_init /\ Len(Body) = 23
      BY <2>2, BodyIs
    <3>2. j + 1 # 4 /\ j + 1 # 7 /\ j + 1 # 12 /\ j + 1 # 13 /\ j + 1 # 14
      BY <3>1, OpsOfInit
    <3>3. /\ j + 1 <= 20 => j <= 20
          /\ j + 1 >= 4 => j >= 4
          /\ j + 1 >= 7 => j >= 7
          /\ j + 1 >= 12 => j >= 12
          /\ j + 1 >= 13 => j >= 13
          /\ j + 1 >= 14 => j >= 14
      BY <1>0, <3>1, <3>2
    <3>4. PICK m : m = mac_registers
      OBVIOUS
    <3>5. /\ j + 1 <= 20 => m["COMMAND_CONFIG"] \cap {0, 1} = {}
          /\ j + 1 >= 4 => m["TX_SECTION_EMPTY"] = Fields!Bits(128 - 16)
          /\ j + 1 >= 7 => m["RX_SECTION_EMPTY"] = Fields!Bits(128 - 16)
          /\ j + 1 >= 12 => m["MAC_0"] = Fields!BitsOfBytes(<<222, 173, 190, 239>>)
          /\ j + 1 >= 13 => m["MAC_1"] = Fields!BitsOfBytes(<<202, 254, 0, 0>>)
          /\ j + 1 >= 14 => m["FRM_LENGTH"] = Fields!Bits(1280 + 54)
      BY <2>2, <3>3, <3>4 DEF SetsUp
    <3>6. mac_registers' = m
      BY <3>4
    <3> QED  BY <2>2, <3>5, <3>6 DEF SetsUp, TseUp, Fields!Fn
  <2> QED  BY <2>1, <2>2
<1>3. Promises(j + 1)'
  <2>1. ASSUME who \in Populated, function.fn # "marvell_phy_cfg", ~disturbed
        PROVE  After(who, Behind(Body, j + 1), View(phy_registers[who])) = After(who, Body, View(before))
    <3>1. After(who, Behind(Body, j), View(phy_registers[who])) = After(who, Body, View(before))
      BY <1>0, <2>1 DEF Promises
    <3>2. Len(Body) - j <= 6
      BY <2>1, PhyOps
    <3>3. Changed(who, o, View(phy_registers[who])) = View(phy_registers[who])
      BY DEF Changed
    <3>4. After(who, Behind(Body, j), View(phy_registers[who]))
            = After(who, Behind(Body, j + 1), Changed(who, o, View(phy_registers[who])))
      BY <1>0, <3>2, AfterStep
    <3> QED  BY <3>1, <3>3, <3>4
  <2> QED  BY <1>0, <2>1 DEF Promises
<1> QED  BY <1>1, <1>2, <1>3

\* No other PHY changes its settings.
OthersKeep ==
  \A a \in Populated : phy_registers'[a] # phy_registers[a]
        /\ Fields!Settings(phy_registers'[a]) # Fields!Settings(phy_registers[a])
     => (todo # <<>> /\ a = who) \/ Fields!Resetting(a)

\* The variables of a call and of the registers, one by one.
LEMMA CallStays ==
  ASSUME Fields!call' = Fields!call
  PROVE  function' = function /\ who' = who /\ calls' = calls /\ before' = before /\ addr1' = addr1
BY DEF Fields!call
LEMMA RegsStay ==
  ASSUME Fields!regs' = Fields!regs
  PROVE  mac_registers' = mac_registers /\ phy_registers' = phy_registers
BY DEF Fields!regs

\* The access that is made next, or the end.
LEMMA StepsOn ==
  ASSUME FieldsInv, todo # <<>>
  PROVE  \E j \in 0..(Len(Body) - 1) :
           /\ Along(j) /\ Fields!op = Body[j + 1] /\ Tail(todo) = Behind(Body, j + 1)
           /\ j + 1 \in 0..Len(Body) /\ j + 1 \in 1..Len(Body) /\ j \in 0..Len(Body)
<1>1. PICK j \in 0..Len(Body) : Along(j)
  BY DEF FieldsInv
<1>2. CallOk /\ todo = Behind(Body, j)
  BY <1>1 DEF FieldsInv, Along
<1> QED  BY <1>1, <1>2, NextOp

\* An access that writes keeps the invariant.
LEMMA MadeKeeps ==
  ASSUME FieldsInv, NEW j \in 0..(Len(Body) - 1), Along(j), j + 1 \in 0..Len(Body),
         Tail(todo) = Behind(Body, j + 1), todo' = Tail(todo), loaded' = FALSE,
         NEW bits, Made(j, Body[j + 1], bits), todo # <<>>
  PROVE  FieldsInv' /\ OthersKeep
<1> DEFINE o == Body[j + 1]
<1>0. /\ RegistersOk /\ CallOk /\ Selects(j) /\ SetsUp(j) /\ Promises(j) /\ Body' = Body
      /\ j + 1 \in 1..Len(Body)
  BY BodyStays DEF FieldsInv, Along, Made
<1> HIDE DEF o
<1>1. Made(j, o, bits) /\ o = Body[j + 1]
  BY DEF o
<1>2. RegistersOk'
  <2>1. Fields!Write(o.word, bits)
    BY <1>1 DEF Made
  <2>2. o.word \in UsedWords
    BY <1>0, <1>1, UsedWordsAre
  <2> QED  BY <1>0, <2>1, <2>2, RegistersWritten
<1>3. CallOk'
  BY <1>0, <1>1 DEF CallOk, Made
<1>4. Selects(j + 1)'
  BY <1>0, <1>1, SelectsMade
<1>5. SetsUp(j + 1)'
  BY <1>0, <1>1, SetsUpMade
<1>6. Promises(j + 1)'
  BY <1>0, <1>1, PromisesMade
<1>7. Along(j + 1)'
  BY <1>0, <1>4, <1>5, <1>6 DEF Along
<1>8. OthersKeep
  BY <1>0, <1>1, OthersStay DEF OthersKeep
<1>9. FieldsInv'
  <2>1. j + 1 \in 0..Len(Body')
    BY <1>0
  <2> QED  BY <1>2, <1>3, <1>7, <2>1 DEF FieldsInv
<1> QED  BY <1>8, <1>9

\* So does the read of a read-modify-write.
LEMMA LoadKeeps ==
  ASSUME FieldsInv, Fields!Load, todo # <<>>
  PROVE  FieldsInv' /\ OthersKeep
<1>1. PICK j \in 0..(Len(Body) - 1) :
           /\ Along(j) /\ Fields!op = Body[j + 1] /\ j \in 0..Len(Body) /\ j + 1 \in 1..Len(Body)
  BY StepsOn
<1> DEFINE o == Body[j + 1]
<1>2. /\ RegistersOk /\ CallOk /\ todo = Behind(Body, j) /\ Selects(j) /\ SetsUp(j) /\ Promises(j)
  BY <1>1 DEF FieldsInv, Along
<1>3. /\ o.do = "set" /\ temp' = Fields!Reading(o.word) /\ loaded' = TRUE /\ ~loaded
      /\ Fields!regs' = Fields!regs /\ Fields!call' = Fields!call
      /\ todo' = todo /\ saved' = saved /\ disturbed' = disturbed
  BY <1>1 DEF Fields!Load
<1>4. /\ function' = function /\ who' = who /\ addr1' = addr1 /\ before' = before
      /\ mac_registers' = mac_registers /\ phy_registers' = phy_registers
  BY <1>3, CallStays, RegsStay
<1>5. Body' = Body
  BY <1>4, BodyStays
<1>6. RegistersOk'
  BY <1>2, <1>4 DEF RegistersOk, CapBits
<1>7. CallOk'
  BY <1>2, <1>3, <1>4 DEF CallOk, TseUp, Fields!Fn, Fields!OfPhy, Fields!OfAddress, Fields!OfMac, Fields!AddrOf
<1>8. Selects(j)'
  BY <1>2, <1>3, <1>4, <1>5 DEF Selects, Fields!OfPhy, Fields!Fn, Fields!Bits
<1>9. SetsUp(j)'
  <2>1. CASE function # TseUp
    BY <1>2, <1>4, <2>1 DEF SetsUp, MacIs, TseUp, Fields!Fn
  <2>2. CASE function = TseUp
    <3>1. Body = Fields!tse_init /\ Len(Body) = 23
      BY <1>2, <2>2, BodyIs
    <3>2. o.word = 2
      BY <1>1, <1>3, <3>1, OpsOfInit, ZenonT(60) DEF InitOp
    <3>3. temp' = mac_registers["COMMAND_CONFIG"]
      BY <1>3, <3>2, ReadingIs
    <3>4. j \in 0..22
      BY <3>1
    <3>5. j <= 19 => j <= 20
      BY <3>4
    <3>6. j <= 19 => mac_registers["COMMAND_CONFIG"] \cap {0, 1} = {}
      BY <1>2, <2>2, <3>5 DEF SetsUp
    <3>7. j <= 19 /\ loaded' => temp' \cap {0, 1} = {}
      BY <3>3, <3>6
    <3> QED  BY <1>2, <1>4, <2>2, <3>7 DEF SetsUp, TseUp, Fields!Fn
  <2> QED  BY <2>1, <2>2
<1>10. Promises(j)'
  <2>1. ASSUME who \in Populated, function.fn # "marvell_phy_cfg", ~disturbed
        PROVE  temp' = phy_registers[who][o.word - 160]
    <3>1. o.word \in 160..191
      <4>1. FieldOp(o)
        BY <1>2, <1>3, <2>1, PhyOps
      <4> QED  BY <4>1 DEF FieldOp
    <3>2. Fields!Selected = who
      BY <1>2, <3>1, RightPhyRead
    <3>3. Fields!Selected \in Populated
      BY <3>2, <2>1
    <3>4. Fields!Reading(o.word) = phy_registers[Fields!Selected][o.word - 160]
      BY <3>1, <3>3, ReadingIs
    <3> QED  BY <1>3, <3>2, <3>4
  <2>2. ASSUME who \in Populated, function.fn # "marvell_phy_cfg", ~disturbed
        PROVE  After(who, Behind(Body, j), View(phy_registers[who])) = After(who, Body, View(before))
    BY <1>2, <2>2 DEF Promises
  <2> HIDE DEF o
  <2>3. who \in Populated /\ function.fn # "marvell_phy_cfg" /\ ~disturbed =>
          /\ After(who, Behind(Body, j), View(phy_registers[who])) = After(who, Body, View(before))
          /\ temp' \ Volatile(o.word - 160)
               = phy_registers[who][o.word - 160] \ Volatile(o.word - 160)
    BY <2>1, <2>2
  <2> QED  BY <1>3, <1>4, <1>5, <2>3 DEF Promises, o
<1>11. Along(j)'
  BY <1>1, <1>2, <1>3, <1>5, <1>8, <1>9, <1>10 DEF Along
<1>12. FieldsInv'
  <2>1. j \in 0..Len(Body')
    BY <1>1, <1>5
  <2> QED  BY <1>6, <1>7, <1>11, <2>1 DEF FieldsInv
<1>13. OthersKeep
  BY <1>4 DEF OthersKeep
<1> QED  BY <1>12, <1>13

\* An access that writes nothing but `saved'.
LEMMA QuietKeeps ==
  ASSUME FieldsInv, todo # <<>>, Fields!op.do \notin {"set", "put", "restore"},
         Fields!regs' = Fields!regs, Fields!call' = Fields!call,
         disturbed' = disturbed, loaded' = loaded, todo' = Tail(todo),
         saved' = IF Fields!op.do = "save" THEN Fields!Reading(Fields!op.word) ELSE saved
  PROVE  FieldsInv' /\ OthersKeep
<1>1. PICK j \in 0..(Len(Body) - 1) :
           /\ Along(j) /\ Fields!op = Body[j + 1] /\ j + 1 \in 0..Len(Body)
           /\ j + 1 \in 1..Len(Body) /\ Tail(todo) = Behind(Body, j + 1)
  BY StepsOn
<1> DEFINE o == Body[j + 1]
<1>2. /\ RegistersOk /\ CallOk /\ Selects(j) /\ SetsUp(j) /\ Promises(j) /\ loaded = FALSE
      /\ o.do \notin {"set", "put", "restore"}
  BY <1>1 DEF FieldsInv, Along, CallOk
<1>3. /\ function' = function /\ who' = who /\ addr1' = addr1 /\ before' = before
      /\ mac_registers' = mac_registers /\ phy_registers' = phy_registers /\ loaded' = FALSE
  BY <1>2, CallStays, RegsStay
<1>4. Body' = Body
  BY <1>3, BodyStays
<1>5. RegistersOk'
  BY <1>2, <1>3 DEF RegistersOk, CapBits
<1>6. CallOk'
  BY <1>2, <1>3 DEF CallOk, TseUp, Fields!Fn, Fields!OfPhy, Fields!OfAddress, Fields!OfMac, Fields!AddrOf
<1>7. saved' = IF o.do = "save" THEN Fields!Reading(o.word) ELSE saved
  BY <1>1
<1>8. Selects(j + 1)' /\ SetsUp(j + 1)' /\ Promises(j + 1)'
  BY <1>1, <1>2, <1>3, <1>7, NothingWritten
<1>9. Along(j + 1)'
  BY <1>1, <1>3, <1>4, <1>8 DEF Along
<1>10. FieldsInv'
  <2>1. j + 1 \in 0..Len(Body')
    BY <1>1, <1>4
  <2> QED  BY <1>5, <1>6, <1>9, <2>1 DEF FieldsInv
<1>11. OthersKeep
  BY <1>3 DEF OthersKeep
<1> QED  BY <1>10, <1>11

\* Only marvell_phy_cfg may stop early.
LEMMA UnlessKeeps ==
  ASSUME FieldsInv, Fields!UnlessBit, todo # <<>>
  PROVE  FieldsInv' /\ OthersKeep
<1>1. PICK j \in 0..(Len(Body) - 1) :
           /\ Along(j) /\ Fields!op = Body[j + 1] /\ j + 1 \in 1..Len(Body)
  BY StepsOn
<1> DEFINE o == Body[j + 1]
<1>2. /\ RegistersOk /\ CallOk /\ Selects(j) /\ SetsUp(j) /\ Promises(j) /\ loaded = FALSE
      /\ o.do = "unless" /\ Fields!op.do = "unless"
  BY <1>1 DEF FieldsInv, Along, CallOk, Fields!UnlessBit
<1>3. /\ Fields!regs' = Fields!regs /\ Fields!call' = Fields!call
      /\ loaded' = loaded /\ saved' = saved /\ disturbed' = disturbed
      /\ todo' = <<>> \/ todo' = Tail(todo)
  BY DEF Fields!UnlessBit
<1>4. CASE todo' = Tail(todo)
  BY <1>2, <1>3, <1>4, QuietKeeps
<1>5. CASE todo' = <<>>
  <2>1. /\ function' = function /\ who' = who /\ addr1' = addr1 /\ before' = before
        /\ mac_registers' = mac_registers /\ phy_registers' = phy_registers /\ loaded' = FALSE
    BY <1>2, <1>3, CallStays, RegsStay
  <2>2. Body' = Body
    BY <2>1, BodyStays
  <2>3. function \in Fields!OfAddress /\ function.fn = "marvell_phy_cfg"
    <3>1. function \notin Fields!OfPhy
      <4>1. SUFFICES ASSUME function \in Fields!OfPhy PROVE FALSE
        OBVIOUS
      <4>2. SelectingOp(o, j + 1)
        BY <1>1, <1>2, <4>1, BodyIs
      <4>3. (o.word = 16 /\ o.do \in {"save", "put", "restore"}) \/ FieldOp(o)
        BY <4>2 DEF SelectingOp, Fields!Save, Fields!Put, Fields!Restore, Fields!Op
      <4> QED  BY <1>2, <4>3 DEF FieldOp
    <3>2. function \notin Fields!OfMac
      BY <1>1, <1>2, BodyIs DEF MacOp
    <3>3. function # TseUp
      <4>1. SUFFICES ASSUME function = TseUp PROVE FALSE
        OBVIOUS
      <4>2. InitOp(o)
        BY <1>1, <1>2, <4>1, BodyIs, OpsOfInit
      <4> QED  BY <1>2, <4>2 DEF InitOp
    <3>4. function \in Fields!OfAddress
      BY <1>2, <3>1, <3>2, <3>3 DEF CallOk
    <3>5. function.fn # "marvell_phy_cfg" => FieldOp(o)
      BY <1>1, <1>2, <3>4, BodyIs
    <3> QED  BY <1>2, <3>4, <3>5 DEF FieldOp
  <2>4. RegistersOk'
    BY <1>2, <2>1 DEF RegistersOk, CapBits
  <2>5. CallOk'
    BY <1>2, <1>3, <2>1 DEF CallOk, TseUp, Fields!Fn, Fields!OfPhy, Fields!OfAddress, Fields!OfMac, Fields!AddrOf
  <2> DEFINE n == Len(Body)
  <2>6. n \in 0..Len(Body') /\ Behind(Body, n) = <<>>
    <3>1. n \in Nat /\ n \in 0..n /\ IsRow(Body, n)
      BY <1>2, BodyIs
    <3> QED  BY <2>2, <3>1, BehindIs
  <2>7. function \notin Fields!OfPhy /\ function # TseUp
    BY <2>3, KindsApart
  <2>8. Selects(n)'
    <3>1. mac_registers["MDIO_ADDR1"] = addr1
      BY <1>2, <2>7 DEF Selects
    <3> QED  BY <2>1, <2>7, <3>1 DEF Selects, Fields!OfPhy, Fields!Fn
  <2>9. SetsUp(n)'
    BY <1>2, <2>1, <2>7 DEF SetsUp, MacIs, TseUp, Fields!Fn
  <2>10. Promises(n)'
    BY <2>1, <2>3 DEF Promises
  <2>11. Along(n)'
    BY <1>5, <2>1, <2>2, <2>6, <2>8, <2>9, <2>10 DEF Along
  <2>12. FieldsInv'
    BY <2>4, <2>5, <2>6, <2>11 DEF FieldsInv
  <2> QED  BY <2>1, <2>12 DEF OthersKeep
<1> QED  BY <1>3, <1>4, <1>5

\* The accesses that write a register.
LEMMA WritesKeep ==
  ASSUME FieldsInv, todo # <<>>, Fields!Store \/ Fields!PutWord \/ Fields!RestoreWord
  PROVE  FieldsInv' /\ OthersKeep
<1>1. PICK j \in 0..(Len(Body) - 1) :
           /\ Along(j) /\ Fields!op = Body[j + 1] /\ j + 1 \in 0..Len(Body)
           /\ Tail(todo) = Behind(Body, j + 1)
  BY StepsOn
<1>2. CallOk /\ (loaded => Body[j + 1].do = "set")
  BY <1>1 DEF FieldsInv, Along
<1> SUFFICES \E bits : /\ todo' = Tail(todo) /\ loaded' = FALSE
                       /\ Made(j, Body[j + 1], bits)
  BY <1>1, MadeKeeps
<1>3. CASE Fields!Store
  <2>1. Made(j, Body[j + 1], (temp \ Fields!op.clear) \cup Fields!Value)
    <3>1. Fields!call' = Fields!call /\ disturbed' = disturbed /\ saved' = saved
      BY <1>3 DEF Fields!Store, Fields!Done
    <3>2. /\ function' = function /\ who' = who /\ addr1' = addr1 /\ before' = before
      BY <3>1, CallStays
    <3>3. /\ Fields!op.do = "set" /\ loaded = TRUE
          /\ Fields!Write(Fields!op.word, (temp \ Fields!op.clear) \cup Fields!Value)
      BY <1>2, <1>3 DEF Fields!Store, CallOk
    <3> QED  BY <1>1, <3>1, <3>2, <3>3 DEF Made
  <2> QED  BY <1>3, <2>1 DEF Fields!Store, Fields!Done
<1>4. CASE Fields!PutWord
  <2>1. Made(j, Body[j + 1], Fields!op.bits)
    <3>1. Fields!call' = Fields!call /\ disturbed' = disturbed /\ saved' = saved
      BY <1>4 DEF Fields!PutWord, Fields!Done
    <3>2. /\ function' = function /\ who' = who /\ addr1' = addr1 /\ before' = before
      BY <3>1, CallStays
    <3>3. Fields!op.do = "put" /\ Fields!Write(Fields!op.word, Fields!op.bits)
      BY <1>4 DEF Fields!PutWord
    <3> QED  BY <1>1, <3>1, <3>2, <3>3 DEF Made
  <2>2. loaded = FALSE
    BY <1>1, <1>2, <1>4 DEF Fields!PutWord, CallOk
  <2> QED  BY <1>4, <2>1, <2>2 DEF Fields!PutWord, Fields!Done
<1>5. CASE Fields!RestoreWord
  <2>1. Made(j, Body[j + 1], saved)
    <3>1. Fields!call' = Fields!call /\ disturbed' = disturbed
      BY <1>5 DEF Fields!RestoreWord, Fields!Done
    <3>2. /\ function' = function /\ who' = who /\ addr1' = addr1 /\ before' = before
      BY <3>1, CallStays
    <3>3. Fields!op.do = "restore" /\ Fields!Write(Fields!op.word, saved)
      BY <1>5 DEF Fields!RestoreWord
    <3> QED  BY <1>1, <3>1, <3>2, <3>3 DEF Made
  <2>2. loaded = FALSE
    BY <1>1, <1>2, <1>5 DEF Fields!RestoreWord, CallOk
  <2> QED  BY <1>5, <2>1, <2>2 DEF Fields!RestoreWord, Fields!Done
<1> QED  BY <1>3, <1>4, <1>5

\* So does every access.
LEMMA AccessKeeps ==
  ASSUME FieldsInv, Fields!Access
  PROVE  FieldsInv' /\ OthersKeep
<1>1. todo # <<>>
  BY DEF Fields!Access
<1>2. CASE Fields!Load
  BY <1>1, <1>2, LoadKeeps
<1>3. CASE Fields!Store \/ Fields!PutWord \/ Fields!RestoreWord
  BY <1>1, <1>3, WritesKeep
<1>4. CASE Fields!UnlessBit
  BY <1>1, <1>4, UnlessKeeps
<1>5. CASE Fields!SaveWord
  <2>1. /\ Fields!op.do = "save" /\ Fields!op.do \notin {"set", "put", "restore"}
        /\ Fields!regs' = Fields!regs /\ Fields!call' = Fields!call /\ disturbed' = disturbed
        /\ loaded' = loaded /\ todo' = Tail(todo) /\ saved' = Fields!Reading(Fields!op.word)
    BY <1>5 DEF Fields!SaveWord, Fields!Done
  <2>2. saved' = IF Fields!op.do = "save" THEN Fields!Reading(Fields!op.word) ELSE saved
    BY <2>1
  <2> QED  BY <1>1, <2>1, <2>2, QuietKeeps
<1>6. CASE Fields!WaitEnds
  <2>1. /\ Fields!op.do \in {"await", "holds", "clear", "brief"}
        /\ Fields!op.do \notin {"set", "put", "restore"}
        /\ Fields!regs' = Fields!regs /\ Fields!call' = Fields!call /\ disturbed' = disturbed
        /\ loaded' = loaded /\ todo' = Tail(todo) /\ saved' = saved
    BY <1>6 DEF Fields!WaitEnds, Fields!Done
  <2>2. saved' = IF Fields!op.do = "save" THEN Fields!Reading(Fields!op.word) ELSE saved
    BY <2>1
  <2> QED  BY <1>1, <2>1, <2>2, QuietKeeps
<1> QED  BY <1>2, <1>3, <1>4, <1>5, <1>6 DEF Fields!Access

\* The registers of a view.
LEMMA ViewIs ==
  ASSUME NEW r
  PROVE  /\ View(r)[0] = r[0] \ {9, 15}
         /\ \A k \in {4, 9, 16, 20, 27} : View(r)[k] = r[k]
<1>1. \A k \in {0, 4, 9, 16, 20, 27} : k \in Fields!Numbers /\ k \notin {1, 15}
  BY DEF Fields!Numbers
<1>2. \A k \in {0, 4, 9, 16, 20, 27} : View(r)[k] = r[k] \ Volatile(k)
  BY <1>1 DEF View
<1>3. Volatile(0) = {9, 15} /\ \A k \in {4, 9, 16, 20, 27} : Volatile(k) = {}
  BY DEF Volatile
<1>4. \A x : x \ {} = x
  OBVIOUS
<1>5. ASSUME NEW k \in {4, 9, 16, 20, 27} PROVE View(r)[k] = r[k]
  <2>1. View(r)[k] = r[k] \ Volatile(k) /\ Volatile(k) = {}
    BY <1>2, <1>3
  <2> QED  BY <2>1, <1>4
<1> QED  BY <1>2, <1>3, <1>5

\* The settings of a PHY are in its view.
LEMMA SettingsOfView ==
  ASSUME NEW r
  PROVE  Fields!Settings(View(r)) = Fields!Settings(r)
<1>1. /\ View(r)[0] = r[0] \ {9, 15}
      /\ View(r)[4] = r[4] /\ View(r)[9] = r[9] /\ View(r)[16] = r[16]
      /\ View(r)[20] = r[20] /\ View(r)[27] = r[27]
  BY ViewIs
<1>2. /\ 12 \in View(r)[0] <=> 12 \in r[0]
      /\ 14 \in View(r)[0] <=> 14 \in r[0]
      /\ 6 \in View(r)[0] <=> 6 \in r[0]
      /\ 13 \in View(r)[0] <=> 13 \in r[0]
      /\ View(r)[0] \ {6, 9, 12, 13, 14, 15} = r[0] \ {6, 9, 12, 13, 14, 15}
  BY <1>1
<1>3. PICK v : v = View(r)
  OBVIOUS
<1>4. /\ v[4] = r[4] /\ v[9] = r[9] /\ v[16] = r[16]
      /\ v[20] = r[20] /\ v[27] = r[27]
      /\ (12 \in v[0]) = (12 \in r[0])
      /\ (14 \in v[0]) = (14 \in r[0])
      /\ (6 \in v[0]) = (6 \in r[0])
      /\ (13 \in v[0]) = (13 \in r[0])
      /\ v[0] \ {6, 9, 12, 13, 14, 15} = r[0] \ {6, 9, 12, 13, 14, 15}
  BY <1>1, <1>2, <1>3
<1>5. Fields!Settings(v) = Fields!Settings(r)
  BY <1>4 DEF Fields!Settings
<1> QED  BY <1>3, <1>5

\* What the hardware does by itself keeps the invariant when it keeps the view of
\* the PHY the function is for, or counts as its reset.
Aside ==
  /\ Fields!progress' = Fields!progress /\ Fields!call' = Fields!call
  /\ \A r \in MacNames \ {"COMMAND_CONFIG"} : mac_registers'[r] = mac_registers[r]
  /\ \A b \in {0, 1} : b \in mac_registers'["COMMAND_CONFIG"] => b \in mac_registers["COMMAND_CONFIG"]
  /\ disturbed' \in BOOLEAN
  /\ who \in Populated /\ ~disturbed' =>
       ~disturbed /\ View(phy_registers'[who]) = View(phy_registers[who])

\* The variables of the progress, one by one.
LEMMA ProgressStays ==
  ASSUME Fields!progress' = Fields!progress
  PROVE  todo' = todo /\ temp' = temp /\ loaded' = loaded /\ saved' = saved
BY DEF Fields!progress

\* Then the invariant is kept.
LEMMA AsideKeeps ==
  ASSUME FieldsInv, Aside, RegistersOk'
  PROVE  FieldsInv'
<1>1. PICK j \in 0..Len(Body) : Along(j)
  BY DEF FieldsInv
<1>2. RegistersOk /\ CallOk /\ Selects(j) /\ SetsUp(j) /\ Promises(j) /\ todo = Behind(Body, j)
  BY <1>1 DEF FieldsInv, Along
<1>3. /\ function' = function /\ who' = who /\ addr1' = addr1 /\ before' = before
      /\ todo' = todo /\ temp' = temp /\ loaded' = loaded /\ saved' = saved
      /\ disturbed' \in BOOLEAN
  BY CallStays, ProgressStays DEF Aside
<1>4. Body' = Body
  BY <1>3, BodyStays
<1>5. CallOk'
  BY <1>2, <1>3 DEF CallOk, TseUp, Fields!Fn, Fields!OfPhy, Fields!OfAddress, Fields!OfMac, Fields!AddrOf
<1>6. /\ \A r \in MacNames \ {"COMMAND_CONFIG"} : mac_registers'[r] = mac_registers[r]
      /\ \A b \in {0, 1} : b \in mac_registers'["COMMAND_CONFIG"] => b \in mac_registers["COMMAND_CONFIG"]
  BY DEF Aside
<1>7. /\ mac_registers'["MDIO_ADDR1"] = mac_registers["MDIO_ADDR1"]
      /\ mac_registers'["MAC_0"] = mac_registers["MAC_0"]
      /\ mac_registers'["MAC_1"] = mac_registers["MAC_1"]
      /\ mac_registers'["FRM_LENGTH"] = mac_registers["FRM_LENGTH"]
      /\ mac_registers'["RX_SECTION_EMPTY"] = mac_registers["RX_SECTION_EMPTY"]
      /\ mac_registers'["TX_SECTION_EMPTY"] = mac_registers["TX_SECTION_EMPTY"]
  BY <1>6, NamesAre
<1>8. Selects(j)'
  BY <1>2, <1>3, <1>4, <1>7 DEF Selects, Fields!OfPhy, Fields!Fn, Fields!Bits
<1>9. SetsUp(j)'
  <2>1. CASE function # TseUp
    BY <1>2, <1>3, <1>7, <2>1 DEF SetsUp, MacIs, TseUp, Fields!Fn
  <2>2. CASE function = TseUp
    <3>1. mac_registers["COMMAND_CONFIG"] \cap {0, 1} = {} => mac_registers'["COMMAND_CONFIG"] \cap {0, 1} = {}
      BY <1>6
    <3> QED  BY <1>2, <1>3, <1>7, <2>2, <3>1 DEF SetsUp, TseUp, Fields!Fn
  <2> QED  BY <2>1, <2>2
<1>10. Promises(j)'
  <2> SUFFICES ASSUME who \in Populated, function.fn # "marvell_phy_cfg", ~disturbed'
               PROVE  /\ After(who, Behind(Body, j), View(phy_registers'[who])) = After(who, Body, View(before))
                      /\ loaded => LET k == Body[j + 1].word - 160 IN
                           temp \ Volatile(k) = phy_registers'[who][k] \ Volatile(k)
    BY <1>3, <1>4 DEF Promises
  <2>1. ~disturbed /\ View(phy_registers'[who]) = View(phy_registers[who])
    BY DEF Aside
  <2>2. /\ After(who, Behind(Body, j), View(phy_registers[who])) = After(who, Body, View(before))
        /\ loaded => LET k == Body[j + 1].word - 160 IN
                           temp \ Volatile(k) = phy_registers[who][k] \ Volatile(k)
    BY <1>2, <2>1 DEF Promises
  <2>3. ASSUME loaded
        PROVE  LET k == Body[j + 1].word - 160 IN
                 temp \ Volatile(k) = phy_registers'[who][k] \ Volatile(k)
    <3> DEFINE k == Body[j + 1].word - 160
    <3>1. j < Len(Body) /\ Body[j + 1].do = "set" /\ Len(Body) \in Nat
      BY <1>1, <1>2, <2>3, BodyIs DEF Along
    <3>2. j \in 0..(Len(Body) - 1)
      BY <3>1
    <3>3. FieldOp(Body[j + 1])
      BY <1>2, <3>1, <3>2, PhyOps
    <3>4. k \in Fields!Numbers /\ k \notin {1, 15}
      BY <3>3 DEF FieldOp, Fields!Numbers
    <3> HIDE DEF k
    <3>5. \A r : View(r)[k] = r[k] \ Volatile(k)
      BY <3>4 DEF View
    <3>6. phy_registers'[who][k] \ Volatile(k) = phy_registers[who][k] \ Volatile(k)
      BY <2>1, <3>5
    <3>7. temp \ Volatile(k) = phy_registers[who][k] \ Volatile(k)
      BY <2>2, <2>3 DEF k
    <3>8. temp \ Volatile(k) = phy_registers'[who][k] \ Volatile(k)
      BY <3>6, <3>7
    <3> QED  BY <3>8 DEF k
  <2> QED  BY <2>1, <2>2, <2>3
<1>11. Along(j)'
  BY <1>1, <1>3, <1>4, <1>8, <1>9, <1>10 DEF Along
<1>12. j \in 0..Len(Body')
  BY <1>4
<1> QED  BY <1>5, <1>11, <1>12 DEF FieldsInv

\* The registers of a PHY that changes by itself.
PhyBecomes(a, r) ==
  /\ mac_registers' = mac_registers /\ phy_registers' = [phy_registers EXCEPT ![a] = r]
  /\ r = [k \in Fields!Numbers |-> r[k]]
  /\ \A b \in 11..15 : b \in r[1] <=> b \in CapBits(a, 1)
  /\ \A b \in 12..13 : b \in r[15] <=> b \in CapBits(a, 15)

\* A PHY whose registers change aside.
LEMMA PhyBecomesKeeps ==
  ASSUME FieldsInv, NEW a \in Populated, NEW r, PhyBecomes(a, r),
         Fields!progress' = Fields!progress, Fields!call' = Fields!call, disturbed' \in BOOLEAN,
         (a = who /\ ~disturbed') => (~disturbed /\ View(r) = View(phy_registers[a])),
         ~disturbed' => ~disturbed,
         Fields!Resetting(a) \/ View(r) = View(phy_registers[a])
  PROVE  FieldsInv' /\ OthersKeep
<1>1. RegistersOk
  BY DEF FieldsInv
<1>2. /\ phy_registers'[a] = r
      /\ \A b \in Populated : b # a => phy_registers'[b] = phy_registers[b]
      /\ phy_registers' = [b \in Populated |-> phy_registers'[b]]
  BY <1>1 DEF RegistersOk, PhyBecomes
<1>3. RegistersOk'
  <2>1. ASSUME NEW b \in Populated
        PROVE  /\ phy_registers'[b] = [k \in Fields!Numbers |-> phy_registers'[b][k]]
               /\ \A n \in 11..15 : n \in phy_registers'[b][1] <=> n \in CapBits(b, 1)
               /\ \A n \in 12..13 : n \in phy_registers'[b][15] <=> n \in CapBits(b, 15)
    <3>1. CASE b = a
      BY <1>2, <3>1 DEF PhyBecomes
    <3>2. CASE b # a
      BY <1>1, <1>2, <3>2 DEF RegistersOk
    <3> QED  BY <3>1, <3>2
  <2>2. mac_registers' = [n \in MacNames |-> mac_registers'[n]]
    BY <1>1 DEF RegistersOk, PhyBecomes
  <2> QED  BY <1>2, <2>1, <2>2 DEF RegistersOk, CapBits
<1>4. Aside
  <2>1. mac_registers' = mac_registers
    BY DEF PhyBecomes
  <2>2. ASSUME who \in Populated, ~disturbed'
        PROVE  ~disturbed /\ View(phy_registers'[who]) = View(phy_registers[who])
    <3>1. CASE a = who
      BY <1>2, <2>2, <3>1
    <3>2. CASE a # who
      BY <1>2, <2>2, <3>2
    <3> QED  BY <3>1, <3>2
  <2> QED  BY <2>1, <2>2 DEF Aside
<1>5. FieldsInv'
  BY <1>3, <1>4, AsideKeeps
<1>6. OthersKeep
  <2> SUFFICES ASSUME NEW b \in Populated,
                      Fields!Settings(phy_registers'[b]) # Fields!Settings(phy_registers[b])
               PROVE  Fields!Resetting(b)
    BY DEF OthersKeep
  <2>1. b = a
    BY <1>2
  <2>2. View(r) = View(phy_registers[a]) => Fields!Settings(r) = Fields!Settings(phy_registers[a])
    BY SettingsOfView
  <2> QED  BY <1>2, <2>1, <2>2
<1> QED  BY <1>5, <1>6

\* The modes of a PHY that its registers say.
LEMMA CapsOfReset ==
  ASSUME NEW a, NEW r, r = [k \in Fields!Numbers |-> r[k]]
  PROVE  LET q == Fields!AfterReset(a, r) IN
         /\ q = [k \in Fields!Numbers |-> q[k]]
         /\ \A b \in 11..15 : b \in q[1] <=> b \in CapBits(a, 1)
         /\ \A b \in 12..13 : b \in q[15] <=> b \in CapBits(a, 15)
<1> DEFINE q == Fields!AfterReset(a, r)
<1>1. {0, 1, 4, 9, 15} \subseteq Fields!Numbers
  BY DEF Fields!Numbers
<1>2. /\ q = [k \in Fields!Numbers |-> q[k]]
      /\ q[1] = Fields!Encoded(Able[a], Fields!ModeBits.status) \cup {3}
      /\ q[15] = Fields!Encoded(Able[a], Fields!ModeBits.ext)
  <2> DEFINE A == {Fields!Control.AN_ENA}
             B == Fields!Encoded(Able[a], Fields!ModeBits.status) \cup {3}
             C == Fields!Encoded(Able[a], Fields!ModeBits.adv) \cup {0}
             D == Fields!Encoded(Able[a], Fields!ModeBits.gigabit)
             E == Fields!Encoded(Able[a], Fields!ModeBits.ext)
  <2>1. q = [r EXCEPT ![0] = A, ![1] = B, ![4] = C, ![9] = D, ![15] = E]
    BY DEF Fields!AfterReset, Fields!Mdio, Fields!Stat
  <2> HIDE DEF A, B, C, D, E, q
  <2>2. PICK N : N = Fields!Numbers
    OBVIOUS
  <2>3. {0, 1, 4, 9, 15} \subseteq N /\ r = [k \in N |-> r[k]]
    BY <1>1, <2>2
  <2> DEFINE r2 == [r EXCEPT ![0] = A, ![1] = B]
             r4 == [r2 EXCEPT ![4] = C, ![9] = D]
  <2>4. r2[1] = B /\ r2 = [k \in N |-> r2[k]]
    BY <2>3
  <2>5. q = [r4 EXCEPT ![15] = E]
    BY <2>1
  <2> HIDE DEF r2
  <2>6. r4[1] = B /\ r4 = [k \in N |-> r4[k]]
    <3>1. 1 \in N /\ 4 \in N /\ 9 \in N
      BY <2>3
    <3>2. r4[1] = r2[1]
      BY <2>4, <3>1
    <3>3. r4 = [k \in N |-> r4[k]]
      BY <2>4, <3>1
    <3> QED  BY <2>4, <3>2, <3>3
  <2> HIDE DEF r4
  <2>7. q[1] = B /\ q[15] = E /\ q = [k \in N |-> q[k]]
    BY <2>3, <2>5, <2>6
  <2> QED  BY <2>2, <2>7 DEF B, E
<1> HIDE DEF q
<1>3. /\ q[1] = CapBits(a, 1) \cup {3}
      /\ q[15] = CapBits(a, 15)
  BY <1>2 DEF CapBits
<1>4. \A b \in 11..15 : b \notin {3}
  OBVIOUS
<1>5. /\ \A b \in 11..15 : b \in q[1] <=> b \in CapBits(a, 1)
      /\ \A b \in 12..13 : b \in q[15] <=> b \in CapBits(a, 15)
  BY <1>3, <1>4
<1> QED  BY <1>2, <1>5 DEF q

\* Resets and negotiation keep the invariant.
LEMMA HardwareKeeps ==
  ASSUME FieldsInv, Fields!Hardware
  PROVE  FieldsInv' /\ OthersKeep
<1>1. RegistersOk /\ CallOk /\ Fields!progress' = Fields!progress /\ Fields!call' = Fields!call
  BY DEF FieldsInv, Fields!Hardware
<1>2. disturbed \in BOOLEAN
  BY <1>1 DEF CallOk
<1>3. CASE Fields!MacResets
  <2>1. /\ mac_registers' = [mac_registers EXCEPT !["COMMAND_CONFIG"] = @ \ {13, 0, 1}]
        /\ phy_registers' = phy_registers /\ disturbed' = disturbed
    BY <1>3 DEF Fields!MacResets, Fields!Cmd
  <2>2. mac_registers = [r \in MacNames |-> mac_registers[r]] /\ "COMMAND_CONFIG" \in MacNames
    BY <1>1, NamesAre DEF RegistersOk
  <2>3. RegistersOk'
    <3>1. mac_registers' = [r \in MacNames |-> mac_registers'[r]]
      BY <2>1, <2>2
    <3> QED  BY <1>1, <2>1, <3>1 DEF RegistersOk, CapBits
  <2>4. Aside
    <3>1. mac_registers'["COMMAND_CONFIG"] = mac_registers["COMMAND_CONFIG"] \ {13, 0, 1}
      BY <2>1, <2>2
    <3>2. \A r \in MacNames \ {"COMMAND_CONFIG"} : mac_registers'[r] = mac_registers[r]
      BY <2>1, <2>2
    <3> QED  BY <1>1, <1>2, <2>1, <3>1, <3>2 DEF Aside
  <2>5. FieldsInv'
    BY <2>3, <2>4, AsideKeeps
  <2> QED  BY <2>1, <2>5 DEF OthersKeep
<1>4. ASSUME NEW a \in Populated, Fields!PhyResets(a)
      PROVE  FieldsInv' /\ OthersKeep
  <2> DEFINE p == phy_registers[a]
  <2>1. p = [k \in Fields!Numbers |-> p[k]]
    BY <1>1 DEF RegistersOk
  <2>2. /\ Fields!Resetting(a) /\ phy_registers' = [phy_registers EXCEPT ![a] = Fields!AfterReset(a, p)]
        /\ disturbed' = (disturbed \/ a = who) /\ mac_registers' = mac_registers
    BY <1>4 DEF Fields!PhyResets
  <2> HIDE DEF p
  <2>3. PhyBecomes(a, Fields!AfterReset(a, p))
    BY <2>1, <2>2, CapsOfReset DEF PhyBecomes
  <2>4. /\ disturbed' \in BOOLEAN /\ (~disturbed' => ~disturbed)
        /\ a = who => disturbed'
    BY <1>2, <2>2
  <2> QED  BY <1>1, <2>2, <2>3, <2>4, PhyBecomesKeeps
<1>5. ASSUME NEW a \in Populated, Fields!Restarts(a) \/ Fields!Negotiated(a)
      PROVE  FieldsInv' /\ OthersKeep
  <2> DEFINE p == phy_registers[a]
             r == phy_registers'[a]
  <2>1. /\ p = [k \in Fields!Numbers |-> p[k]]
        /\ \A b \in 11..15 : b \in p[1] <=> b \in CapBits(a, 1)
        /\ \A b \in 12..13 : b \in p[15] <=> b \in CapBits(a, 15)
        /\ phy_registers = [b \in Populated |-> phy_registers[b]]
    BY <1>1 DEF RegistersOk
  <2>2. {0, 1} \subseteq Fields!Numbers /\ 15 \in Fields!Numbers /\ 15 \notin {0, 1}
    BY DEF Fields!Numbers
  <2>3. /\ mac_registers' = mac_registers /\ disturbed' = disturbed
        /\ phy_registers' = [phy_registers EXCEPT ![a] = r]
        /\ r = [k \in Fields!Numbers |-> r[k]]
        /\ r[0] = p[0] \/ r[0] = p[0] \ {9}
        /\ r[1] = p[1] \ {5} \/ r[1] = p[1] \cup {5}
        /\ \A k \in Fields!Numbers \ {0, 1} : r[k] = p[k]
    <3>1. CASE Fields!Restarts(a)
      <4>1. /\ mac_registers' = mac_registers /\ disturbed' = disturbed
            /\ phy_registers' = [phy_registers EXCEPT ![a][0] = @ \ {9}, ![a][1] = @ \ {5}]
        BY <3>1 DEF Fields!Restarts, Fields!Mdio, Fields!Control, Fields!Stat
      <4>2. r = [p EXCEPT ![0] = p[0] \ {9}, ![1] = p[1] \ {5}]
        BY <2>1, <2>2, <4>1
      <4>3. phy_registers' = [phy_registers EXCEPT ![a] = [p EXCEPT ![0] = p[0] \ {9}, ![1] = p[1] \ {5}]]
        BY <2>1, <2>2, <4>1
      <4> HIDE DEF p, r
      <4> QED  BY <2>1, <2>2, <4>1, <4>2, <4>3, ZenonT(60)
    <3>2. CASE Fields!Negotiated(a)
      <4>1. /\ mac_registers' = mac_registers /\ disturbed' = disturbed
            /\ phy_registers' = [phy_registers EXCEPT ![a][1] = @ \cup {5}]
        BY <3>2 DEF Fields!Negotiated, Fields!Mdio, Fields!Stat
      <4>2. r = [p EXCEPT ![1] = p[1] \cup {5}]
        BY <2>1, <2>2, <4>1
      <4>3. phy_registers' = [phy_registers EXCEPT ![a] = [p EXCEPT ![1] = p[1] \cup {5}]]
        BY <2>1, <2>2, <4>1
      <4> HIDE DEF p, r
      <4>4. /\ r = [k \in Fields!Numbers |-> r[k]] /\ r[0] = p[0] /\ r[1] = p[1] \cup {5}
            /\ \A k \in Fields!Numbers \ {0, 1} : r[k] = p[k]
        BY <2>1, <2>2, <4>2
      <4>5. phy_registers' = [phy_registers EXCEPT ![a] = r]
        BY <4>2, <4>3
      <4> QED  BY <4>1, <4>4, <4>5
    <3> QED  BY <1>5, <3>1, <3>2
  <2> HIDE DEF p, r
  <2>4. PhyBecomes(a, r)
    <3>1. \A b \in 11..15 : b \in r[1] <=> b \in p[1]
      <4>1. \A b \in 11..15 : b # 5
        OBVIOUS
      <4> QED  BY <2>3, <4>1
    <3>2. r[15] = p[15]
      BY <2>2, <2>3
    <3> QED  BY <2>1, <2>3, <3>1, <3>2 DEF PhyBecomes
  <2>5. View(r) = View(p)
    <3> DEFINE R(k) == IF k \in {1, 15} THEN {} ELSE r[k] \ Volatile(k)
               P(k) == IF k \in {1, 15} THEN {} ELSE p[k] \ Volatile(k)
    <3>1. ASSUME NEW k \in Fields!Numbers PROVE R(k) = P(k)
      <4>1. CASE k = 0
        BY <2>3, <4>1 DEF Volatile
      <4>2. CASE k = 1
        BY <4>2
      <4>3. CASE k \notin {0, 1}
        BY <2>3, <4>3
      <4> QED  BY <4>1, <4>2, <4>3
    <3>2. View(r) = [k \in Fields!Numbers |-> R(k)] /\ View(p) = [k \in Fields!Numbers |-> P(k)]
      BY DEF View
    <3> HIDE DEF R, P
    <3> QED  BY <3>1, <3>2
  <2>6. View(r) = View(phy_registers[a])
    BY <2>5 DEF p
  <2> QED  BY <1>1, <1>2, <2>3, <2>4, <2>6, PhyBecomesKeeps
<1> QED  BY <1>3, <1>4, <1>5 DEF Fields!Hardware

\* Every function has an access to make.
LEMMA OpsAre ==
  ASSUME NEW g \in (Fields!OfPhy \cup Fields!OfAddress) \cup Fields!OfMac, NEW a
  PROVE  \E n \in Nat : n > 0 /\ IsRow(Fields!Ops(g, a), n)
<1>1. CASE g \in Fields!OfPhy
  <2>0. PICK m \in 1..3 : \E M : Chosen(g, a, M, m)
    BY <1>1, OpsOfPhy DEF Choice
  <2>1. PICK M : Chosen(g, a, M, m)
    BY <2>0
  <2>2. Fields!Ops(g, a) = Fields!Selecting(a, M) /\ IsRow(M, m) /\ m \in Nat
    BY <2>1 DEF Chosen
  <2> HIDE DEF IsRow
  <2>3. IsRow(Fields!Ops(g, a), m + 3)
    BY <2>2, SelectingIs
  <2>4. m + 3 \in Nat /\ m + 3 > 0
    OBVIOUS
  <2> QED  BY <2>3, <2>4
<1>2. CASE g \in Fields!OfAddress
  <2>1. PICK m \in 1..3 : IsRow(Fields!Ops(g, a), m)
    BY <1>2, OpsOfAddress
  <2>2. m \in Nat /\ m > 0
    OBVIOUS
  <2> QED  BY <2>1, <2>2
<1>3. CASE g \in Fields!OfMac
  <2>1. PICK m \in 1..4 : IsRow(Fields!Ops(g, a), m)
    BY <1>3, OpsOfMac
  <2>2. m \in Nat /\ m > 0
    OBVIOUS
  <2> QED  BY <2>1, <2>2
<1> QED  BY <1>1, <1>2, <1>3

\* The function has made all its accesses when it returns.
LEMMA AtEnd ==
  ASSUME FieldsInv, todo = <<>>
  PROVE  Along(Len(Body)) /\ Len(Body) \in Nat /\ loaded = FALSE
<1>1. PICK j \in 0..Len(Body) : Along(j)
  BY DEF FieldsInv
<1>2. CallOk /\ todo = Behind(Body, j)
  BY <1>1 DEF FieldsInv, Along
<1>3. Len(Body) \in Nat /\ IsRow(Body, Len(Body))
  BY <1>2, BodyIs
<1>4. j = Len(Body)
  <2>1. SUFFICES ASSUME j # Len(Body) PROVE FALSE
    OBVIOUS
  <2>2. j \in 0..(Len(Body) - 1)
    BY <1>3, <2>1
  <2>3. Behind(Body, j) # <<>>
    BY <1>3, <2>2, BehindIs
  <2> QED  BY <1>2, <2>3
<1>5. Along(Len(Body))
  BY <1>1, <1>4
<1>6. ~(Len(Body) < Len(Body))
  BY <1>3
<1>7. loaded = FALSE
  BY <1>2, <1>5, <1>6 DEF Along, CallOk
<1> QED  BY <1>3, <1>5, <1>7

\* And the MAC is set up by then.
LEMMA MacAtEnd ==
  ASSUME FieldsInv, todo = <<>>
  PROVE  MacIs(mac_registers)
<1>1. Along(Len(Body)) /\ CallOk
  BY AtEnd DEF FieldsInv
<1>2. SetsUp(Len(Body))
  BY <1>1 DEF Along
<1>3. CASE function # TseUp
  BY <1>2, <1>3 DEF SetsUp
<1>4. CASE function = TseUp
  <2>1. Len(Body) = 23
    BY <1>1, <1>4, BodyIs
  <2>2. SetsUp(23)
    BY <1>2, <2>1
  <2> QED  BY <1>4, <2>2 DEF SetsUp, MacIs
<1> QED  BY <1>3, <1>4

\* A call begins.
LEMMA BeginKeeps ==
  ASSUME FieldsInv, NEW g, NEW a, Fields!Begin(g, a),
         \/ (g \in Fields!OfPhy /\ a \in Populated)
         \/ (g \in Fields!OfAddress /\ a \in Populated /\ Fields!Selected = a)
         \/ (g \in Fields!OfMac /\ a = -1)
  PROVE  FieldsInv' /\ OthersKeep
<1>1. /\ todo = <<>> /\ function' = g /\ who' = a /\ todo' = Fields!Ops(g, a)
      /\ addr1' = mac_registers["MDIO_ADDR1"]
      /\ before' = IF a = -1 THEN <<>> ELSE phy_registers[a]
      /\ disturbed' \in BOOLEAN
      /\ Fields!regs' = Fields!regs /\ temp' = temp /\ loaded' = loaded /\ saved' = saved
  BY DEF Fields!Begin, Fields!None, Fields!regs
<1>2. loaded = FALSE /\ MacIs(mac_registers) /\ RegistersOk
  BY <1>1, AtEnd, MacAtEnd DEF FieldsInv
<1>3. mac_registers' = mac_registers /\ phy_registers' = phy_registers
  BY <1>1, RegsStay
<1>4. g # TseUp /\ g.fn # "tse_init" /\ (g \in Fields!OfMac => g \notin (Fields!OfPhy \cup Fields!OfAddress))
      /\ (g \in Fields!OfPhy => g \notin Fields!OfAddress)
  BY KindsApart
<1>5. Body' = Fields!Ops(g, a)
  BY <1>1, <1>4 DEF Body
<1>6. PICK n \in Nat : n > 0 /\ IsRow(Fields!Ops(g, a), n)
  BY OpsAre
<1>7. Len(Body') = n /\ Behind(Body, 0)' = Body'
  <2>1. Len(Fields!Ops(g, a)) = n
    BY <1>6, RowIs
  <2>2. Behind(Fields!Ops(g, a), 0) = Fields!Ops(g, a)
    BY <1>6, BehindIs
  <2>3. Behind(Body, 0)' = Behind(Fields!Ops(g, a), 0)
    BY <1>5 DEF Behind
  <2> QED  BY <1>5, <2>1, <2>2, <2>3
<1>8. RegistersOk'
  BY <1>2, <1>3 DEF RegistersOk, CapBits
<1>9. CallOk'
  <2>1. g \in Fields!OfAddress => Fields!AddrOf(mac_registers["MDIO_ADDR1"]) = a
    BY <1>4 DEF Fields!Selected
  <2>2. \/ g \in Fields!OfPhy \cup Fields!OfAddress /\ a \in Populated
        \/ g \in Fields!OfMac \cup {TseUp} /\ a = -1
    OBVIOUS
  <2>3. (loaded \in BOOLEAN)'
    BY <1>1, <1>2
  <2> QED  BY <1>1, <2>1, <2>2, <2>3 DEF CallOk, TseUp, Fields!Fn, Fields!OfPhy, Fields!OfAddress, Fields!OfMac, Fields!AddrOf
<1>10. Selects(0)'
  <2>1. 0 \notin 2..(n - 1) /\ 0 \notin 1..(n - 1)
    OBVIOUS
  <2> QED  BY <1>1, <1>3, <1>7, <2>1 DEF Selects
<1>11. SetsUp(0)'
  BY <1>1, <1>2, <1>3, <1>4 DEF SetsUp, MacIs, TseUp, Fields!Fn
<1>12. Promises(0)'
  <2>1. a \in Populated => before' = phy_registers'[a]
    BY <1>1, <1>3, AddressesAre
  <2> QED  BY <1>1, <1>2, <1>7, <2>1 DEF Promises
<1>13. Along(0)'
  BY <1>1, <1>2, <1>5, <1>7, <1>10, <1>11, <1>12 DEF Along
<1>14. 0 \in 0..Len(Body')
  BY <1>7
<1>15. OthersKeep
  BY <1>3 DEF OthersKeep
<1> QED  BY <1>8, <1>9, <1>13, <1>14, <1>15 DEF FieldsInv

\* Beginning any of the calls keeps the invariant.
LEMMA CallKeeps ==
  ASSUME FieldsInv, Fields!Call
  PROVE  FieldsInv' /\ OthersKeep
BY BeginKeeps DEF Fields!Call, Fields!None

\* At first the firmware has called tse_init.
LEMMA FieldsInit ==
  ASSUME Fields!MdioInit
  PROVE  FieldsInv
<1>1. /\ mac_registers = [r \in MacNames |-> {}]
      /\ phy_registers = [a \in Populated |-> Fields!AfterReset(a, [k \in Fields!Numbers |-> {1, 10, 14}])]
      /\ function = TseUp /\ who = -1 /\ todo = Fields!tse_init /\ temp = {} /\ loaded = FALSE
      /\ addr1 = {} /\ disturbed = FALSE
  BY DEF Fields!MdioInit, MacNames, TseUp, Fields!None
<1>2. RegistersOk
  <2>1. mac_registers = [r \in MacNames |-> mac_registers[r]]
    BY <1>1
  <2>2. ASSUME NEW a \in Populated
        PROVE  /\ phy_registers[a] = [k \in Fields!Numbers |-> phy_registers[a][k]]
               /\ \A b \in 11..15 : b \in phy_registers[a][1] <=> b \in CapBits(a, 1)
               /\ \A b \in 12..13 : b \in phy_registers[a][15] <=> b \in CapBits(a, 15)
    <3> DEFINE r == [k \in Fields!Numbers |-> {1, 10, 14}]
    <3>1. r = [k \in Fields!Numbers |-> r[k]]
      OBVIOUS
    <3>2. phy_registers[a] = Fields!AfterReset(a, r)
      BY <1>1
    <3> HIDE DEF r
    <3> QED  BY <3>1, <3>2, CapsOfReset
  <2>3. phy_registers = [a \in Populated |-> phy_registers[a]]
    BY <1>1
  <2> QED  BY <2>1, <2>2, <2>3 DEF RegistersOk
<1>3. function \notin Fields!OfPhy /\ function \notin Fields!OfAddress
  BY <1>1, KindsApart
<1>4. CallOk
  BY <1>1, <1>3 DEF CallOk
<1>5. Body = Fields!tse_init /\ Len(Body) \in Nat /\ IsRow(Body, Len(Body))
  BY <1>1, <1>4, BodyIs
<1>6. Behind(Body, 0) = Body
  BY <1>5, BehindIs
<1>7. "MDIO_ADDR1" \in MacNames /\ "COMMAND_CONFIG" \in MacNames
  BY NamesAre
<1>8. Selects(0)
  BY <1>1, <1>3, <1>7 DEF Selects
<1>9. SetsUp(0)
  BY <1>1, <1>7 DEF SetsUp
<1>10. Promises(0)
  BY <1>1, AddressesAre DEF Promises
<1>11. Along(0)
  BY <1>1, <1>5, <1>6, <1>8, <1>9, <1>10 DEF Along
<1>12. 0 \in 0..Len(Body)
  BY <1>5
<1> QED  BY <1>2, <1>4, <1>11, <1>12 DEF FieldsInv

\* What a field's write makes of a view.
Edit(v, k, c, b) ==
  [n \in Fields!Numbers |-> IF n = k THEN ((v[n] \ c) \cup b) \ Volatile(n) ELSE v[n]]
LEMMA ChangedIs ==
  ASSUME NEW a, NEW k \in 0..31, NEW c, NEW b, NEW cap, NEW v
  PROVE  Changed(a, SetBits(160 + k, c, b, cap), v)
           = Edit(v, k, c, BitsFor(a, SetBits(160 + k, c, b, cap)))
<1> DEFINE o == SetBits(160 + k, c, b, cap)
<1>1. o.do = "set" /\ o.word = 160 + k /\ o.clear = c
  BY DEF SetBits
<1>2. o.word - 160 = k
  BY <1>1
<1> HIDE DEF o
<1> DEFINE F(n) == IF n = o.word - 160 THEN ((v[o.word - 160] \ o.clear) \cup BitsFor(a, o)) \ Volatile(o.word - 160)
                   ELSE v[n]
           G(n) == IF n = k THEN ((v[n] \ c) \cup BitsFor(a, o)) \ Volatile(n) ELSE v[n]
<1>3. \A n \in Fields!Numbers : F(n) = G(n)
  BY <1>1, <1>2
<1>4. Changed(a, o, v) = [n \in Fields!Numbers |-> F(n)]
  BY <1>1, <1>2 DEF Changed
<1>5. Edit(v, k, c, BitsFor(a, o)) = [n \in Fields!Numbers |-> G(n)]
  BY DEF Edit
<1> HIDE DEF F, G
<1>6. Changed(a, o, v) = Edit(v, k, c, BitsFor(a, o))
  BY <1>3, <1>4, <1>5
<1> QED  BY <1>6 DEF o

\* That write, register by register.
LEMMA EditIs ==
  ASSUME NEW v, NEW k, NEW c, NEW b
  PROVE  /\ k = 0 => Edit(v, k, c, b)[0] = ((v[0] \ c) \cup b) \ {9, 15}
         /\ k \in {4, 9, 16, 20, 27} => Edit(v, k, c, b)[k] = (v[k] \ c) \cup b
         /\ \A n \in {0, 4, 9, 16, 20, 27} : n # k => Edit(v, k, c, b)[n] = v[n]
<1>1. \A n \in {0, 4, 9, 16, 20, 27} : n \in Fields!Numbers
  BY DEF Fields!Numbers
<1>2. \A n \in Fields!Numbers : Edit(v, k, c, b)[n]
        = IF n = k THEN ((v[n] \ c) \cup b) \ Volatile(n) ELSE v[n]
  BY DEF Edit
<1>3. Volatile(0) = {9, 15} /\ \A n \in {4, 9, 16, 20, 27} : Volatile(n) = {}
  BY DEF Volatile
<1>4. ASSUME k = 0 PROVE Edit(v, k, c, b)[0] = ((v[0] \ c) \cup b) \ {9, 15}
  BY <1>1, <1>2, <1>3, <1>4
<1>5. ASSUME k \in {4, 9, 16, 20, 27} PROVE Edit(v, k, c, b)[k] = (v[k] \ c) \cup b
  <2>1. Edit(v, k, c, b)[k] = ((v[k] \ c) \cup b) \ Volatile(k) /\ Volatile(k) = {}
    BY <1>1, <1>2, <1>3, <1>5
  <2> QED  BY <2>1
<1>6. \A n \in {0, 4, 9, 16, 20, 27} : n # k => Edit(v, k, c, b)[n] = v[n]
  BY <1>1, <1>2
<1> QED  BY <1>4, <1>5, <1>6

\* Rows of accesses, and those behind a change of MDIO_ADDR1.
LEMMA AfterOne ==
  ASSUME NEW a, NEW v, NEW x
  PROVE  After(a, <<x>>, v) = Changed(a, x, v)
<1>1. PICK s : s = <<x>>
  OBVIOUS
<1>2. Len(s) = 1 /\ s[1] = x
  BY <1>1
<1>3. /\ \A w : Nth(a, s, 1, w) = Changed(a, x, w)
      /\ \A n \in 2..6 : \A w : Nth(a, s, n, w) = w
  BY <1>2 DEF Nth
<1>4. 2 \in 2..6 /\ 3 \in 2..6 /\ 4 \in 2..6 /\ 5 \in 2..6 /\ 6 \in 2..6
  OBVIOUS
<1>5. After(a, s, v) = Changed(a, x, v)
  BY <1>3, <1>4 DEF After
<1> QED  BY <1>1, <1>5

\* What three accesses make of a view.
LEMMA AfterThree ==
  ASSUME NEW a, NEW v, NEW x, NEW y, NEW z
  PROVE  After(a, <<x, y, z>>, v) = Changed(a, z, Changed(a, y, Changed(a, x, v)))
<1>1. PICK t : t = <<x, y, z>>
  OBVIOUS
<1>2. Len(t) = 3 /\ t[1] = x /\ t[2] = y /\ t[3] = z
  BY <1>1
<1>3. /\ \A w : Nth(a, t, 1, w) = Changed(a, x, w)
      /\ \A w : Nth(a, t, 2, w) = Changed(a, y, w)
      /\ \A w : Nth(a, t, 3, w) = Changed(a, z, w)
      /\ \A n \in 4..6 : \A w : Nth(a, t, n, w) = w
  BY <1>2 DEF Nth
<1>4. 4 \in 4..6 /\ 5 \in 4..6 /\ 6 \in 4..6
  OBVIOUS
<1>5. After(a, t, v) = Changed(a, z, Changed(a, y, Changed(a, x, v)))
  BY <1>3, <1>4 DEF After
<1> QED  BY <1>1, <1>5

\* The accesses to MDIO_ADDR1 make nothing of it.
LEMMA AfterSelecting ==
  ASSUME NEW a, NEW v, NEW M, NEW m \in 1..3, IsRow(M, m)
  PROVE  /\ m = 1 => After(a, Fields!Selecting(a, M), v) = Changed(a, M[1], v)
         /\ m = 2 => After(a, Fields!Selecting(a, M), v) = Changed(a, M[2], Changed(a, M[1], v))
         /\ m = 3 => After(a, Fields!Selecting(a, M), v)
                       = Changed(a, M[3], Changed(a, M[2], Changed(a, M[1], v)))
<1>1. PICK s : s = Fields!Selecting(a, M)
  OBVIOUS
<1>2. m \in Nat /\ m + 3 \in Nat
  OBVIOUS
<1> HIDE DEF IsRow
<1>3. /\ IsRow(s, m + 3)
      /\ s[1] = Fields!Save(16) /\ s[2] = Fields!Put(16, Fields!Bits(a))
      /\ \A n \in 1..m : s[n + 2] = M[n]
      /\ s[m + 3] = Fields!Restore(16)
  <2>1. ASSUME NEW r, r = Fields!Selecting(a, M)
        PROVE  /\ IsRow(r, m + 3)
               /\ r[1] = Fields!Save(16) /\ r[2] = Fields!Put(16, Fields!Bits(a))
               /\ \A n \in 1..m : r[n + 2] = M[n]
               /\ r[m + 3] = Fields!Restore(16)
    <3>1. m \in Nat /\ IsRow(M, m)
      BY <1>2
    <3> QED  BY <2>1, <3>1, SelectingIs
  <2> QED  BY <1>1, <2>1
<1>4. Len(s) = m + 3
  BY <1>2, <1>3, RowIs
<1>5. \A w : /\ Changed(a, Fields!Save(16), w) = w
             /\ Changed(a, Fields!Put(16, Fields!Bits(a)), w) = w
             /\ Changed(a, Fields!Restore(16), w) = w
  <2>1. Fields!Save(16).do # "set" /\ Fields!Restore(16).do # "set"
    BY DEF Fields!Save, Fields!Restore, Fields!Op
  <2>2. ASSUME NEW bits PROVE Fields!Put(16, bits).do # "set"
    BY DEF Fields!Put, Fields!Op
  <2> QED  BY <2>1, <2>2 DEF Changed
<1>6. \A w : Nth(a, s, 1, w) = w /\ Nth(a, s, 2, w) = w
  <2>1. 1 <= Len(s) /\ 2 <= Len(s)
    BY <1>4
  <2> QED  BY <1>3, <1>5, <2>1 DEF Nth
<1>7. ASSUME NEW n \in 1..m PROVE \A w : Nth(a, s, n + 2, w) = Changed(a, M[n], w)
  <2>1. n + 2 <= Len(s)
    BY <1>4
  <2> QED  BY <1>3, <2>1 DEF Nth
<1>8. \A w : Nth(a, s, m + 3, w) = w
  <2>1. m + 3 <= Len(s)
    BY <1>4
  <2> QED  BY <1>3, <1>5, <2>1 DEF Nth
<1>9. ASSUME NEW n \in Nat, n > m + 3 PROVE \A w : Nth(a, s, n, w) = w
  <2>1. ~(n <= Len(s))
    BY <1>4, <1>9
  <2> QED  BY <2>1 DEF Nth
<1>10. CASE m = 1
  <2>1. \A w : /\ Nth(a, s, 3, w) = Changed(a, M[1], w) /\ Nth(a, s, 4, w) = w
               /\ Nth(a, s, 5, w) = w /\ Nth(a, s, 6, w) = w
    <3>1. 1 \in 1..m /\ 1 + 2 = 3 /\ m + 3 = 4 /\ 5 \in Nat /\ 5 > m + 3 /\ 6 \in Nat /\ 6 > m + 3
      BY <1>10
    <3>2. \A w : Nth(a, s, 1 + 2, w) = Changed(a, M[1], w)
      BY <1>7, <3>1
    <3>3. \A w : Nth(a, s, 5, w) = w /\ Nth(a, s, 6, w) = w
      BY <1>9, <3>1
    <3> QED  BY <1>8, <3>1, <3>2, <3>3
  <2>2. After(a, s, v) = Changed(a, M[1], v)
    BY <1>6, <2>1 DEF After
  <2>3. m # 2 /\ m # 3
    BY <1>10
  <2> QED  BY <1>1, <2>2, <2>3
<1>11. CASE m = 2
  <2>1. \A w : /\ Nth(a, s, 3, w) = Changed(a, M[1], w) /\ Nth(a, s, 4, w) = Changed(a, M[2], w)
               /\ Nth(a, s, 5, w) = w /\ Nth(a, s, 6, w) = w
    <3>1. /\ 1 \in 1..m /\ 1 + 2 = 3 /\ 2 \in 1..m /\ 2 + 2 = 4
          /\ m + 3 = 5 /\ 6 \in Nat /\ 6 > m + 3
      BY <1>11
    <3>2. \A w : /\ Nth(a, s, 1 + 2, w) = Changed(a, M[1], w)
                 /\ Nth(a, s, 2 + 2, w) = Changed(a, M[2], w)
      BY <1>7, <3>1
    <3>3. \A w : Nth(a, s, 6, w) = w
      BY <1>9, <3>1
    <3> QED  BY <1>8, <3>1, <3>2, <3>3
  <2>2. After(a, s, v) = Changed(a, M[2], Changed(a, M[1], v))
    BY <1>6, <2>1 DEF After
  <2>3. m # 1 /\ m # 3
    BY <1>11
  <2> QED  BY <1>1, <2>2, <2>3
<1>12. CASE m = 3
  <2>1. \A w : /\ Nth(a, s, 3, w) = Changed(a, M[1], w) /\ Nth(a, s, 4, w) = Changed(a, M[2], w)
               /\ Nth(a, s, 5, w) = Changed(a, M[3], w) /\ Nth(a, s, 6, w) = w
    <3>1. /\ 1 \in 1..m /\ 1 + 2 = 3 /\ 2 \in 1..m /\ 2 + 2 = 4 /\ 3 \in 1..m /\ 3 + 2 = 5
          /\ m + 3 = 6
      BY <1>12
    <3>2. \A w : /\ Nth(a, s, 1 + 2, w) = Changed(a, M[1], w)
                 /\ Nth(a, s, 2 + 2, w) = Changed(a, M[2], w)
                 /\ Nth(a, s, 3 + 2, w) = Changed(a, M[3], w)
      BY <1>7, <3>1
    <3> QED  BY <1>8, <3>1, <3>2
  <2>2. After(a, s, v) = Changed(a, M[3], Changed(a, M[2], Changed(a, M[1], v)))
    BY <1>6, <2>1 DEF After
  <2>3. m # 1 /\ m # 2
    BY <1>12
  <2> QED  BY <1>1, <2>2, <2>3
<1> QED  BY <1>10, <1>11, <1>12

\* The modes that are advertised, and the speed, of a view.
Advs(v) == Fields!Decoded(v[4], Fields!ModeBits.adv) \cup Fields!Decoded(v[9], Fields!ModeBits.gigabit)
SpeedIn(b) == (IF 6 \in b THEN 2 ELSE 0) + (IF 13 \in b THEN 1 ELSE 0)

\* What is in none of the settings, and the settings as a record.
RestOf(v) == <<v[0] \ {6, 9, 12, 13, 14, 15}, v[4] \ 5..9, v[9] \ {8, 9},
             v[20] \ {1, 7, 8, 14, 15}, v[27] \ 0..3>>
Record(adv, an, back, speed, mode, delays, leds, crossover, rest) ==
  [adv |-> adv, an |-> an, loopback |-> back, speed |-> speed, mode |-> mode, delays |-> delays,
   leds |-> leds, crossover |-> crossover, rest |-> rest]

\* The settings of a view are such a record.
LEMMA SettingsAre ==
  ASSUME NEW v
  PROVE  Fields!Settings(v) =
           Record(Advs(v), 12 \in v[0], 14 \in v[0], SpeedIn(v[0]), v[27] \cap 0..3, v[20] \cap {1, 7},
                  v[20] \cap {8, 14, 15}, v[16], RestOf(v))
BY DEF Fields!Settings, Record, RestOf, Advs, SpeedIn

\* Settings with one of them changed.
WithAdv(s, x) == [s EXCEPT !.adv = x]
WithAn(s, x) == [s EXCEPT !.an = x]
WithLoopback(s, x) == [s EXCEPT !.loopback = x]
WithSpeed(s, x) == [s EXCEPT !.speed = x]
WithModes(s, x, y) == [s EXCEPT !.mode = x, !.delays = y]
WithLeds(s, x) == [s EXCEPT !.leds = x]
LEMMA RecordChanged ==
  ASSUME NEW adv, NEW an, NEW back, NEW speed, NEW mode, NEW delays, NEW leds, NEW crossover,
         NEW rest, NEW s, s = Record(adv, an, back, speed, mode, delays, leds, crossover, rest)
  PROVE  /\ \A x : WithAdv(s, x) = Record(x, an, back, speed, mode, delays, leds, crossover, rest)
         /\ \A x : WithAn(s, x) = Record(adv, x, back, speed, mode, delays, leds, crossover, rest)
         /\ \A x : WithLoopback(s, x) = Record(adv, an, x, speed, mode, delays, leds, crossover, rest)
         /\ \A x : WithSpeed(s, x) = Record(adv, an, back, x, mode, delays, leds, crossover, rest)
         /\ \A x, y : WithModes(s, x, y)
                         = Record(adv, an, back, speed, x, y, leds, crossover, rest)
         /\ \A x : WithLeds(s, x) = Record(adv, an, back, speed, mode, delays, x, crossover, rest)
         /\ s.adv = adv /\ s.speed = speed
<1>1. ASSUME NEW x PROVE WithAdv(s, x) = Record(x, an, back, speed, mode, delays, leds, crossover, rest)
  BY DEF Record, WithAdv
<1>2. ASSUME NEW x PROVE WithAn(s, x) = Record(adv, x, back, speed, mode, delays, leds, crossover, rest)
  BY DEF Record, WithAn
<1>3. ASSUME NEW x
      PROVE  WithLoopback(s, x) = Record(adv, an, x, speed, mode, delays, leds, crossover, rest)
  BY DEF Record, WithLoopback
<1>4. ASSUME NEW x PROVE WithSpeed(s, x) = Record(adv, an, back, x, mode, delays, leds, crossover, rest)
  BY DEF Record, WithSpeed
<1>5. ASSUME NEW x, NEW y
      PROVE  WithModes(s, x, y) = Record(adv, an, back, speed, x, y, leds, crossover, rest)
  <2>1. PICK t : t = [s EXCEPT !.mode = x]
    OBVIOUS
  <2>2. t = Record(adv, an, back, speed, x, delays, leds, crossover, rest)
    BY <2>1 DEF Record
  <2>3. [t EXCEPT !.delays = y] = Record(adv, an, back, speed, x, y, leds, crossover, rest)
    BY <2>2 DEF Record
  <2>4. [s EXCEPT !.mode = x, !.delays = y] = [[s EXCEPT !.mode = x] EXCEPT !.delays = y]
    OBVIOUS
  <2> QED  BY <2>1, <2>3, <2>4 DEF WithModes
<1>6. ASSUME NEW x PROVE WithLeds(s, x) = Record(adv, an, back, speed, mode, delays, x, crossover, rest)
  BY DEF Record, WithLeds
<1>7. s.adv = adv /\ s.speed = speed
  BY DEF Record
<1> QED  BY <1>1, <1>2, <1>3, <1>4, <1>5, <1>6, <1>7

\* Bits of the control register.
BitOp(b, c) == SetBits(160, {b}, c, <<0, 0>>)
LEMMA BitChanges ==
  ASSUME NEW a, NEW b, NEW c, NEW v, NEW w, w = Changed(a, BitOp(b, c), v)
  PROVE  /\ w[0] = ((v[0] \ {b}) \cup c) \ {9, 15}
         /\ w[4] = v[4] /\ w[9] = v[9] /\ w[16] = v[16] /\ w[20] = v[20] /\ w[27] = v[27]
<1>1. 0 \in 0..31 /\ 160 + 0 = 160
  OBVIOUS
<1>2. BitsFor(a, SetBits(160 + 0, {b}, c, <<0, 0>>)) = c
  BY DEF BitsFor, SetBits, Fields!NoCap
<1>3. w = Edit(v, 0, {b}, c)
  <2>1. Changed(a, SetBits(160 + 0, {b}, c, <<0, 0>>), v) = Edit(v, 0, {b}, c)
    BY <1>1, <1>2, ChangedIs
  <2> QED  BY <1>1, <2>1 DEF BitOp
<1>4. w[0] = ((v[0] \ {b}) \cup c) \ {9, 15}
  BY <1>3, EditIs
<1>5. w[4] = v[4] /\ w[9] = v[9] /\ w[16] = v[16] /\ w[20] = v[20] /\ w[27] = v[27]
  <2>1. \A n \in {4, 9, 16, 20, 27} : n # 0
    OBVIOUS
  <2> QED  BY <1>3, <2>1, EditIs
<1> QED  BY <1>4, <1>5
LEMMA BitIs ==
  ASSUME NEW b
  PROVE  Bit(b, TRUE) = BitOp(b, {b}) /\ Bit(b, FALSE) = BitOp(b, {})
BY DEF Bit, BitOp

\* What of the settings is in the control register.
ControlRecord(v, an, back, speed) ==
  Record(Advs(v), an, back, speed, v[27] \cap 0..3, v[20] \cap {1, 7}, v[20] \cap {8, 14, 15}, v[16], RestOf(v))

\* A setting of the control register that changes.
LEMMA ControlChanged ==
  ASSUME NEW v, NEW an, NEW back, NEW speed, NEW s, s = ControlRecord(v, an, back, speed)
  PROVE  /\ \A x : WithAn(s, x) = ControlRecord(v, x, back, speed)
         /\ \A x : WithLoopback(s, x) = ControlRecord(v, an, x, speed)
         /\ \A x : WithSpeed(s, x) = ControlRecord(v, an, back, x)
         /\ s.speed = speed
<1>1. PICK a, m, d, l, c, t : /\ a = Advs(v) /\ m = v[27] \cap 0..3 /\ d = v[20] \cap {1, 7}
                              /\ l = v[20] \cap {8, 14, 15} /\ c = v[16] /\ t = RestOf(v)
  OBVIOUS
<1>2. \A p, q, r : ControlRecord(v, p, q, r) = Record(a, p, q, r, m, d, l, c, t)
  BY <1>1 DEF ControlRecord
<1>3. s = Record(a, an, back, speed, m, d, l, c, t)
  BY <1>2
<1>4. /\ \A x : WithAn(s, x) = Record(a, x, back, speed, m, d, l, c, t)
      /\ \A x : WithLoopback(s, x) = Record(a, an, x, speed, m, d, l, c, t)
      /\ \A x : WithSpeed(s, x) = Record(a, an, back, x, m, d, l, c, t)
      /\ s.speed = speed
  BY <1>3, RecordChanged
<1> QED  BY <1>2, <1>4

\* Where only the control register differs, only its settings do.
LEMMA ControlOnly ==
  ASSUME NEW v, NEW w,
         w[4] = v[4], w[9] = v[9], w[16] = v[16], w[20] = v[20], w[27] = v[27],
         w[0] \ {6, 9, 12, 13, 14, 15} = v[0] \ {6, 9, 12, 13, 14, 15}
  PROVE  /\ Fields!Settings(w) = ControlRecord(v, 12 \in w[0], 14 \in w[0], SpeedIn(w[0]))
         /\ Fields!Settings(v) = ControlRecord(v, 12 \in v[0], 14 \in v[0], SpeedIn(v[0]))
<1>1. Advs(w) = Advs(v) /\ RestOf(w) = RestOf(v)
  BY DEF Advs, RestOf
<1> QED  BY <1>1, SettingsAre DEF ControlRecord

\* What loopback, restart_an and force promise.
LEMMA LoopbackKept ==
  ASSUME NEW a, NEW r, NEW g, g.fn = "loopback"
  PROVE  Fields!Settings(After(a, Fields!Ops(g, a), View(r))) = Fields!Promised(g, a, Fields!Settings(r))
<1>1. PICK v : v = View(r)
  OBVIOUS
<1>2. PICK s : s = Fields!Settings(v) /\ s = Fields!Settings(r)
  BY <1>1, SettingsOfView
<1>3. PICK o : o = BitOp(14, {})
  OBVIOUS
<1>4. Fields!Ops(g, a) = Fields!Selecting(a, <<o>>)
  <2>1. Fields!Ops(g, a) = Fields!Selecting(a, Fields!loopback)
    BY DEF Fields!Ops
  <2>2. Fields!loopback = <<o>>
    BY <1>3, ControlBitsAre, BitIs
  <2> QED  BY <2>1, <2>2
<1>5. IsRow(<<o>>, 1) /\ 1 \in 1..3 /\ <<o>>[1] = o
  BY DEF IsRow
<1> HIDE DEF IsRow
<1>6. After(a, Fields!Ops(g, a), v) = Changed(a, o, v)
  BY <1>4, <1>5, AfterSelecting
<1>7. PICK w : w = Changed(a, o, v)
  OBVIOUS
<1>8. /\ w[0] = ((v[0] \ {14}) \cup {}) \ {9, 15}
      /\ w[4] = v[4] /\ w[9] = v[9] /\ w[16] = v[16] /\ w[20] = v[20] /\ w[27] = v[27]
  <2>1. w = Changed(a, BitOp(14, {}), v)
    BY <1>3, <1>7
  <2> QED  BY <2>1, BitChanges
<1>9. /\ w[0] \ {6, 9, 12, 13, 14, 15} = v[0] \ {6, 9, 12, 13, 14, 15}
      /\ (12 \in w[0]) = (12 \in v[0])
      /\ (14 \in w[0]) = FALSE
      /\ (6 \in w[0]) = (6 \in v[0])
      /\ (13 \in w[0]) = (13 \in v[0])
  BY <1>8
<1>10. SpeedIn(w[0]) = SpeedIn(v[0])
  BY <1>9 DEF SpeedIn
<1>11. /\ Fields!Settings(w) = ControlRecord(v, 12 \in w[0], 14 \in w[0], SpeedIn(w[0]))
       /\ Fields!Settings(v) = ControlRecord(v, 12 \in v[0], 14 \in v[0], SpeedIn(v[0]))
  BY <1>8, <1>9, ControlOnly
<1>12. [s EXCEPT !.loopback = FALSE] = Fields!Settings(w)
  <2>1. PICK n, l, sp, x : n = (12 \in v[0]) /\ l = (14 \in v[0]) /\ sp = SpeedIn(v[0]) /\ x = FALSE
    OBVIOUS
  <2>2. s = ControlRecord(v, n, l, sp)
    BY <1>2, <1>11, <2>1, Zenon
  <2>3. Fields!Settings(w) = ControlRecord(v, n, x, sp)
    BY <1>9, <1>10, <1>11, <2>1, Zenon
  <2>4. WithLoopback(s, x) = Fields!Settings(w)
    BY <2>2, <2>3, ControlChanged
  <2>5. [s EXCEPT !.loopback = x] = Fields!Settings(w)
    BY <2>4 DEF WithLoopback
  <2> QED  BY <2>1, <2>5, Zenon
<1>13. Fields!Promised(g, a, s) = [s EXCEPT !.loopback = FALSE]
  BY DEF Fields!Promised
<1> QED  BY <1>1, <1>2, <1>6, <1>7, <1>12, <1>13

\* Two bits of the control register, one after the other.
LEMMA TwoBits ==
  ASSUME NEW a, NEW v, NEW b, NEW c, NEW p, NEW q, NEW w,
         w = Changed(a, BitOp(p, q), Changed(a, BitOp(b, c), v))
  PROVE  /\ w[0] = (((((v[0] \ {b}) \cup c) \ {9, 15}) \ {p}) \cup q) \ {9, 15}
         /\ w[4] = v[4] /\ w[9] = v[9] /\ w[16] = v[16] /\ w[20] = v[20] /\ w[27] = v[27]
<1>1. PICK u : u = Changed(a, BitOp(b, c), v)
  OBVIOUS
<1>2. /\ u[0] = ((v[0] \ {b}) \cup c) \ {9, 15}
      /\ u[4] = v[4] /\ u[9] = v[9] /\ u[16] = v[16] /\ u[20] = v[20] /\ u[27] = v[27]
  BY <1>1, BitChanges
<1>3. w = Changed(a, BitOp(p, q), u)
  BY <1>1
<1>4. /\ w[0] = ((u[0] \ {p}) \cup q) \ {9, 15}
      /\ w[4] = u[4] /\ w[9] = u[9] /\ w[16] = u[16] /\ w[20] = u[20] /\ w[27] = u[27]
  BY <1>3, BitChanges
<1> QED  BY <1>2, <1>4

\* restart_an sets the bits of both.
LEMMA RestartKept ==
  ASSUME NEW a, NEW r, NEW g, g.fn = "restart_an"
  PROVE  Fields!Settings(After(a, Fields!Ops(g, a), View(r))) = Fields!Promised(g, a, Fields!Settings(r))
<1>1. PICK v : v = View(r)
  OBVIOUS
<1>2. PICK s : s = Fields!Settings(v) /\ s = Fields!Settings(r)
  BY <1>1, SettingsOfView
<1>3. PICK o, p : o = BitOp(12, {12}) /\ p = BitOp(9, {9})
  OBVIOUS
<1>4. Fields!Ops(g, a) = Fields!Selecting(a, <<o, p>>)
  <2>1. Fields!Ops(g, a) = Fields!Selecting(a, Fields!restart_an)
    BY DEF Fields!Ops
  <2>2. Fields!restart_an = <<o, p>>
    BY <1>3, ControlBitsAre, BitIs
  <2> QED  BY <2>1, <2>2
<1>5. IsRow(<<o, p>>, 2) /\ 2 \in 1..3 /\ <<o, p>>[1] = o /\ <<o, p>>[2] = p
  BY DEF IsRow
<1>6. After(a, Fields!Ops(g, a), v) = Changed(a, p, Changed(a, o, v))
  BY <1>4, <1>5, AfterSelecting
<1>7. PICK w : w = Changed(a, p, Changed(a, o, v))
  OBVIOUS
<1>8. /\ w[0] = (((((v[0] \ {12}) \cup {12}) \ {9, 15}) \ {9}) \cup {9}) \ {9, 15}
      /\ w[4] = v[4] /\ w[9] = v[9] /\ w[16] = v[16] /\ w[20] = v[20] /\ w[27] = v[27]
  <2>1. w = Changed(a, BitOp(9, {9}), Changed(a, BitOp(12, {12}), v))
    BY <1>3, <1>7
  <2> QED  BY <2>1, TwoBits
<1>9. /\ w[0] \ {6, 9, 12, 13, 14, 15} = v[0] \ {6, 9, 12, 13, 14, 15}
      /\ (12 \in w[0]) = TRUE
      /\ (14 \in w[0]) = (14 \in v[0])
      /\ (6 \in w[0]) = (6 \in v[0])
      /\ (13 \in w[0]) = (13 \in v[0])
  BY <1>8
<1>10. SpeedIn(w[0]) = SpeedIn(v[0])
  BY <1>9 DEF SpeedIn
<1>11. /\ Fields!Settings(w) = ControlRecord(v, 12 \in w[0], 14 \in w[0], SpeedIn(w[0]))
       /\ Fields!Settings(v) = ControlRecord(v, 12 \in v[0], 14 \in v[0], SpeedIn(v[0]))
  BY <1>8, <1>9, ControlOnly
<1>12. [s EXCEPT !.an = TRUE] = Fields!Settings(w)
  <2>1. PICK n, l, sp, x : n = (12 \in v[0]) /\ l = (14 \in v[0]) /\ sp = SpeedIn(v[0]) /\ x = TRUE
    OBVIOUS
  <2>2. s = ControlRecord(v, n, l, sp)
    BY <1>2, <1>11, <2>1, Zenon
  <2>3. Fields!Settings(w) = ControlRecord(v, x, l, sp)
    BY <1>9, <1>10, <1>11, <2>1, Zenon
  <2>4. WithAn(s, x) = Fields!Settings(w)
    BY <2>2, <2>3, ControlChanged
  <2>5. [s EXCEPT !.an = x] = Fields!Settings(w)
    BY <2>4 DEF WithAn
  <2> QED  BY <2>1, <2>5, Zenon
<1>13. Fields!Promised(g, a, s) = [s EXCEPT !.an = TRUE]
  BY DEF Fields!Promised
<1> QED  BY <1>1, <1>2, <1>6, <1>7, <1>12, <1>13

\* A speed is forced by one bit, or by two.
Forces(v, w, n) ==
  /\ w[4] = v[4] /\ w[9] = v[9] /\ w[16] = v[16] /\ w[20] = v[20] /\ w[27] = v[27]
  /\ w[0] \ {6, 9, 12, 13, 14, 15} = v[0] \ {6, 9, 12, 13, 14, 15}
  /\ 12 \in w[0] <=> 12 \in v[0]
  /\ 14 \in w[0] <=> 14 \in v[0]
  /\ 13 \in w[0] <=> n = 1
LEMMA SpeedKept ==
  ASSUME NEW v, NEW w, NEW n, n \in 0..2, NEW s, s = Fields!Settings(v), Forces(v, w, n)
  PROVE  /\ (6 \in w[0] <=> n = 2) => Fields!Settings(w) = WithSpeed(s, n)
         /\ n # 2 /\ (6 \in w[0] <=> 6 \in v[0])
              => Fields!Settings(w) = WithSpeed(s, 2 * (s.speed \div 2) + n)
<1>1. /\ Fields!Settings(w) = ControlRecord(v, 12 \in w[0], 14 \in w[0], SpeedIn(w[0]))
      /\ Fields!Settings(v) = ControlRecord(v, 12 \in v[0], 14 \in v[0], SpeedIn(v[0]))
  BY ControlOnly DEF Forces
<1>2. PICK p, l, sp, x : p = (12 \in v[0]) /\ l = (14 \in v[0]) /\ sp = SpeedIn(v[0]) /\ x = SpeedIn(w[0])
  OBVIOUS
<1>3. s = ControlRecord(v, p, l, sp)
  BY <1>1, <1>2, Zenon
<1>4. Fields!Settings(w) = ControlRecord(v, p, l, x)
  <2>1. (12 \in w[0]) = (12 \in v[0])
    BY DEF Forces
  <2>2. (14 \in w[0]) = (14 \in v[0])
    BY DEF Forces
  <2> QED  BY <1>1, <1>2, <2>1, <2>2, Zenon
<1>5. WithSpeed(s, x) = Fields!Settings(w) /\ s.speed = sp
  BY <1>3, <1>4, ControlChanged
<1>6. WithSpeed(s, x) = Fields!Settings(w)
  BY <1>5
<1>7. sp = (IF 6 \in v[0] THEN 2 ELSE 0) + (IF 13 \in v[0] THEN 1 ELSE 0)
  BY <1>2 DEF SpeedIn
<1>8. x = (IF 6 \in w[0] THEN 2 ELSE 0) + (IF n = 1 THEN 1 ELSE 0)
  <2>1. x = (IF 6 \in w[0] THEN 2 ELSE 0) + (IF 13 \in w[0] THEN 1 ELSE 0)
    BY <1>2 DEF SpeedIn
  <2>2. n = 1 <=> 13 \in w[0]
    BY DEF Forces
  <2> QED  BY <2>1, <2>2
<1>9. (6 \in w[0] <=> n = 2) => x = n
  BY <1>8
<1>10. n # 2 /\ (6 \in w[0] <=> 6 \in v[0]) => x = 2 * (s.speed \div 2) + n
  BY <1>5, <1>7, <1>8
<1> QED  BY <1>6, <1>9, <1>10

\* force sets one or both bits of the speed.
LEMMA ForceKept ==
  ASSUME NEW a, NEW r, NEW g, g.fn = "force", g.x \in 0..2, g.on \in BOOLEAN, g.x = 2 => g.on
  PROVE  Fields!Settings(After(a, Fields!Ops(g, a), View(r))) = Fields!Promised(g, a, Fields!Settings(r))
<1>1. PICK v : v = View(r)
  OBVIOUS
<1>2. PICK s : s = Fields!Settings(v) /\ s = Fields!Settings(r)
  BY <1>1, SettingsOfView
<1>3. PICK n \in 0..2 : n = g.x
  OBVIOUS
<1>4. PICK c : c = IF n = 1 THEN {13} ELSE {}
  OBVIOUS
<1>11. PICK d : d = IF n = 2 THEN {6} ELSE {}
  OBVIOUS
<1>5. PICK o, p : o = BitOp(6, d) /\ p = BitOp(13, c)
  OBVIOUS
<1>6. Bit(6, n = 2) = o /\ Bit(13, n = 1) = p
  BY <1>4, <1>5, <1>11 DEF Bit, BitOp
<1>7. Fields!Ops(g, a) = Fields!Selecting(a, Fields!force(n, g.on))
  BY <1>3 DEF Fields!Ops
<1>8. Fields!Promised(g, a, s) = [s EXCEPT !.speed = IF g.on THEN n ELSE 2 * (s.speed \div 2) + n]
  BY <1>3 DEF Fields!Promised
<1>9. CASE g.on = TRUE
  <2>1. Fields!Ops(g, a) = Fields!Selecting(a, <<o, p>>)
    <3>1. Fields!force(n, TRUE) = <<o, p>>
      BY <1>6, ControlBitsAre
    <3> QED  BY <1>7, <1>9, <3>1
  <2>2. IsRow(<<o, p>>, 2) /\ 2 \in 1..3 /\ <<o, p>>[1] = o /\ <<o, p>>[2] = p
    BY DEF IsRow
  <2>3. After(a, Fields!Ops(g, a), v) = Changed(a, p, Changed(a, o, v))
    BY <2>1, <2>2, AfterSelecting
  <2>4. PICK w : w = Changed(a, p, Changed(a, o, v))
    OBVIOUS
  <2>5. /\ w[0] = (((((v[0] \ {6}) \cup d) \ {9, 15}) \ {13}) \cup c) \ {9, 15}
        /\ w[4] = v[4] /\ w[9] = v[9] /\ w[16] = v[16] /\ w[20] = v[20] /\ w[27] = v[27]
    <3>1. w = Changed(a, BitOp(13, c), Changed(a, BitOp(6, d), v))
      BY <1>5, <2>4
    <3> QED  BY <3>1, TwoBits
  <2>6. /\ w[0] \ {6, 9, 12, 13, 14, 15} = v[0] \ {6, 9, 12, 13, 14, 15}
        /\ 12 \in w[0] <=> 12 \in v[0]
        /\ 14 \in w[0] <=> 14 \in v[0]
        /\ 13 \in w[0] <=> n = 1
        /\ 6 \in w[0] <=> n = 2
    BY <1>4, <1>11, <2>5
  <2>8. Forces(v, w, n)
    BY <2>5, <2>6 DEF Forces
  <2>9. Fields!Settings(w) = WithSpeed(s, n)
    <3>1. 6 \in w[0] <=> n = 2
      BY <2>6
    <3>2. s = Fields!Settings(v) /\ n \in 0..2
      BY <1>2
    <3> HIDE DEF Forces
    <3> QED  BY <2>8, <3>1, <3>2, SpeedKept
  <2>7. Fields!Settings(w) = [s EXCEPT !.speed = n]
    BY <2>9 DEF WithSpeed
  <2> QED  BY <1>1, <1>2, <1>8, <1>9, <2>3, <2>4, <2>7
<1>10. CASE g.on = FALSE
  <2>1. Fields!Ops(g, a) = Fields!Selecting(a, <<p>>)
    <3>1. Fields!force(n, FALSE) = <<p>>
      BY <1>6, ControlBitsAre
    <3> QED  BY <1>7, <1>10, <3>1
  <2>2. IsRow(<<p>>, 1) /\ 1 \in 1..3 /\ <<p>>[1] = p
    BY DEF IsRow
  <2>3. After(a, Fields!Ops(g, a), v) = Changed(a, p, v)
    BY <2>1, <2>2, AfterSelecting
  <2>4. PICK w : w = Changed(a, p, v)
    OBVIOUS
  <2>5. /\ w[0] = ((v[0] \ {13}) \cup c) \ {9, 15}
        /\ w[4] = v[4] /\ w[9] = v[9] /\ w[16] = v[16] /\ w[20] = v[20] /\ w[27] = v[27]
    <3>1. w = Changed(a, BitOp(13, c), v)
      BY <1>5, <2>4
    <3> QED  BY <3>1, BitChanges
  <2>6. /\ w[0] \ {6, 9, 12, 13, 14, 15} = v[0] \ {6, 9, 12, 13, 14, 15}
        /\ 12 \in w[0] <=> 12 \in v[0]
        /\ 14 \in w[0] <=> 14 \in v[0]
        /\ 13 \in w[0] <=> n = 1
        /\ 6 \in w[0] <=> 6 \in v[0]
    BY <1>4, <2>5
  <2>8. Forces(v, w, n)
    BY <2>5, <2>6 DEF Forces
  <2>9. Fields!Settings(w) = WithSpeed(s, 2 * (s.speed \div 2) + n)
    <3>1. 6 \in w[0] <=> 6 \in v[0]
      BY <2>6
    <3>2. s = Fields!Settings(v) /\ n \in 0..2 /\ n # 2
      BY <1>2, <1>3, <1>10
    <3> QED  BY <2>8, <3>1, <3>2, SpeedKept
  <2>7. Fields!Settings(w) = [s EXCEPT !.speed = 2 * (s.speed \div 2) + n]
    BY <2>9 DEF WithSpeed
  <2> QED  BY <1>1, <1>2, <1>8, <1>10, <2>3, <2>4, <2>7
<1> QED  BY <1>9, <1>10

\* A field's write, without a capability.
OpAt(k, c, b) == SetBits(160 + k, c, b, <<0, 0>>)
LEMMA ControlWrite ==
  ASSUME NEW a, NEW c, NEW b, NEW v, NEW w, w = Changed(a, OpAt(0, c, b), v)
  PROVE  /\ w[0] = ((v[0] \ c) \cup b) \ {9, 15}
         /\ w[4] = v[4] /\ w[9] = v[9] /\ w[16] = v[16] /\ w[20] = v[20] /\ w[27] = v[27]
<1>1. 0 \in 0..31 /\ 160 + 0 = 160
  OBVIOUS
<1>2. BitsFor(a, SetBits(160 + 0, c, b, <<0, 0>>)) = b
  BY DEF BitsFor, SetBits, Fields!NoCap
<1>3. w = Edit(v, 0, c, b)
  <2>1. Changed(a, SetBits(160 + 0, c, b, <<0, 0>>), v) = Edit(v, 0, c, b)
    BY <1>1, <1>2, ChangedIs
  <2> QED  BY <1>1, <2>1 DEF OpAt
<1>4. w[0] = ((v[0] \ c) \cup b) \ {9, 15}
  BY <1>3, EditIs
<1>5. w[4] = v[4] /\ w[9] = v[9] /\ w[16] = v[16] /\ w[20] = v[20] /\ w[27] = v[27]
  <2>1. \A n \in {4, 9, 16, 20, 27} : n # 0
    OBVIOUS
  <2> QED  BY <1>3, <2>1, EditIs
<1> QED  BY <1>4, <1>5
LEMMA LedWrite ==
  ASSUME NEW a, NEW c, NEW b, NEW v, NEW w, w = Changed(a, OpAt(20, c, b), v)
  PROVE  /\ w[20] = (v[20] \ c) \cup b
         /\ w[0] = v[0] /\ w[4] = v[4] /\ w[9] = v[9] /\ w[16] = v[16] /\ w[27] = v[27]
<1>1. 20 \in 0..31 /\ 160 + 20 = 180
  OBVIOUS
<1>2. BitsFor(a, SetBits(160 + 20, c, b, <<0, 0>>)) = b
  BY DEF BitsFor, SetBits, Fields!NoCap
<1>3. w = Edit(v, 20, c, b)
  <2>1. Changed(a, SetBits(160 + 20, c, b, <<0, 0>>), v) = Edit(v, 20, c, b)
    BY <1>1, <1>2, ChangedIs
  <2> QED  BY <1>1, <2>1 DEF OpAt
<1>4. w[20] = (v[20] \ c) \cup b
  BY <1>3, EditIs
<1>5. w[0] = v[0] /\ w[4] = v[4] /\ w[9] = v[9] /\ w[16] = v[16] /\ w[27] = v[27]
  <2>1. \A n \in {0, 4, 9, 16, 27} : n # 20
    OBVIOUS
  <2> QED  BY <1>3, <2>1, EditIs
<1> QED  BY <1>4, <1>5
LEMMA ModeWrite ==
  ASSUME NEW a, NEW c, NEW b, NEW v, NEW w, w = Changed(a, OpAt(27, c, b), v)
  PROVE  /\ w[27] = (v[27] \ c) \cup b
         /\ w[0] = v[0] /\ w[4] = v[4] /\ w[9] = v[9] /\ w[16] = v[16] /\ w[20] = v[20]
<1>1. 27 \in 0..31 /\ 160 + 27 = 187
  OBVIOUS
<1>2. BitsFor(a, SetBits(160 + 27, c, b, <<0, 0>>)) = b
  BY DEF BitsFor, SetBits, Fields!NoCap
<1>3. w = Edit(v, 27, c, b)
  <2>1. Changed(a, SetBits(160 + 27, c, b, <<0, 0>>), v) = Edit(v, 27, c, b)
    BY <1>1, <1>2, ChangedIs
  <2> QED  BY <1>1, <2>1 DEF OpAt
<1>4. w[27] = (v[27] \ c) \cup b
  BY <1>3, EditIs
<1>5. w[0] = v[0] /\ w[4] = v[4] /\ w[9] = v[9] /\ w[16] = v[16] /\ w[20] = v[20]
  <2>1. \A n \in {0, 4, 9, 16, 20} : n # 27
    OBVIOUS
  <2> QED  BY <1>3, <2>1, EditIs
<1> QED  BY <1>4, <1>5

\* What of the settings a profile of a PHY makes.
MadeRecord(v, mode, delays, leds) ==
  Record(Advs(v), 12 \in v[0], 14 \in v[0], SpeedIn(v[0]), mode, delays, leds, v[16], RestOf(v))
ProfileOnly(v, w) ==
  /\ w[4] = v[4] /\ w[9] = v[9] /\ w[16] = v[16]
  /\ w[0] \ {15} = v[0] \ {15}
  /\ w[20] \ {1, 7, 8, 14, 15} = v[20] \ {1, 7, 8, 14, 15} /\ w[27] \ 0..3 = v[27] \ 0..3
LEMMA MadeByProfile ==
  ASSUME NEW v, NEW w, ProfileOnly(v, w)
  PROVE  /\ Fields!Settings(w) =
              MadeRecord(v, w[27] \cap 0..3, w[20] \cap {1, 7}, w[20] \cap {8, 14, 15})
         /\ Fields!Settings(v) =
              MadeRecord(v, v[27] \cap 0..3, v[20] \cap {1, 7}, v[20] \cap {8, 14, 15})
<1>1. /\ (12 \in w[0]) = (12 \in v[0])
      /\ (14 \in w[0]) = (14 \in v[0])
      /\ (6 \in w[0]) = (6 \in v[0])
      /\ (13 \in w[0]) = (13 \in v[0])
      /\ w[0] \ {6, 9, 12, 13, 14, 15} = v[0] \ {6, 9, 12, 13, 14, 15}
  BY DEF ProfileOnly
<1>2. SpeedIn(w[0]) = SpeedIn(v[0])
  BY <1>1 DEF SpeedIn
<1>3. Advs(w) = Advs(v) /\ w[16] = v[16]
  BY DEF Advs, ProfileOnly
<1>4. RestOf(w) = RestOf(v)
  BY <1>1 DEF RestOf, ProfileOnly
<1>5. /\ Fields!Settings(w) =
           Record(Advs(w), 12 \in w[0], 14 \in w[0], SpeedIn(w[0]), w[27] \cap 0..3, w[20] \cap {1, 7},
                  w[20] \cap {8, 14, 15}, w[16], RestOf(w))
      /\ Fields!Settings(v) =
           Record(Advs(v), 12 \in v[0], 14 \in v[0], SpeedIn(v[0]), v[27] \cap 0..3, v[20] \cap {1, 7},
                  v[20] \cap {8, 14, 15}, v[16], RestOf(v))
  BY SettingsAre
<1>6. (12 \in w[0]) = (12 \in v[0]) /\ (14 \in w[0]) = (14 \in v[0])
  BY <1>1
<1> QED  BY <1>2, <1>3, <1>4, <1>5, <1>6, Zenon DEF MadeRecord

\* A setting of a profile that changes.
LEMMA MadeChanged ==
  ASSUME NEW v, NEW mode, NEW delays, NEW leds, NEW s, s = MadeRecord(v, mode, delays, leds)
  PROVE  /\ \A x, y : WithModes(s, x, y) = MadeRecord(v, x, y, leds)
         /\ \A x : WithLeds(s, x) = MadeRecord(v, mode, delays, x)
<1>1. PICK a, n, l, sp, c, t : /\ a = Advs(v) /\ n = (12 \in v[0]) /\ l = (14 \in v[0])
                               /\ sp = SpeedIn(v[0]) /\ c = v[16] /\ t = RestOf(v)
  OBVIOUS
<1>2. \A m, d, x : MadeRecord(v, m, d, x) = Record(a, n, l, sp, m, d, x, c, t)
  BY <1>1, Zenon DEF MadeRecord
<1>3. s = Record(a, n, l, sp, mode, delays, leds, c, t)
  BY <1>2
<1>4. /\ \A x, y : WithModes(s, x, y) = Record(a, n, l, sp, x, y, leds, c, t)
      /\ \A x : WithLeds(s, x) = Record(a, n, l, sp, mode, delays, x, c, t)
  BY <1>3, RecordChanged
<1> QED  BY <1>2, <1>4

\* A number below 16 has its bits in four places.
LEMMA FourBitsOnly ==
  ASSUME NEW n \in 0..15
  PROVE  Fields!Bits(n) \subseteq 0..3
<1> SUFFICES ASSUME NEW b \in 0..30, b \notin 0..3 PROVE (n \div (2^b)) % 2 # 1
  BY DEF Fields!Bits
<1>1. \A x \in Nat : x >= 16 => n \div x = 0
  BY SMT
<1>2. 0 % 2 = 0
  OBVIOUS
<1>3. 2^b \in Nat /\ 2^b >= 16
  <2>1. b \in 4..12 \/ b \in 13..21 \/ b \in 22..30
    OBVIOUS
  <2>2. CASE b \in 4..12
    <3>1. b = 4 \/ b = 5 \/ b = 6 \/ b = 7 \/ b = 8 \/ b = 9 \/ b = 10 \/ b = 11 \/ b = 12
      BY <2>2
    <3>2. 2^b \in {2^4, 2^5, 2^6, 2^7, 2^8, 2^9, 2^10, 2^11, 2^12}
      BY <3>1, Zenon
    <3>3. \A x \in {2^4, 2^5, 2^6, 2^7, 2^8, 2^9, 2^10, 2^11, 2^12} : x \in Nat /\ x >= 16
      BY SMT
    <3> QED  BY <3>2, <3>3, Zenon
  <2>3. CASE b \in 13..21
    <3>1. b = 13 \/ b = 14 \/ b = 15 \/ b = 16 \/ b = 17 \/ b = 18 \/ b = 19 \/ b = 20 \/ b = 21
      BY <2>3
    <3>2. 2^b \in {2^13, 2^14, 2^15, 2^16, 2^17, 2^18, 2^19, 2^20, 2^21}
      BY <3>1, Zenon
    <3>3. \A x \in {2^13, 2^14, 2^15, 2^16, 2^17, 2^18, 2^19, 2^20, 2^21} : x \in Nat /\ x >= 16
      BY SMT
    <3> QED  BY <3>2, <3>3, Zenon
  <2>4. CASE b \in 22..30
    <3>1. b = 22 \/ b = 23 \/ b = 24 \/ b = 25 \/ b = 26 \/ b = 27 \/ b = 28 \/ b = 29 \/ b = 30
      BY <2>4
    <3>2. 2^b \in {2^22, 2^23, 2^24, 2^25, 2^26, 2^27, 2^28, 2^29, 2^30}
      BY <3>1, Zenon
    <3>3. \A x \in {2^22, 2^23, 2^24, 2^25, 2^26, 2^27, 2^28, 2^29, 2^30} : x \in Nat /\ x >= 16
      BY SMT
    <3> QED  BY <3>2, <3>3, Zenon
  <2> QED  BY <2>1, <2>2, <2>3, <2>4
<1>4. n \div (2^b) = 0
  BY <1>1, <1>3
<1> QED  BY <1>2, <1>4

\* What marvell_cfg makes: mode and delays, and a reset that is to come.
LEMMA MarvellKept ==
  ASSUME NEW a, NEW r, NEW g, g.fn = "marvell_cfg", g.x \in 0..15, g.on \in BOOLEAN
  PROVE  Fields!Settings(After(a, Fields!Ops(g, a), View(r))) = Fields!Promised(g, a, Fields!Settings(r))
<1>1. PICK v : v = View(r)
  OBVIOUS
<1>2. PICK s : s = Fields!Settings(v) /\ s = Fields!Settings(r)
  BY <1>1, SettingsOfView
<1>3. PICK mode, d : mode = Fields!Bits(g.x) /\ d = IF g.on THEN {1, 7} ELSE {}
  OBVIOUS
<1>4. PICK o, p, q : /\ o = OpAt(27, 0..3, mode)
                     /\ p = OpAt(20, {1, 7}, d)
                     /\ q = OpAt(0, {}, {15})
  OBVIOUS
<1>5. Fields!Ops(g, a) = <<o, p, q>>
  <2>1. Fields!Ops(g, a) = Fields!marvell_cfg(g.x, g.on)
    BY DEF Fields!Ops
  <2>2. 160 + 27 = 187 /\ 160 + 20 = 180 /\ 160 + 0 = 160
    OBVIOUS
  <2>3. PICK x, on : x = g.x /\ on = g.on /\ on \in BOOLEAN
    OBVIOUS
  <2>4. Fields!marvell_cfg(x, on) = <<o, p, q>>
    BY <1>3, <1>4, <2>2, <2>3, MarvellCfgIs DEF OpAt
  <2> QED  BY <2>1, <2>3, <2>4
<1>6. After(a, Fields!Ops(g, a), v) = Changed(a, q, Changed(a, p, Changed(a, o, v)))
  BY <1>5, AfterThree
<1>7. PICK v1, v2, w : v1 = Changed(a, o, v) /\ v2 = Changed(a, p, v1) /\ w = Changed(a, q, v2)
  OBVIOUS
<1>8. /\ v1[27] = (v[27] \ 0..3) \cup mode
      /\ v1[0] = v[0] /\ v1[4] = v[4] /\ v1[9] = v[9] /\ v1[16] = v[16] /\ v1[20] = v[20]
  <2>1. v1 = Changed(a, OpAt(27, 0..3, mode), v)
    BY <1>4, <1>7
  <2> QED  BY <2>1, ModeWrite
<1>9. /\ v2[20] = (v1[20] \ {1, 7}) \cup d
      /\ v2[0] = v1[0] /\ v2[4] = v1[4] /\ v2[9] = v1[9] /\ v2[16] = v1[16] /\ v2[27] = v1[27]
  <2>1. v2 = Changed(a, OpAt(20, {1, 7}, d), v1)
    BY <1>4, <1>7
  <2> QED  BY <2>1, LedWrite
<1>10. /\ w[0] = ((v2[0] \ {}) \cup {15}) \ {9, 15}
       /\ w[4] = v2[4] /\ w[9] = v2[9] /\ w[16] = v2[16] /\ w[20] = v2[20] /\ w[27] = v2[27]
  <2>1. w = Changed(a, OpAt(0, {}, {15}), v2)
    BY <1>4, <1>7
  <2> QED  BY <2>1, ControlWrite
<1>11. /\ w[4] = v[4] /\ w[9] = v[9] /\ w[16] = v[16] /\ w[27] = (v[27] \ 0..3) \cup mode
       /\ w[20] = (v[20] \ {1, 7}) \cup d /\ w[0] = (v[0] \cup {15}) \ {9, 15}
  BY <1>8, <1>9, <1>10
<1>12. mode \subseteq 0..3 /\ d \subseteq {1, 7}
  BY <1>3, FourBitsOnly
<1>13. v[0] \cap {9, 15} = {}
  BY <1>1, ViewIs
<1>14. ProfileOnly(v, w)
  <2>1. w[0] \ {15} = v[0] \ {15}
    BY <1>11, <1>13
  <2>2. w[20] \ {1, 7, 8, 14, 15} = v[20] \ {1, 7, 8, 14, 15}
    BY <1>11, <1>12
  <2>3. w[27] \ 0..3 = v[27] \ 0..3
    <3>1. PICK S : S = 0..3
      OBVIOUS
    <3>2. w[27] = (v[27] \ S) \cup mode /\ mode \subseteq S
      BY <1>11, <1>12, <3>1
    <3>3. w[27] \ S = v[27] \ S
      BY <3>2
    <3> QED  BY <3>1, <3>3
  <2> QED  BY <1>11, <2>1, <2>2, <2>3 DEF ProfileOnly
<1>15. w[27] \cap 0..3 = mode /\ w[20] \cap {1, 7} = d /\ w[20] \cap {8, 14, 15} = v[20] \cap {8, 14, 15}
  <2>1. w[27] \cap 0..3 = mode
    <3>1. PICK S : S = 0..3
      OBVIOUS
    <3>2. w[27] = (v[27] \ S) \cup mode /\ mode \subseteq S
      BY <1>11, <1>12, <3>1
    <3>3. w[27] \cap S = mode
      BY <3>2
    <3> QED  BY <3>1, <3>3
  <2>2. w[20] \cap {1, 7} = d
    BY <1>11, <1>12
  <2>3. w[20] \cap {8, 14, 15} = v[20] \cap {8, 14, 15}
    <3>1. \A n \in {8, 14, 15} : n \notin {1, 7} /\ n \notin d
      BY <1>12
    <3> QED  BY <1>11, <3>1
  <2> QED  BY <2>1, <2>2, <2>3
<1>16. Fields!Settings(w) = WithModes(s, mode, d)
  <2>1. PICK m1, d1, l1 : m1 = v[27] \cap 0..3 /\ d1 = v[20] \cap {1, 7} /\ l1 = v[20] \cap {8, 14, 15}
    OBVIOUS
  <2>2. s = MadeRecord(v, m1, d1, l1)
    BY <1>2, <1>14, <2>1, MadeByProfile
  <2>3. Fields!Settings(w) = MadeRecord(v, mode, d, l1)
    <3>1. PICK m2, d2, l2 : m2 = w[27] \cap 0..3 /\ d2 = w[20] \cap {1, 7} /\ l2 = w[20] \cap {8, 14, 15}
      OBVIOUS
    <3>2. Fields!Settings(w) = MadeRecord(v, m2, d2, l2)
      BY <1>14, <3>1, MadeByProfile
    <3>3. m2 = mode /\ d2 = d /\ l2 = l1
      BY <1>15, <2>1, <3>1
    <3> QED  BY <3>2, <3>3
  <2> QED  BY <2>2, <2>3, MadeChanged
<1>17. Fields!Promised(g, a, s) = WithModes(s, mode, d)
  BY <1>3 DEF Fields!Promised, WithModes
<1> QED  BY <1>1, <1>2, <1>6, <1>7, <1>16, <1>17

\* What PEF7071_config makes: the LEDs.
LEMMA Pef7071Kept ==
  ASSUME NEW a, NEW r, NEW g, g.fn = "PEF7071_config"
  PROVE  Fields!Settings(After(a, Fields!Ops(g, a), View(r))) = Fields!Promised(g, a, Fields!Settings(r))
<1>1. PICK v : v = View(r)
  OBVIOUS
<1>2. PICK s : s = Fields!Settings(v) /\ s = Fields!Settings(r)
  BY <1>1, SettingsOfView
<1>3. PICK o : o = OpAt(20, {14, 15}, {8})
  OBVIOUS
<1>4. Fields!Ops(g, a) = <<o>>
  <2>1. 160 + 20 = 180
    OBVIOUS
  <2>2. Fields!PEF7071_config = <<o>>
    BY <1>3, <2>1, Pef7071Is DEF OpAt
  <2>3. Fields!Ops(g, a) = Fields!PEF7071_config
    BY DEF Fields!Ops
  <2> QED  BY <2>2, <2>3
<1>5. After(a, Fields!Ops(g, a), v) = Changed(a, o, v)
  BY <1>4, AfterOne
<1>6. PICK w : w = Changed(a, o, v)
  OBVIOUS
<1>7. /\ w[20] = (v[20] \ {14, 15}) \cup {8}
      /\ w[0] = v[0] /\ w[4] = v[4] /\ w[9] = v[9] /\ w[16] = v[16] /\ w[27] = v[27]
  <2>1. w = Changed(a, OpAt(20, {14, 15}, {8}), v)
    BY <1>3, <1>6
  <2> QED  BY <2>1, LedWrite
<1>8. ProfileOnly(v, w)
  BY <1>7 DEF ProfileOnly
<1>9. /\ w[27] \cap 0..3 = v[27] \cap 0..3 /\ w[20] \cap {1, 7} = v[20] \cap {1, 7}
      /\ w[20] \cap {8, 14, 15} = {8}
  BY <1>7
<1>10. Fields!Settings(w) = WithLeds(s, {8})
  <2>1. PICK m1, d1, l1, e : /\ m1 = v[27] \cap 0..3 /\ d1 = v[20] \cap {1, 7} /\ l1 = v[20] \cap {8, 14, 15}
                             /\ e = {8}
    OBVIOUS
  <2>2. s = MadeRecord(v, m1, d1, l1)
    BY <1>2, <1>8, <2>1, MadeByProfile
  <2>3. Fields!Settings(w) = MadeRecord(v, m1, d1, e)
    <3>1. Fields!Settings(w) = MadeRecord(v, w[27] \cap 0..3, w[20] \cap {1, 7}, w[20] \cap {8, 14, 15})
      BY <1>8, MadeByProfile
    <3>2. w[27] \cap 0..3 = m1 /\ w[20] \cap {1, 7} = d1 /\ w[20] \cap {8, 14, 15} = e
      BY <1>9, <2>1
    <3> QED  BY <3>1, <3>2
  <2>4. Fields!Settings(w) = WithLeds(s, e)
    BY <2>2, <2>3, MadeChanged
  <2> QED  BY <2>1, <2>4
<1>11. Fields!Promised(g, a, s) = WithLeds(s, {8})
  BY DEF Fields!Promised, WithLeds
<1> QED  BY <1>1, <1>2, <1>5, <1>6, <1>10, <1>11

\* What set_adv makes of a bit: it is set when the capability is.
Granted(a, r, n, b, on) == IF on /\ n \in CapBits(a, r) THEN {b} ELSE {}
Advertises(a, b, n, on, v, w) ==
  on \in BOOLEAN /\ w = Changed(a, OfferMode(4, b, 1, n, on), v)
LEMMA AdvWrite ==
  ASSUME NEW a, NEW b, NEW n, NEW on, NEW v, NEW w, Advertises(a, b, n, on, v, w)
  PROVE  /\ w[4] = (v[4] \ {b}) \cup Granted(a, 1, n, b, on)
         /\ w[0] = v[0] /\ w[9] = v[9] /\ w[16] = v[16] /\ w[20] = v[20] /\ w[27] = v[27]
<1>0. on \in BOOLEAN /\ w = Changed(a, OfferMode(4, b, 1, n, on), v)
  BY DEF Advertises
<1>1. 4 \in 0..31 /\ 160 + 4 = 164
  OBVIOUS
<1>2. PICK c, p : c = (IF on THEN {b} ELSE {}) /\ p = (IF on THEN <<1, n>> ELSE <<0, 0>>)
  OBVIOUS
<1>3. OfferMode(4, b, 1, n, on) = SetBits(160 + 4, {b}, c, p)
  BY <1>2 DEF OfferMode
<1>4. BitsFor(a, SetBits(160 + 4, {b}, c, p)) = Granted(a, 1, n, b, on)
  <2>1. PICK o : o = SetBits(160 + 4, {b}, c, p)
    OBVIOUS
  <2>2. o.cap = p /\ o.bits = c
    BY <2>1 DEF SetBits
  <2>3. CASE on
    <3>1. p = <<1, n>> /\ p # <<0, 0>> /\ p[1] = 1 /\ p[2] = n /\ c = {b}
      BY <1>2, <2>3
    <3> QED  BY <2>1, <2>2, <2>3, <3>1 DEF BitsFor, Granted, Fields!NoCap
  <2>4. CASE ~on
    BY <1>2, <2>1, <2>2, <2>4 DEF BitsFor, Granted, Fields!NoCap
  <2> QED  BY <1>0, <2>3, <2>4
<1>5. w = Edit(v, 4, {b}, Granted(a, 1, n, b, on))
  <2>1. Changed(a, SetBits(160 + 4, {b}, c, p), v)
          = Edit(v, 4, {b}, BitsFor(a, SetBits(160 + 4, {b}, c, p)))
    BY <1>1, ChangedIs
  <2> QED  BY <1>0, <1>3, <1>4, <2>1
<1>6. w[4] = (v[4] \ {b}) \cup Granted(a, 1, n, b, on)
  BY <1>5, EditIs
<1>7. w[0] = v[0] /\ w[9] = v[9] /\ w[16] = v[16] /\ w[20] = v[20] /\ w[27] = v[27]
  <2>1. \A m \in {0, 9, 16, 20, 27} : m # 4
    OBVIOUS
  <2> QED  BY <1>5, <2>1, EditIs
<1> QED  BY <1>6, <1>7

\* The same of the gigabit modes.
AdvertisesGigabit(a, b, n, on, v, w) ==
  on \in BOOLEAN /\ w = Changed(a, OfferMode(9, b, 15, n, on), v)
LEMMA GigabitWrite ==
  ASSUME NEW a, NEW b, NEW n, NEW on, NEW v, NEW w, AdvertisesGigabit(a, b, n, on, v, w)
  PROVE  /\ w[9] = (v[9] \ {b}) \cup Granted(a, 15, n, b, on)
         /\ w[0] = v[0] /\ w[4] = v[4] /\ w[16] = v[16] /\ w[20] = v[20] /\ w[27] = v[27]
<1>0. on \in BOOLEAN /\ w = Changed(a, OfferMode(9, b, 15, n, on), v)
  BY DEF AdvertisesGigabit
<1>1. 9 \in 0..31 /\ 160 + 9 = 169
  OBVIOUS
<1>2. PICK c, p : c = (IF on THEN {b} ELSE {}) /\ p = (IF on THEN <<15, n>> ELSE <<0, 0>>)
  OBVIOUS
<1>3. OfferMode(9, b, 15, n, on) = SetBits(160 + 9, {b}, c, p)
  BY <1>2 DEF OfferMode
<1>4. BitsFor(a, SetBits(160 + 9, {b}, c, p)) = Granted(a, 15, n, b, on)
  <2>1. PICK o : o = SetBits(160 + 9, {b}, c, p)
    OBVIOUS
  <2>2. o.cap = p /\ o.bits = c
    BY <2>1 DEF SetBits
  <2>3. CASE on
    <3>1. p = <<15, n>> /\ p # <<0, 0>> /\ p[1] = 15 /\ p[2] = n /\ c = {b}
      BY <1>2, <2>3
    <3> QED  BY <2>1, <2>2, <2>3, <3>1 DEF BitsFor, Granted, Fields!NoCap
  <2>4. CASE ~on
    BY <1>2, <2>1, <2>2, <2>4 DEF BitsFor, Granted, Fields!NoCap
  <2> QED  BY <1>0, <2>3, <2>4
<1>5. w = Edit(v, 9, {b}, Granted(a, 15, n, b, on))
  <2>1. Changed(a, SetBits(160 + 9, {b}, c, p), v)
          = Edit(v, 9, {b}, BitsFor(a, SetBits(160 + 9, {b}, c, p)))
    BY <1>1, ChangedIs
  <2> QED  BY <1>0, <1>3, <1>4, <2>1
<1>6. w[9] = (v[9] \ {b}) \cup Granted(a, 15, n, b, on)
  BY <1>5, EditIs
<1>7. w[0] = v[0] /\ w[4] = v[4] /\ w[16] = v[16] /\ w[20] = v[20] /\ w[27] = v[27]
  <2>1. \A m \in {0, 4, 16, 20, 27} : m # 9
    OBVIOUS
  <2> QED  BY <1>5, <2>1, EditIs
<1> QED  BY <1>6, <1>7

\* The bits of the modes.
LEMMA CapIs ==
  ASSUME NEW a
  PROVE  /\ 15 \in CapBits(a, 1) <=> "T4" \in Able[a]
         /\ 14 \in CapBits(a, 1) <=> "100full" \in Able[a]
         /\ 13 \in CapBits(a, 1) <=> "100half" \in Able[a]
         /\ 12 \in CapBits(a, 1) <=> "10full" \in Able[a]
         /\ 11 \in CapBits(a, 1) <=> "10half" \in Able[a]
         /\ 13 \in CapBits(a, 15) <=> "1000full" \in Able[a]
         /\ 12 \in CapBits(a, 15) <=> "1000half" \in Able[a]
<1> DEFINE D == {"T4", "100full", "100half", "10full", "10half"}
           E == {"1000full", "1000half"}
           S == Fields!ModeBits.status
           T == Fields!ModeBits.ext
<1>1. /\ DOMAIN S = D /\ S["T4"] = 15 /\ S["100full"] = 14 /\ S["100half"] = 13
      /\ S["10full"] = 12 /\ S["10half"] = 11
  BY DEF Fields!ModeBits
<1>2. DOMAIN T = E /\ T["1000full"] = 13 /\ T["1000half"] = 12
  BY DEF Fields!ModeBits
<1> HIDE DEF S, T
<1>3. \A n : n \in CapBits(a, 1) <=> \E m \in D : m \in Able[a] /\ S[m] = n
  <2>1. CapBits(a, 1) = {S[m] : m \in Able[a] \cap DOMAIN S}
    BY DEF CapBits, Fields!Encoded, S
  <2> QED  BY <1>1, <2>1
<1>4. \A n : n \in CapBits(a, 15) <=> \E m \in E : m \in Able[a] /\ T[m] = n
  <2>1. CapBits(a, 15) = {T[m] : m \in Able[a] \cap DOMAIN T}
    BY DEF CapBits, Fields!Encoded, T
  <2> QED  BY <1>2, <2>1
<1> QED  BY <1>1, <1>2, <1>3, <1>4

\* The modes a view advertises.
LEMMA AdvIs ==
  ASSUME NEW v
  PROVE  \A m : m \in Advs(v) <=>
           \/ m = "T4" /\ 9 \in v[4]
           \/ m = "100full" /\ 8 \in v[4]
           \/ m = "100half" /\ 7 \in v[4]
           \/ m = "10full" /\ 6 \in v[4]
           \/ m = "10half" /\ 5 \in v[4]
           \/ m = "1000full" /\ 9 \in v[9]
           \/ m = "1000half" /\ 8 \in v[9]
<1> DEFINE D == {"T4", "100full", "100half", "10full", "10half"}
           E == {"1000full", "1000half"}
           S == Fields!ModeBits.adv
           T == Fields!ModeBits.gigabit
<1>1. /\ DOMAIN S = D /\ S["T4"] = 9 /\ S["100full"] = 8 /\ S["100half"] = 7
      /\ S["10full"] = 6 /\ S["10half"] = 5
  BY DEF Fields!ModeBits
<1>2. DOMAIN T = E /\ T["1000full"] = 9 /\ T["1000half"] = 8
  BY DEF Fields!ModeBits
<1> HIDE DEF S, T
<1>3. Advs(v) = {m \in DOMAIN S : S[m] \in v[4]} \cup {m \in DOMAIN T : T[m] \in v[9]}
  BY DEF Advs, Fields!Decoded, S, T
<1>4. \A m : m \in Advs(v) <=> (m \in D /\ S[m] \in v[4]) \/ (m \in E /\ T[m] \in v[9])
  BY <1>1, <1>2, <1>3
<1> QED  BY <1>1, <1>2, <1>4

\* What set_adv makes of a view, at each speed.
AdvertiseAt(a, x, v, w, on) ==
  /\ x \in 0..2 /\ on \in BOOLEAN
  /\ w[0] = v[0] /\ w[16] = v[16] /\ w[20] = v[20] /\ w[27] = v[27]
  /\ x # 2 => w[9] = v[9]
  /\ x = 2 => w[4] = v[4]
  /\ x = 2 => w[9] = (((v[9] \ {9}) \cup Granted(a, 15, 13, 9, on)) \ {8}) \cup Granted(a, 15, 12, 8, on)
  /\ x = 1 => w[4] = (((((v[4] \ {9}) \cup Granted(a, 1, 15, 9, on)) \ {8})
                        \cup Granted(a, 1, 14, 8, on)) \ {7}) \cup Granted(a, 1, 13, 7, on)
  /\ x = 0 => w[4] = (((v[4] \ {6}) \cup Granted(a, 1, 12, 6, on)) \ {5}) \cup Granted(a, 1, 11, 5, on)

\* At each speed it is what is promised, and nothing else changes.
LEMMA AdvsKept ==
  ASSUME NEW a, NEW x, NEW v, NEW w, NEW on, AdvertiseAt(a, x, v, w, on)
  PROVE  /\ Advs(w) = (Advs(v) \ Fields!AtSpeed(x))
                        \cup (IF on THEN Fields!AtSpeed(x) \cap Able[a] ELSE {})
         /\ RestOf(w) = RestOf(v)
<1>0. x \in 0..2 /\ on \in BOOLEAN
  BY DEF AdvertiseAt
<1>1. CASE x = 2
  <2>1. /\ w[4] = v[4] /\ w[0] = v[0] /\ w[20] = v[20] /\ w[27] = v[27]
        /\ w[9] = (((v[9] \ {9}) \cup Granted(a, 15, 13, 9, on)) \ {8}) \cup Granted(a, 15, 12, 8, on)
    BY <1>1 DEF AdvertiseAt
  <2>2. /\ 9 \in w[9] <=> on /\ "1000full" \in Able[a]
        /\ 8 \in w[9] <=> on /\ "1000half" \in Able[a]
    BY <1>0, <2>1, CapIs DEF Granted
  <2>3. w[9] \ {8, 9} = v[9] \ {8, 9}
    BY <2>1 DEF Granted
  <2>4. Fields!AtSpeed(x) = {"1000full", "1000half"}
    BY <1>1 DEF Fields!AtSpeed
  <2>5. Advs(w) = (Advs(v) \ Fields!AtSpeed(x)) \cup (IF on THEN Fields!AtSpeed(x) \cap Able[a] ELSE {})
    BY <1>0, <2>1, <2>2, <2>4, AdvIs
  <2> QED  BY <2>1, <2>3, <2>5 DEF RestOf
<1>2. CASE x = 1
  <2>1. /\ w[9] = v[9] /\ w[0] = v[0] /\ w[20] = v[20] /\ w[27] = v[27]
        /\ w[4] = (((((v[4] \ {9}) \cup Granted(a, 1, 15, 9, on)) \ {8})
                     \cup Granted(a, 1, 14, 8, on)) \ {7}) \cup Granted(a, 1, 13, 7, on)
    BY <1>2 DEF AdvertiseAt
  <2>2. /\ 9 \in w[4] <=> on /\ "T4" \in Able[a]
        /\ 8 \in w[4] <=> on /\ "100full" \in Able[a]
        /\ 7 \in w[4] <=> on /\ "100half" \in Able[a]
        /\ 6 \in w[4] <=> 6 \in v[4]
        /\ 5 \in w[4] <=> 5 \in v[4]
    BY <1>0, <2>1, CapIs DEF Granted
  <2>3. w[4] \ 5..9 = v[4] \ 5..9
    <3>1. 9 \in 5..9 /\ 8 \in 5..9 /\ 7 \in 5..9
      OBVIOUS
    <3>2. PICK Z : Z = 5..9
      OBVIOUS
    <3>3. w[4] \ Z = v[4] \ Z
      BY <2>1, <3>1, <3>2 DEF Granted
    <3> QED  BY <3>2, <3>3
  <2>4. Fields!AtSpeed(x) = {"T4", "100full", "100half"}
    BY <1>2 DEF Fields!AtSpeed
  <2>5. Advs(w) = (Advs(v) \ Fields!AtSpeed(x)) \cup (IF on THEN Fields!AtSpeed(x) \cap Able[a] ELSE {})
    BY <1>0, <2>1, <2>2, <2>4, AdvIs
  <2> QED  BY <2>1, <2>3, <2>5 DEF RestOf
<1>3. CASE x = 0
  <2>1. /\ w[9] = v[9] /\ w[0] = v[0] /\ w[20] = v[20] /\ w[27] = v[27]
        /\ w[4] = (((v[4] \ {6}) \cup Granted(a, 1, 12, 6, on)) \ {5}) \cup Granted(a, 1, 11, 5, on)
    BY <1>3 DEF AdvertiseAt
  <2>2. /\ 6 \in w[4] <=> on /\ "10full" \in Able[a]
        /\ 5 \in w[4] <=> on /\ "10half" \in Able[a]
        /\ 9 \in w[4] <=> 9 \in v[4]
        /\ 8 \in w[4] <=> 8 \in v[4]
        /\ 7 \in w[4] <=> 7 \in v[4]
    BY <1>0, <2>1, CapIs DEF Granted
  <2>3. w[4] \ 5..9 = v[4] \ 5..9
    <3>1. 6 \in 5..9 /\ 5 \in 5..9
      OBVIOUS
    <3>2. PICK Z : Z = 5..9
      OBVIOUS
    <3>3. w[4] \ Z = v[4] \ Z
      BY <2>1, <3>1, <3>2 DEF Granted
    <3> QED  BY <3>2, <3>3
  <2>4. Fields!AtSpeed(x) = {"10full", "10half"}
    BY <1>3 DEF Fields!AtSpeed
  <2>5. Advs(w) = (Advs(v) \ Fields!AtSpeed(x)) \cup (IF on THEN Fields!AtSpeed(x) \cap Able[a] ELSE {})
    BY <1>0, <2>1, <2>2, <2>4, AdvIs
  <2> QED  BY <2>1, <2>3, <2>5 DEF RestOf
<1> QED  BY <1>0, <1>1, <1>2, <1>3

\* What set_adv makes of a view.
LEMMA AdvWritten ==
  ASSUME NEW a, NEW v, NEW g, NEW x, x = g.x, g.fn = "set_adv", x \in 0..2, NEW on, on = g.on,
         on \in BOOLEAN
  PROVE  AdvertiseAt(a, x, v, After(a, Fields!Ops(g, a), v), on)
<1>1. Fields!Ops(g, a) = Fields!Selecting(a, Fields!set_adv(x, on))
  BY DEF Fields!Ops
<1>2. CASE x = 2
  <2>1. PICK o, p : o = OfferMode(9, 9, 15, 13, on) /\ p = OfferMode(9, 8, 15, 12, on)
    OBVIOUS
  <2>2. Fields!set_adv(2, on) = <<o, p>>
    BY <2>1, SetAdvIs
  <2>3. IsRow(<<o, p>>, 2) /\ 2 \in 1..3 /\ <<o, p>>[1] = o /\ <<o, p>>[2] = p
    BY DEF IsRow
  <2>4. Fields!Ops(g, a) = Fields!Selecting(a, <<o, p>>)
    BY <1>1, <1>2, <2>2
  <2>5. After(a, Fields!Ops(g, a), v) = Changed(a, p, Changed(a, o, v))
    BY <2>3, <2>4, AfterSelecting
  <2>6. PICK u, w : u = Changed(a, o, v) /\ w = Changed(a, p, u)
    OBVIOUS
  <2>7. /\ u[9] = (v[9] \ {9}) \cup Granted(a, 15, 13, 9, on)
        /\ u[0] = v[0] /\ u[4] = v[4] /\ u[16] = v[16] /\ u[20] = v[20] /\ u[27] = v[27]
    <3>1. AdvertisesGigabit(a, 9, 13, on, v, u)
      BY <2>1, <2>6 DEF AdvertisesGigabit
    <3> QED  BY <3>1, GigabitWrite
  <2>8. /\ w[9] = (u[9] \ {8}) \cup Granted(a, 15, 12, 8, on)
        /\ w[0] = u[0] /\ w[4] = u[4] /\ w[16] = u[16] /\ w[20] = u[20] /\ w[27] = u[27]
    <3>1. AdvertisesGigabit(a, 8, 12, on, u, w)
      BY <2>1, <2>6 DEF AdvertisesGigabit
    <3> QED  BY <3>1, GigabitWrite
  <2>9. AdvertiseAt(a, x, v, w, on)
    BY <1>2, <2>7, <2>8 DEF AdvertiseAt
  <2> QED  BY <2>5, <2>6, <2>9
<1>3. CASE x = 1
  <2>1. PICK o, p, q : /\ o = OfferMode(4, 9, 1, 15, on) /\ p = OfferMode(4, 8, 1, 14, on)
                       /\ q = OfferMode(4, 7, 1, 13, on)
    OBVIOUS
  <2>2. Fields!set_adv(1, on) = <<o, p, q>>
    BY <2>1, SetAdvIs
  <2>3. /\ IsRow(<<o, p, q>>, 3) /\ 3 \in 1..3
        /\ <<o, p, q>>[1] = o /\ <<o, p, q>>[2] = p /\ <<o, p, q>>[3] = q
    BY DEF IsRow
  <2>4. Fields!Ops(g, a) = Fields!Selecting(a, <<o, p, q>>)
    BY <1>1, <1>3, <2>2
  <2>5. After(a, Fields!Ops(g, a), v) = Changed(a, q, Changed(a, p, Changed(a, o, v)))
    BY <2>3, <2>4, AfterSelecting
  <2>6. PICK u, t, w : u = Changed(a, o, v) /\ t = Changed(a, p, u) /\ w = Changed(a, q, t)
    OBVIOUS
  <2>7. /\ u[4] = (v[4] \ {9}) \cup Granted(a, 1, 15, 9, on)
        /\ u[0] = v[0] /\ u[9] = v[9] /\ u[16] = v[16] /\ u[20] = v[20] /\ u[27] = v[27]
    <3>1. Advertises(a, 9, 15, on, v, u)
      BY <2>1, <2>6 DEF Advertises
    <3> QED  BY <3>1, AdvWrite
  <2>8. /\ t[4] = (u[4] \ {8}) \cup Granted(a, 1, 14, 8, on)
        /\ t[0] = u[0] /\ t[9] = u[9] /\ t[16] = u[16] /\ t[20] = u[20] /\ t[27] = u[27]
    <3>1. Advertises(a, 8, 14, on, u, t)
      BY <2>1, <2>6 DEF Advertises
    <3> QED  BY <3>1, AdvWrite
  <2>9. /\ w[4] = (t[4] \ {7}) \cup Granted(a, 1, 13, 7, on)
        /\ w[0] = t[0] /\ w[9] = t[9] /\ w[16] = t[16] /\ w[20] = t[20] /\ w[27] = t[27]
    <3>1. Advertises(a, 7, 13, on, t, w)
      BY <2>1, <2>6 DEF Advertises
    <3> QED  BY <3>1, AdvWrite
  <2>10. AdvertiseAt(a, x, v, w, on)
    BY <1>3, <2>7, <2>8, <2>9 DEF AdvertiseAt
  <2> QED  BY <2>5, <2>6, <2>10
<1>4. CASE x = 0
  <2>1. PICK o, p : o = OfferMode(4, 6, 1, 12, on) /\ p = OfferMode(4, 5, 1, 11, on)
    OBVIOUS
  <2>2. Fields!set_adv(0, on) = <<o, p>>
    BY <2>1, SetAdvIs
  <2>3. IsRow(<<o, p>>, 2) /\ 2 \in 1..3 /\ <<o, p>>[1] = o /\ <<o, p>>[2] = p
    BY DEF IsRow
  <2>4. Fields!Ops(g, a) = Fields!Selecting(a, <<o, p>>)
    BY <1>1, <1>4, <2>2
  <2>5. After(a, Fields!Ops(g, a), v) = Changed(a, p, Changed(a, o, v))
    BY <2>3, <2>4, AfterSelecting
  <2>6. PICK u, w : u = Changed(a, o, v) /\ w = Changed(a, p, u)
    OBVIOUS
  <2>7. /\ u[4] = (v[4] \ {6}) \cup Granted(a, 1, 12, 6, on)
        /\ u[0] = v[0] /\ u[9] = v[9] /\ u[16] = v[16] /\ u[20] = v[20] /\ u[27] = v[27]
    <3>1. Advertises(a, 6, 12, on, v, u)
      BY <2>1, <2>6 DEF Advertises
    <3> QED  BY <3>1, AdvWrite
  <2>8. /\ w[4] = (u[4] \ {5}) \cup Granted(a, 1, 11, 5, on)
        /\ w[0] = u[0] /\ w[9] = u[9] /\ w[16] = u[16] /\ w[20] = u[20] /\ w[27] = u[27]
    <3>1. Advertises(a, 5, 11, on, u, w)
      BY <2>1, <2>6 DEF Advertises
    <3> QED  BY <3>1, AdvWrite
  <2>9. AdvertiseAt(a, x, v, w, on)
    BY <1>4, <2>7, <2>8 DEF AdvertiseAt
  <2> QED  BY <2>5, <2>6, <2>9
<1> QED  BY <1>2, <1>3, <1>4

\* set_adv keeps its promise.
LEMMA AdvKept ==
  ASSUME NEW a, NEW r, NEW g, g.fn = "set_adv", g.x \in 0..2, g.on \in BOOLEAN
  PROVE  Fields!Settings(After(a, Fields!Ops(g, a), View(r))) = Fields!Promised(g, a, Fields!Settings(r))
<1>1. PICK v : v = View(r)
  OBVIOUS
<1>2. PICK s : s = Fields!Settings(v) /\ s = Fields!Settings(r)
  BY <1>1, SettingsOfView
<1>3. PICK x, on : x = g.x /\ on = g.on
  OBVIOUS
<1>4. PICK w : w = After(a, Fields!Ops(g, a), v)
  OBVIOUS
<1>5. AdvertiseAt(a, x, v, w, on)
  <2>1. x \in 0..2 /\ on \in BOOLEAN
    BY <1>3
  <2> QED  BY <1>3, <1>4, <2>1, AdvWritten
<1>6. PICK m : m = (Advs(v) \ Fields!AtSpeed(x)) \cup (IF on THEN Fields!AtSpeed(x) \cap Able[a] ELSE {})
  OBVIOUS
<1>7. Advs(w) = m /\ RestOf(w) = RestOf(v)
  BY <1>5, <1>6, AdvsKept
<1>8. w[0] = v[0] /\ w[16] = v[16] /\ w[20] = v[20] /\ w[27] = v[27]
  BY <1>5 DEF AdvertiseAt
<1>9. PICK n, l, sp, mode, d, e, c, t :
        /\ n = (12 \in v[0]) /\ l = (14 \in v[0]) /\ sp = SpeedIn(v[0]) /\ mode = v[27] \cap 0..3
        /\ d = v[20] \cap {1, 7} /\ e = v[20] \cap {8, 14, 15} /\ c = v[16] /\ t = RestOf(v)
  OBVIOUS
<1>10. s = Record(Advs(v), n, l, sp, mode, d, e, c, t)
  BY <1>2, <1>9, SettingsAre, Zenon
<1>11. Fields!Settings(w) = Record(m, n, l, sp, mode, d, e, c, t)
  BY <1>7, <1>8, <1>9, SettingsAre, Zenon
<1>12. WithAdv(s, m) = Record(m, n, l, sp, mode, d, e, c, t) /\ s.adv = Advs(v)
  <2>1. PICK z : z = Advs(v)
    OBVIOUS
  <2>2. s = Record(z, n, l, sp, mode, d, e, c, t)
    BY <1>10, <2>1
  <2> QED  BY <2>1, <2>2, RecordChanged
<1>13. Fields!Promised(g, a, s) = WithAdv(s, m)
  BY <1>3, <1>6, <1>12 DEF Fields!Promised, WithAdv
<1> QED  BY <1>1, <1>2, <1>4, <1>11, <1>12, <1>13

\* Each of the functions that are for a PHY keeps its promise.
LEMMA PromiseKept ==
  ASSUME NEW g \in Fields!OfPhy \cup Fields!OfAddress, g.fn # "marvell_phy_cfg", NEW a, NEW r
  PROVE  Fields!Settings(After(a, Fields!Ops(g, a), View(r))) = Fields!Promised(g, a, Fields!Settings(r))
<1>1. ASSUME NEW x \in 0..2, NEW on \in BOOLEAN, g = Fields!Fn("set_adv", x, on)
      PROVE  g.fn = "set_adv" /\ g.x \in 0..2 /\ g.on \in BOOLEAN
  BY <1>1, FnIs
<1>2. ASSUME NEW x \in 0..2, NEW on \in BOOLEAN, g = Fields!Fn("force", x, on), x = 2 => on
      PROVE  g.fn = "force" /\ g.x \in 0..2 /\ g.on \in BOOLEAN /\ (g.x = 2 => g.on)
  BY <1>2, FnIs
<1>3. \/ g.fn = "set_adv" /\ g.x \in 0..2 /\ g.on \in BOOLEAN
      \/ g.fn = "force" /\ g.x \in 0..2 /\ g.on \in BOOLEAN /\ (g.x = 2 => g.on)
      \/ g.fn = "loopback"
      \/ g.fn = "restart_an"
      \/ g.fn = "PEF7071_config"
      \/ g.fn = "marvell_cfg" /\ g.x \in 0..15 /\ g.on \in BOOLEAN
  <2>1. CASE g \in Fields!OfPhy
    <3>1. CASE \E x \in 0..2, on \in BOOLEAN : g = Fields!Fn("set_adv", x, on)
      BY <3>1, <1>1
    <3>2. CASE \E x \in 0..2, on \in BOOLEAN : g = Fields!Fn("force", x, on) /\ (x = 2 => on)
      BY <3>2, <1>2
    <3>3. CASE g = Fields!Fn("loopback", 0, FALSE) \/ g = Fields!Fn("restart_an", 0, TRUE)
      BY <3>3 DEF Fields!Fn
    <3>4. \/ \E s \in 0..2, on \in BOOLEAN : g = Fields!Fn("set_adv", s, on)
          \/ \E s \in 0..2, gb \in BOOLEAN : g = Fields!Fn("force", s, gb) /\ (s = 2 => gb)
          \/ g = Fields!Fn("loopback", 0, FALSE) \/ g = Fields!Fn("restart_an", 0, TRUE)
      BY <2>1, OfPhyAre
    <3> QED  BY <3>1, <3>2, <3>3, <3>4, Zenon
  <2>2. CASE g \in Fields!OfAddress
    <3>1. 15 \in 0..15 /\ 4 \in 0..15 /\ 11 \in 0..15
      OBVIOUS
    <3>2. g.fn = "PEF7071_config" \/ (g.fn = "marvell_cfg" /\ g.on \in BOOLEAN /\ g.x \in {15, 4, 11})
      BY <2>2, OfAddressAre
    <3> QED  BY <3>1, <3>2
  <2> QED  BY <2>1, <2>2
<1> QED  BY <1>3, AdvKept, ForceKept, LoopbackKept, RestartKept, Pef7071Kept, MarvellKept

\* An access does not change the call, and something is left to do before it.
LEMMA AccessCalls ==
  ASSUME Fields!Access
  PROVE  Fields!call' = Fields!call /\ todo # <<>>
<1>1. Fields!Done => Fields!call' = Fields!call
  BY DEF Fields!Done, Fields!call
<1>2. Fields!Load => Fields!call' = Fields!call
  BY DEF Fields!Load, Fields!call
<1>3. Fields!UnlessBit => Fields!call' = Fields!call
  BY DEF Fields!UnlessBit, Fields!call
<1> QED  BY <1>1, <1>2, <1>3 DEF Fields!Access, Fields!Store, Fields!PutWord, Fields!SaveWord,
  Fields!RestoreWord, Fields!WaitEnds

\* What is behind all of a row and nothing less is nothing.
LEMMA EndOf ==
  ASSUME NEW n, n \in Nat, NEW s, IsRow(s, n), NEW j, j \in 0..n, Behind(s, j) = <<>>
  PROVE  j = n
<1> SUFFICES ASSUME j # n PROVE FALSE
  OBVIOUS
<1>1. j \in 0..(n - 1)
  OBVIOUS
<1> QED  BY <1>1, BehindIs

\* A function that returns has restored MDIO_ADDR1 and kept its promise.
LEMMA ReturnKeeps ==
  ASSUME FieldsInv, FieldsInv', Fields!call' = Fields!call, todo' = <<>>
  PROVE  /\ mac_registers'["MDIO_ADDR1"] = addr1
         /\ who # -1 /\ function.fn # "marvell_phy_cfg" /\ ~disturbed' =>
              Fields!Settings(phy_registers'[who]) = Fields!Promised(function, who, Fields!Settings(before))
<1>1. function' = function /\ who' = who /\ before' = before /\ addr1' = addr1
  BY CallStays
<1>2. PICK b : b = Body /\ Body' = b
  BY <1>1, BodyStays
<1>3. PICK n \in Nat : n = Len(b) /\ IsRow(b, n)
  <2>1. CallOk
    BY DEF FieldsInv
  <2>2. Len(Body) \in 1..23 /\ IsRow(Body, Len(Body))
    BY <2>1, BodyIs
  <2>3. Len(Body) \in Nat
    BY <2>2
  <2> QED  BY <1>2, <2>2, <2>3
<1>4. PICK j \in 0..n : Along(j)'
  BY <1>2, <1>3 DEF FieldsInv
<1>5. j = n /\ Behind(b, n) = <<>>
  <2>1. Behind(b, j) = <<>>
    BY <1>2, <1>4 DEF Along
  <2>2. j \in 0..n /\ n \in Nat /\ IsRow(b, n)
    BY <1>3
  <2>3. j = n
    BY <2>1, <2>2, EndOf
  <2> QED  BY <2>1, <2>3
<1>6. Selects(n)' /\ Promises(n)'
  BY <1>4, <1>5 DEF Along
<1>7. mac_registers'["MDIO_ADDR1"] = addr1
  <2>1. n \notin 2..(n - 1)
    OBVIOUS
  <2> QED  BY <1>1, <1>2, <1>3, <1>6, <2>1 DEF Selects
<1>8. ASSUME who # -1, function.fn # "marvell_phy_cfg", ~disturbed'
      PROVE  Fields!Settings(phy_registers'[who]) = Fields!Promised(function, who, Fields!Settings(before))
  <2>1. who \in Populated /\ function \in Fields!OfPhy \cup Fields!OfAddress
    BY <1>8 DEF FieldsInv, CallOk
  <2>2. After(who, Behind(b, n), View(phy_registers'[who])) = After(who, b, View(before))
    BY <1>1, <1>2, <1>6, <1>8, <2>1 DEF Promises
  <2>3. PICK a, p, r : a = who /\ p = phy_registers'[who] /\ r = before
    OBVIOUS
  <2>4. View(p) = After(a, b, View(r))
    BY <1>5, <2>2, <2>3, AfterEnd
  <2>5. b = Fields!Ops(function, a)
    BY <1>2, <2>1, <2>3, KindsApart DEF Body
  <2>6. Fields!Settings(View(p)) = Fields!Settings(p)
    BY SettingsOfView
  <2>7. Fields!Settings(After(a, Fields!Ops(function, a), View(r)))
          = Fields!Promised(function, a, Fields!Settings(r))
    BY <1>8, <2>1, PromiseKept
  <2> QED  BY <2>3, <2>4, <2>5, <2>6, <2>7
<1> QED  BY <1>7, <1>8

\* The MAC is on when it is set up.
LEMMA OnIsSetUp ==
  ASSUME FieldsInv', {0, 1} \cap mac_registers'["COMMAND_CONFIG"] # {}
  PROVE  MacIs(mac_registers')
<1>1. PICK j \in 0..Len(Body') : Along(j)'
  BY DEF FieldsInv
<1>2. SetsUp(j)'
  BY <1>1 DEF Along
<1>3. CASE function' # TseUp
  <2>1. function' # TseUp'
    BY <1>3 DEF TseUp, Fields!Fn
  <2> QED  BY <1>2, <2>1 DEF SetsUp, MacIs
<1>4. CASE function' = TseUp
  <2>1. function' = TseUp' /\ function'.fn = "tse_init"
    BY <1>4 DEF TseUp, Fields!Fn
  <2>2. Body' = Fields!tse_init'
    BY <2>1 DEF Body
  <2>3. PICK t : t = Fields!tse_init /\ Fields!tse_init' = t
    OBVIOUS
  <2>4. Len(t) = 23
    BY <2>3, OpsOfInit, RowIs
  <2>5. j \in 0..23
    BY <1>1, <2>2, <2>3, <2>4
  <2>6. ~(j <= 20)
    BY <1>2, <2>1 DEF SetsUp
  <2>7. j >= 4 /\ j >= 7 /\ j >= 12 /\ j >= 13 /\ j >= 14
    BY <2>5, <2>6
  <2> QED  BY <1>2, <2>1, <2>7 DEF SetsUp, MacIs
<1> QED  BY <1>3, <1>4

\* The MAC address of the firmware.
LEMMA PartOfBytes ==
  ASSUME NEW s, \A k \in 1..6 : s[k] \in Nat, NEW m \in 1..6, NEW n \in 1..6, m <= n
  PROVE  /\ SubSeq(s, m, n) \in Seq(Nat) /\ Len(SubSeq(s, m, n)) = n - m + 1
         /\ \A k \in 1..(n - m + 1) : SubSeq(s, m, n)[k] = s[m + k - 1]
<1>1. \A k \in m..n : s[k] \in Nat
  OBVIOUS
<1>2. m \in Int /\ n \in Int
  OBVIOUS
<1> QED  BY <1>1, <1>2, SubSeqProperties
LEMMA MacSourceIs ==
  /\ SubSeq(Fields!mac_src, 1, 4) = <<222, 173, 190, 239>>
  /\ SubSeq(Fields!mac_src, 5, 6) \o <<0, 0>> = <<202, 254, 0, 0>>
<1>1. PICK s : s = Fields!mac_src
  OBVIOUS
<1>2. s[1] = 222 /\ s[2] = 173 /\ s[3] = 190 /\ s[4] = 239 /\ s[5] = 202 /\ s[6] = 254
  BY <1>1 DEF Fields!mac_src
<1>3. \A k \in 1..6 : s[k] \in Nat
  <2>1. \A k \in 1..6 : k = 1 \/ k = 2 \/ k = 3 \/ k = 4 \/ k = 5 \/ k = 6
    OBVIOUS
  <2> QED  BY <1>2, <2>1
<1>4. SubSeq(s, 1, 4) = <<222, 173, 190, 239>>
  <2>1. PICK p : p = SubSeq(s, 1, 4)
    OBVIOUS
  <2>2. 1 \in 1..6 /\ 4 \in 1..6 /\ 1 <= 4 /\ 4 - 1 + 1 = 4
    OBVIOUS
  <2>3. /\ p \in Seq(Nat) /\ Len(p) = 4 - 1 + 1
        /\ \A k \in 1..(4 - 1 + 1) : p[k] = s[1 + k - 1]
    BY <1>3, <2>1, <2>2, PartOfBytes
  <2>4. p[1] = s[1] /\ p[2] = s[2] /\ p[3] = s[3] /\ p[4] = s[4]
    BY <2>3
  <2>5. PICK t : t = <<222, 173, 190, 239>>
    OBVIOUS
  <2>6. t \in Seq(Nat) /\ Len(t) = 4 /\ t[1] = 222 /\ t[2] = 173 /\ t[3] = 190 /\ t[4] = 239
    BY <2>5
  <2>7. Len(p) = Len(t) /\ \A k \in 1..Len(p) : p[k] = t[k]
    BY <1>2, <2>2, <2>3, <2>4, <2>6
  <2>8. p = t
    BY <2>3, <2>6, <2>7, SeqEqual
  <2> QED  BY <2>1, <2>5, <2>8
<1>5. SubSeq(s, 5, 6) = <<202, 254>>
  <2>1. PICK p : p = SubSeq(s, 5, 6)
    OBVIOUS
  <2>2. 5 \in 1..6 /\ 6 \in 1..6 /\ 5 <= 6 /\ 6 - 5 + 1 = 2
    OBVIOUS
  <2>3. /\ p \in Seq(Nat) /\ Len(p) = 6 - 5 + 1
        /\ \A k \in 1..(6 - 5 + 1) : p[k] = s[5 + k - 1]
    BY <1>3, <2>1, <2>2, PartOfBytes
  <2>4. p[1] = s[5] /\ p[2] = s[6]
    BY <2>3
  <2>5. PICK t : t = <<202, 254>>
    OBVIOUS
  <2>6. t \in Seq(Nat) /\ Len(t) = 2 /\ t[1] = 202 /\ t[2] = 254
    BY <2>5
  <2>7. Len(p) = Len(t) /\ \A k \in 1..Len(p) : p[k] = t[k]
    BY <1>2, <2>2, <2>3, <2>4, <2>6
  <2>8. p = t
    BY <2>3, <2>6, <2>7, SeqEqual
  <2> QED  BY <2>1, <2>5, <2>8
<1>6. <<202, 254>> \o <<0, 0>> = <<202, 254, 0, 0>>
  <2>1. PICK x, y, z : x = <<202, 254>> /\ y = <<0, 0>> /\ z = <<202, 254, 0, 0>>
    OBVIOUS
  <2>2. IsRow(x, 2) /\ IsRow(y, 2) /\ z = [k \in 1..4 |-> z[k]]
    BY <2>1 DEF IsRow
  <2>3. x \o y = [k \in 1..(2 + 2) |-> IF k <= 2 THEN x[k] ELSE y[k - 2]]
    BY <2>2, JoinedAre DEF IsRow
  <2>4. /\ x[1] = 202 /\ x[2] = 254 /\ y[1] = 0 /\ y[2] = 0
        /\ z[1] = 202 /\ z[2] = 254 /\ z[3] = 0 /\ z[4] = 0
    BY <2>1
  <2>5. \A k \in 1..4 : z[k] = IF k <= 2 THEN x[k] ELSE y[k - 2]
    <3>1. \A k \in 1..4 : k = 1 \/ k = 2 \/ k = 3 \/ k = 4
      OBVIOUS
    <3> QED  BY <2>4, <3>1
  <2>6. 2 + 2 = 4
    OBVIOUS
  <2>7. x \o y = z
    BY <2>2, <2>3, <2>5, <2>6
  <2> QED  BY <2>1, <2>7
<1> QED  BY <1>1, <1>4, <1>5, <1>6

\* Steps of the other parts.
LEMMA FieldsStay ==
  ASSUME FieldsInv, UNCHANGED mdioVars
  PROVE  FieldsInv'
<1>1. /\ mac_registers' = mac_registers /\ phy_registers' = phy_registers /\ todo' = todo
      /\ function' = function /\ who' = who /\ temp' = temp /\ loaded' = loaded /\ saved' = saved
      /\ calls' = calls /\ before' = before /\ addr1' = addr1 /\ disturbed' = disturbed
  BY DEF mdioVars
<1>2. Aside
  <2>1. Fields!progress' = Fields!progress /\ Fields!call' = Fields!call
    BY <1>1 DEF Fields!progress, Fields!call
  <2>2. disturbed \in BOOLEAN
    BY DEF FieldsInv, CallOk
  <2> QED  BY <1>1, <2>1, <2>2 DEF Aside
<1>3. RegistersOk'
  <2>1. RegistersOk
    BY DEF FieldsInv
  <2> QED  BY <1>1, <2>1 DEF RegistersOk, MacNames, CapBits, Fields!np_tse_mac, Fields!Numbers
<1> QED  BY <1>2, <1>3, AsideKeeps

\* The invariant is kept by every step of the registers.
LEMMA MdioKeeps ==
  ASSUME FieldsInv, Fields!MdioNext
  PROVE  FieldsInv' /\ OthersKeep
BY CallKeeps, AccessKeeps, HardwareKeeps DEF Fields!MdioNext

\* And such a step changes fields as promised.
LEMMA MdioChanges ==
  ASSUME FieldsInv, FieldsInv', OthersKeep, Fields!MdioNext
  PROVE  Fields!FieldChange
<1>1. ASSUME todo # <<>>, todo' = <<>>
      PROVE  /\ mac_registers'["MDIO_ADDR1"] = addr1
             /\ who # -1 /\ function.fn # "marvell_phy_cfg" /\ ~disturbed' =>
                  Fields!Settings(phy_registers'[who])
                    = Fields!Promised(function, who, Fields!Settings(before))
  <2>1. ~Fields!Call
    BY <1>1 DEF Fields!Call, Fields!Begin
  <2>2. ~Fields!Hardware
    BY <1>1, ProgressStays DEF Fields!Hardware
  <2>3. Fields!call' = Fields!call
    BY <2>1, <2>2, AccessCalls DEF Fields!MdioNext
  <2> QED  BY <1>1, <2>3, ReturnKeeps
<1>2. ASSUME {0, 1} \cap mac_registers'["COMMAND_CONFIG"] # {}
      PROVE  /\ mac_registers'["MAC_0"] = Fields!BitsOfBytes(SubSeq(Fields!mac_src, 1, 4))
             /\ mac_registers'["MAC_1"] = Fields!BitsOfBytes(SubSeq(Fields!mac_src, 5, 6) \o <<0, 0>>)
             /\ mac_registers'["FRM_LENGTH"] = Fields!Bits(1280 + 54)
             /\ \A r \in {"RX_SECTION_EMPTY", "TX_SECTION_EMPTY"} :
                  mac_registers'[r] = Fields!Bits(128 - 16)
  <2>1. MacIs(mac_registers')
    BY <1>2, OnIsSetUp
  <2>2. PICK m : m = mac_registers'
    OBVIOUS
  <2>3. MacIs(m)
    BY <2>1, <2>2
  <2>4. /\ m["MAC_0"] = Fields!BitsOfBytes(SubSeq(Fields!mac_src, 1, 4))
        /\ m["MAC_1"] = Fields!BitsOfBytes(SubSeq(Fields!mac_src, 5, 6) \o <<0, 0>>)
    BY <2>3, MacSourceIs, ZenonT(60) DEF MacIs
  <2>5. /\ m["FRM_LENGTH"] = Fields!Bits(1280 + 54)
        /\ \A r \in {"RX_SECTION_EMPTY", "TX_SECTION_EMPTY"} : m[r] = Fields!Bits(128 - 16)
    BY <2>3 DEF MacIs
  <2> QED  BY <2>2, <2>4, <2>5
<1>3. {Fields!Cmd.TX_ENA, Fields!Cmd.RX_ENA} = {0, 1}
  BY DEF Fields!Cmd
<1> QED  BY <1>1, <1>2, <1>3 DEF Fields!FieldChange, OthersKeep, Fields!None

\* Whatever the PHYs of the board can do and however its MDIO bus is populated, a
\* function of the TSE driver or of the firmware that changes a field of a register
\* changes that field of that PHY and none of another, puts MDIO_ADDR1 back, and the
\* MAC is on only when tse_init has set its address and lengths
\* (altera_avalon_tse.c:876-921, 1784-1935; hello_world_small.c:156-193).
THEOREM FieldsChangeAtOnce == PartSpec => FieldsAtomic
<1>1. PartInit => FieldsInv
  BY FieldsInit DEF PartInit
<1>2. FieldsInv /\ [PartNext]_<<part, system, systemVars, mdioVars>>
        => FieldsInv' /\ [Fields!FieldChange]_mdioVars
  <2> SUFFICES ASSUME FieldsInv, [PartNext]_<<part, system, systemVars, mdioVars>>
               PROVE  FieldsInv' /\ [Fields!FieldChange]_mdioVars
    OBVIOUS
  <2>1. CASE UNCHANGED mdioVars
    BY <2>1, FieldsStay
  <2>2. CASE Fields!MdioNext
    <3>1. FieldsInv' /\ OthersKeep
      BY <2>2, MdioKeeps
    <3> QED  BY <2>2, <3>1, MdioChanges
  <2>3. UNCHANGED mdioVars \/ Fields!MdioNext
    BY DEF PartNext
  <2> QED  BY <2>1, <2>2, <2>3
<1> QED  BY <1>1, <1>2, PTL DEF PartSpec, FieldsAtomic
=============================================================================
