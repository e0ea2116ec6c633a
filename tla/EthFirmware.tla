------------------------------- MODULE EthFirmware -------------------------------
(***************************************************************************)
(* The program of the Ethernet processor (hello_world_small.c) with the    *)
(* parts of its drivers that run after start-up, the DMA controllers it    *)
(* drives (module Sgdma) and the edge-capturing PIO that asks it to send a *)
(* frame.  One step of the processor is one access to a device register or *)
(* one descriptor; the controllers, the MAC and the PIO step between any   *)
(* two of them.  `pc' names the function or the access that comes next.    *)
(***************************************************************************)
EXTENDS Sgdma

CONSTANT SinkFrames      \* frames that wait in the MAC at most, a bound

ASSUME SinkAssumption == SinkFrames \in Nat

VARIABLES
  pc,
  channel,              \* the controller the driver works on
  interrupted,          \* pc and channel of main while a handler runs
  callback,             \* a callback is registered with the controller
  header,               \* the lengths in the headers of the frame
  mac_enabled,
  irq_mask, edge_capture,                \* the PIO
  pio_registered        \* alt_ic_isr_register has enabled its interrupt

cpuVars == <<pc, channel, interrupted, callback, header, mac_enabled,
             pio_registered>>
pioVars == <<irq_mask, edge_capture>>
vars == <<sgdmaVars, cpuVars, pioVars>>

-----------------------------------------------------------------------------
SizeofIp == 22
SizeofUdp == 8
SizeofPointer == 4
HeaderBytes == 54
DataBytes == 1280

TestFrame == <<[bytes |-> HeaderBytes, sop |-> TRUE, eop |-> FALSE],
               [bytes |-> DataBytes, sop |-> FALSE, eop |-> TRUE]>>

ChainControl == {"IE_DESC_COMPLETED", "IE_GLOBAL"}     \* 0x14

AsyncPcs == {"do_async", "clear_run", "clear_status", "write_pointer", "start"}
MainPcs == {"create_headers", "tse_init", "open_sgdma", "pio_irq_mask",
            "pio_edge_cap", "pio_register", "forever"} \cup AsyncPcs
RxHandlerPcs == {"sgdma_irq", "rx_check", "rx_construct", "rx_memset"}
TxHandlerPcs == {"button_isr", "tx_header", "tx_data", "tx_poll"}
HandlerPcs == RxHandlerPcs \cup TxHandlerPcs \cup AsyncPcs \cup {"leave"}

inHandler == interrupted # <<>>
mainPc == IF inHandler THEN interrupted[1] ELSE pc

-----------------------------------------------------------------------------
(* The drivers.                                                            *)

\* alt_avalon_sgdma_construct_descriptor_burst: `next' is released first.
Construct(d, next, bytes, sop, eop) ==
  descriptor' =
    [descriptor EXCEPT
       ![next].owned = FALSE,
       ![d] = [owned |-> TRUE, status |-> FALSE, next |-> next,
               bytes_to_transfer |-> bytes,
               generate_sop |-> sop, generate_eop |-> eop]]

\* alt_avalon_sgdma_check_descriptor_status
checkDescriptorStatus(d) == ~descriptor[d].status /\ ~descriptor[d].owned

\* The caller of alt_avalon_sgdma_do_async_transfer goes on; none looks at
\* the result.
Return == CASE ~inHandler -> "pio_irq_mask"
            [] inHandler /\ channel = "rx" -> "rx_memset"
            [] inHandler /\ channel = "tx" -> "tx_poll"

Goto(from, to) ==
  /\ pc = from /\ pc' = to
  /\ UNCHANGED <<channel, interrupted, callback, header, mac_enabled,
                 pio_registered, pioVars>>

DoAsync ==
  /\ Goto("do_async", IF busy(channel) THEN Return ELSE "clear_run")
  /\ UNCHANGED sgdmaVars

\* mutant: the run bit stays set
ClearRunForgotten == Goto("clear_run", "clear_status") /\ UNCHANGED sgdmaVars

ClearRun ==
  /\ Goto("clear_run", "clear_status")
  /\ WriteControl(channel, control_reg[channel] \ {"RUN"}, FALSE)

ClearStatusReg ==
  /\ Goto("clear_status", "write_pointer")
  /\ ClearStatus(channel)

WriteNextPointer ==
  /\ Goto("write_pointer", "start")
  /\ WritePointer(channel, IF channel = "rx" THEN "rx_descriptor"
                           ELSE "tx_descriptor_header")

asyncControl(c) ==
  IF callback[c]
  THEN control_reg[c] \cup ChainControl \cup {"RUN", "STOP_DMA_ER"}
  ELSE (control_reg[c] \cup {"RUN", "STOP_DMA_ER"}) \ {"IE_GLOBAL"}

Start ==
  /\ Goto("start", Return)
  /\ WriteControl(channel, asyncControl(channel), FALSE)

DriverStep == DoAsync \/ ClearRun \/ ClearStatusReg \/ WriteNextPointer \/ Start

-----------------------------------------------------------------------------
(* main.                                                                   *)

CreateHeaders ==
  /\ pc = "create_headers" /\ pc' = "tse_init"
  /\ header' = [ip_len |-> SizeofIp + 2 + (DataBytes + SizeofPointer),
                udp_len |-> SizeofUdp + DataBytes]
  /\ UNCHANGED <<sgdmaVars, channel, interrupted, callback, mac_enabled,
                 pio_registered, pioVars>>

\* The last write of tse_init enables the MAC both ways.
TseInit ==
  /\ pc = "tse_init" /\ pc' = "open_sgdma"
  /\ mac_enabled' = TRUE
  /\ UNCHANGED <<sgdmaVars, channel, interrupted, callback, header,
                 pio_registered, pioVars>>

\* Both controllers are there: their drivers registered them before main.
OpenSgdma ==
  /\ pc = "open_sgdma" /\ pc' = "do_async"
  /\ channel' = "rx"
  /\ callback' = [callback EXCEPT !["rx"] = TRUE]
  /\ Construct("rx_descriptor", "rx_descriptor_end", 0, FALSE, FALSE)
  /\ UNCHANGED <<csrVars, chainVars, streamVars, interrupted, header,
                 mac_enabled, pio_registered, pioVars>>

PioIrqMask ==
  /\ pc = "pio_irq_mask" /\ pc' = "pio_edge_cap"
  /\ irq_mask' = TRUE
  /\ UNCHANGED <<sgdmaVars, channel, interrupted, callback, header,
                 mac_enabled, pio_registered, edge_capture>>

PioEdgeCap ==
  /\ pc = "pio_edge_cap" /\ pc' = "pio_register"
  /\ edge_capture' = FALSE
  /\ UNCHANGED <<sgdmaVars, channel, interrupted, callback, header,
                 mac_enabled, pio_registered, irq_mask>>

PioRegister ==
  /\ pc = "pio_register" /\ pc' = "forever"
  /\ pio_registered' = TRUE
  /\ UNCHANGED <<sgdmaVars, channel, interrupted, callback, header,
                 mac_enabled, pioVars>>

MainStep == \/ CreateHeaders \/ TseInit \/ OpenSgdma
            \/ PioIrqMask \/ PioEdgeCap \/ PioRegister

-----------------------------------------------------------------------------
(* Interrupts.                                                             *)

pioPending == pio_registered /\ irq_mask /\ edge_capture

pending == csr_irq["rx"] \/ csr_irq["tx"] \/ pioPending

\* alt_irq_handler calls the handler of the lowest interrupt that is pending.
Dispatch ==
  /\ pending
  /\ pc' = IF csr_irq["rx"] \/ csr_irq["tx"] THEN "sgdma_irq" ELSE "button_isr"
  /\ channel' = IF csr_irq["rx"] THEN "rx" ELSE "tx"
  /\ UNCHANGED <<sgdmaVars, callback, header, mac_enabled, pio_registered,
                 pioVars>>

\* No interrupt is taken while a handler runs.
Interrupt ==
  /\ ~inHandler
  /\ interrupted' = <<pc, channel>>
  /\ Dispatch

\* The list of pending interrupts is read again after each handler.
NextHandler == pc = "leave" /\ UNCHANGED interrupted /\ Dispatch

Leave ==
  /\ pc = "leave" /\ ~pending
  /\ pc' = interrupted[1] /\ channel' = interrupted[2]
  /\ interrupted' = <<>>
  /\ UNCHANGED <<sgdmaVars, callback, header, mac_enabled, pio_registered,
                 pioVars>>

\* mutant: the request of the controller is not cleared
SgdmaIrqKept ==
  /\ Goto("sgdma_irq", IF callback[channel] THEN "rx_check" ELSE "leave")
  /\ WriteControl(channel, control_reg[channel], FALSE)

\* alt_avalon_sgdma_irq
SgdmaIrq ==
  /\ Goto("sgdma_irq", IF callback[channel] THEN "rx_check" ELSE "leave")
  /\ WriteControl(channel, control_reg[channel], TRUE)

\* sgdma_rx_irq_handler
RxCheck ==
  /\ Goto("rx_check", "rx_construct")
  /\ checkDescriptorStatus("rx_descriptor")
  /\ UNCHANGED sgdmaVars

RxConstruct ==
  /\ Goto("rx_construct", "do_async")
  /\ Construct("rx_descriptor", "rx_descriptor_end", 0, FALSE, FALSE)
  /\ UNCHANGED <<csrVars, chainVars, streamVars>>

RxMemset ==
  /\ Goto("rx_memset", "leave")
  /\ memory' = [memory EXCEPT !["header_ram"] = "zero"]
  /\ UNCHANGED <<descriptor, csrVars, chainVars, sink_stream, source_stream, sent>>

\* button_isr; it is the input "test data ready" that asks for a frame.
ButtonIsr ==
  /\ pc = "button_isr" /\ pc' = "tx_header"
  /\ edge_capture' = FALSE
  /\ sent' = <<>>                       \* history
  /\ UNCHANGED <<descriptor, csrVars, chainVars, sink_stream, source_stream,
                 memory, channel, interrupted, callback, header, mac_enabled,
                 pio_registered, irq_mask>>

\* mutant: the header's descriptor points to the end of the chain
TxHeaderToEnd ==
  /\ Goto("tx_header", "tx_data")
  /\ Construct("tx_descriptor_header", "tx_descriptor_end", HeaderBytes, TRUE, FALSE)
  /\ UNCHANGED <<csrVars, chainVars, streamVars>>

TxHeader ==
  /\ Goto("tx_header", "tx_data")
  /\ Construct("tx_descriptor_header", "tx_descriptor_data", HeaderBytes, TRUE, FALSE)
  /\ UNCHANGED <<csrVars, chainVars, streamVars>>

TxData ==
  /\ Goto("tx_data", "do_async")
  /\ Construct("tx_descriptor_data", "tx_descriptor_end", DataBytes, FALSE, TRUE)
  /\ UNCHANGED <<csrVars, chainVars, streamVars>>

\* mutant: waits for the header only
TxPollHeader ==
  /\ Goto("tx_poll", "leave")
  /\ checkDescriptorStatus("tx_descriptor_header")
  /\ UNCHANGED sgdmaVars

TxPoll ==
  /\ Goto("tx_poll", "leave")
  /\ checkDescriptorStatus("tx_descriptor_data")
  /\ UNCHANGED sgdmaVars

HandlerStep == \/ NextHandler \/ Leave \/ SgdmaIrq
               \/ RxCheck \/ RxConstruct \/ RxMemset
               \/ ButtonIsr \/ TxHeader \/ TxData \/ TxPoll

Cpu == DriverStep \/ MainStep \/ Interrupt \/ HandlerStep

-----------------------------------------------------------------------------
(* The world.                                                              *)

\* The MAC receives a frame; one that finds its FIFO full is lost.
FrameArrives ==
  /\ mac_enabled /\ Len(sink_stream) < SinkFrames
  /\ \E kind \in FrameKinds : sink_stream' = Append(sink_stream, kind)
  /\ UNCHANGED <<descriptor, csrVars, chainVars, source_stream, sent, memory,
                 cpuVars, pioVars>>

Edge ==
  /\ edge_capture' = TRUE
  /\ UNCHANGED <<sgdmaVars, cpuVars, irq_mask>>

Dma(c) == Engine(c) /\ UNCHANGED <<cpuVars, pioVars>>

-----------------------------------------------------------------------------
Init ==
  /\ SgdmaInit
  /\ pc = "create_headers" /\ channel = "rx" /\ interrupted = <<>>
  /\ callback = [c \in Controllers |-> FALSE]
  /\ header = [ip_len |-> 0, udp_len |-> 0]
  /\ mac_enabled = FALSE
  /\ irq_mask = FALSE /\ edge_capture = FALSE /\ pio_registered = FALSE

Next == Cpu \/ (\E c \in Controllers : Dma(c)) \/ FrameArrives \/ Edge

\* The processor and the controllers are clocked; nothing promises a frame
\* or an edge.
Fairness == WF_vars(Cpu) /\ \A c \in Controllers : WF_vars(Dma(c))

Spec == Init /\ [][Next]_vars /\ Fairness

-----------------------------------------------------------------------------
(* The inductive invariant.                                                *)

Descriptor == [owned : BOOLEAN, status : BOOLEAN, next : Descriptors \cup {None},
               bytes_to_transfer : {0, HeaderBytes, DataBytes},
               generate_sop : BOOLEAN, generate_eop : BOOLEAN]

CsrTypeOK ==
  /\ control_reg \in [Controllers -> SUBSET ControlBits]
  /\ error \in [Controllers -> BOOLEAN]
  /\ chain_completed_int \in [Controllers -> BOOLEAN]
  /\ csr_irq \in [Controllers -> BOOLEAN]
  /\ descriptor_pointer \in [Controllers -> Descriptors \cup {None}]

ChainTypeOK ==
  /\ descriptor \in [Descriptors -> Descriptor]
  /\ owned_by_hw \in [Controllers -> BOOLEAN]
  /\ next_desc \in [Controllers -> Descriptors \cup {None}]
  /\ desc_address_fifo \in [Controllers -> Seq(Descriptors)]
  /\ status_token_fifo \in [Controllers -> Seq(BOOLEAN)]

StreamTypeOK ==
  /\ sink_stream \in Seq(FrameKinds) /\ Len(sink_stream) <= SinkFrames
  /\ memory \in [{"header_ram", "rx_buf_ram"} -> {"unset", "frame", "zero"}]

CpuTypeOK ==
  /\ pc \in MainPcs \cup HandlerPcs /\ channel \in Controllers
  /\ callback \in [Controllers -> BOOLEAN]
  /\ header \in [ip_len : Nat, udp_len : Nat]
  /\ mac_enabled \in BOOLEAN /\ pio_registered \in BOOLEAN
  /\ irq_mask \in BOOLEAN /\ edge_capture \in BOOLEAN

TypeOK == CsrTypeOK /\ ChainTypeOK /\ StreamTypeOK /\ CpuTypeOK

\* Handlers interrupt main after it has started the receiver, and each runs for
\* the controller it is the handler of.
OpeningPcs == {"create_headers", "tse_init", "open_sgdma"} \cup AsyncPcs
PioPcs == {"pio_irq_mask", "pio_edge_cap", "pio_register", "forever"}
ContextInv ==
  /\ IF inHandler
     THEN pc \in HandlerPcs /\ \E p \in PioPcs : interrupted = <<p, "rx">>
     ELSE pc \in OpeningPcs \cup PioPcs /\ channel = "rx" /\ interrupted = <<>>
  /\ pc \in RxHandlerPcs => channel = "rx"
  /\ pc \in TxHandlerPcs => channel = "tx"
  /\ inHandler /\ channel = "tx" => mainPc = "forever"
  /\ pio_registered <=> mainPc = "forever"
  /\ callback["rx"] <=> mainPc \notin OpeningPcs \ AsyncPcs
  /\ ~callback["tx"]

\* Without a callback the transmitter never interrupts; nor does it ever fail.
TxSilent ==
  ~csr_irq["tx"] /\ ~error["tx"] /\ "IE_GLOBAL" \notin control_reg["tx"]

\* What alt_avalon_sgdma_do_async_transfer has done so far.
AsyncInv ==
  /\ pc \in {"clear_status", "write_pointer", "start"} =>
       "RUN" \notin control_reg[channel] /\ ~chain_completed_int[channel]
  /\ pc = "start" =>
       descriptor_pointer[channel] =
         IF channel = "rx" THEN "rx_descriptor" ELSE "tx_descriptor_header"

Rest(c) == /\ ~owned_by_hw[c] /\ ~run(c)
           /\ desc_address_fifo[c] = <<>> /\ status_token_fifo[c] = <<>>

RxReady == /\ descriptor["rx_descriptor"].owned
           /\ ~descriptor["rx_descriptor"].status
           /\ descriptor["rx_descriptor"].next = "rx_descriptor_end"
           /\ ~descriptor["rx_descriptor_end"].owned

\* The receiver works on its one descriptor: loaded, fetched, the end of the
\* chain seen, the frame moved.
RxRunning ==
  /\ run("rx") /\ ~csr_irq["rx"] /\ ~error["rx"] /\ RxReady
  /\ ChainControl \subseteq control_reg["rx"]
  /\ "STOP_DMA_ER" \in control_reg["rx"]
  /\ \/ /\ owned_by_hw["rx"] /\ next_desc["rx"] = "rx_descriptor"
        /\ desc_address_fifo["rx"] = <<>> /\ status_token_fifo["rx"] = <<>>
     \/ /\ owned_by_hw["rx"] /\ next_desc["rx"] = "rx_descriptor_end"
        /\ desc_address_fifo["rx"] = <<"rx_descriptor">>
        /\ status_token_fifo["rx"] = <<>>
     \/ /\ ~owned_by_hw["rx"] /\ desc_address_fifo["rx"] = <<"rx_descriptor">>
        /\ status_token_fifo["rx"] \in {<<>>, <<FALSE>>}

\* An error has stopped it, and nothing will start it again.
RxStopped ==
  /\ error["rx"] /\ ~run("rx") /\ ~csr_irq["rx"] /\ ~owned_by_hw["rx"]
  /\ \/ /\ desc_address_fifo["rx"] = <<"rx_descriptor">>
        /\ status_token_fifo["rx"] = <<TRUE>>
     \/ desc_address_fifo["rx"] = <<>> /\ status_token_fifo["rx"] = <<>>

\* It has received a frame, and its interrupt waits.
RxDone == csr_irq["rx"] /\ ~error["rx"] /\ Rest("rx")
            /\ checkDescriptorStatus("rx_descriptor")

\* Main has not started it yet, or the handler is about to start it again.
rxOpening == mainPc \in OpeningPcs
rxHandled == inHandler /\ channel = "rx"
               /\ pc \in {"rx_check", "rx_construct"} \cup AsyncPcs

RxInv ==
  /\ pc = "sgdma_irq" => csr_irq["rx"]
  /\ channel = "rx" /\ pc \in AsyncPcs => RxReady
  /\ pc = "rx_check" => checkDescriptorStatus("rx_descriptor")
  /\ IF rxOpening \/ rxHandled THEN Rest("rx") /\ ~csr_irq["rx"] /\ ~error["rx"]
     ELSE RxRunning \/ RxStopped \/ RxDone

TxHeaderReady ==
  descriptor["tx_descriptor_header"] =
    [owned |-> TRUE, status |-> FALSE, next |-> "tx_descriptor_data",
     bytes_to_transfer |-> HeaderBytes, generate_sop |-> TRUE, generate_eop |-> FALSE]
TxDataReady ==
  descriptor["tx_descriptor_data"] =
    [owned |-> TRUE, status |-> FALSE, next |-> "tx_descriptor_end",
     bytes_to_transfer |-> DataBytes, generate_sop |-> FALSE, generate_eop |-> TRUE]

HeaderPiece == TestFrame[1]

\* The transmitter at work on a chain, from its start to its end.
TxStage(owned, next, addresses, tokens) ==
  /\ owned_by_hw["tx"] = owned /\ next_desc["tx"] = next
  /\ desc_address_fifo["tx"] = addresses /\ status_token_fifo["tx"] = tokens

TxUnsent ==
  /\ TxHeaderReady /\ source_stream = <<>>
  /\ \/ TxStage(TRUE, "tx_descriptor_header", <<>>, <<>>)
     \/ TxStage(TRUE, "tx_descriptor_data", <<"tx_descriptor_header">>, <<>>)
     \/ TxStage(TRUE, "tx_descriptor_end",
                <<"tx_descriptor_header", "tx_descriptor_data">>, <<>>)

TxHeaderSent ==
  /\ source_stream = <<HeaderPiece>>
  /\ \/ TxStage(TRUE, "tx_descriptor_end",
                <<"tx_descriptor_header", "tx_descriptor_data">>, <<FALSE>>)
     \/ TxStage(TRUE, "tx_descriptor_end", <<"tx_descriptor_data">>, <<>>)
     \/ TxStage(FALSE, descriptor["tx_descriptor_end"].next,
                <<"tx_descriptor_data">>, <<>>)

TxDataSent ==
  /\ source_stream = <<>>
  /\ TxStage(FALSE, descriptor["tx_descriptor_end"].next,
             <<"tx_descriptor_data">>, <<FALSE>>)

TxRunning ==
  /\ run("tx") /\ TxDataReady /\ ~descriptor["tx_descriptor_end"].owned
  /\ \/ sent = <<>> /\ (TxUnsent \/ TxHeaderSent)
     \/ sent = TestFrame /\ TxDataSent

TxOver == Rest("tx") /\ source_stream = <<>>

TxInv ==
  /\ pc \in {"tx_header", "tx_data"} \/ (pc \in AsyncPcs /\ channel = "tx") =>
       sent = <<>>
  /\ sent \in {<<>>, TestFrame}
  /\ pc = "tx_data" \/ (pc \in AsyncPcs /\ channel = "tx") => TxHeaderReady
  /\ pc \in AsyncPcs /\ channel = "tx" =>
       TxDataReady /\ ~descriptor["tx_descriptor_end"].owned
  /\ IF pc = "tx_poll"
     THEN TxRunning \/ (TxOver /\ sent = TestFrame)
     ELSE TxOver

EthInv == TypeOK /\ ContextInv /\ TxSilent /\ AsyncInv /\ RxInv /\ TxInv

-----------------------------------------------------------------------------
(* What the sender of requests is promised: PacketService.                 *)

\* pio_init is over as far as the edge capture is concerned.
armed == mainPc \in {"pio_register", "forever"}

Packets == INSTANCE PacketService WITH
  requested <- edge_capture /\ armed,
  sending <- pc \in TxHandlerPcs \ {"button_isr"}
               \/ (inHandler /\ pc \in AsyncPcs /\ channel = "tx"),
  delivered <- sent = TestFrame

\* From the clearing of the edge on, one whole frame is sent before the handler
\* of the PIO's interrupt returns, header and data in one packet
\* (hello_world_small.c:199-213).
SendsOnRequest == Packets!Spec

\* A request is answered by a frame that starts after it, once the frames that
\* arrive leave the processor the time (hello_world_small.c:199-213).
RequestsAnswered == <>[][~FrameArrives]_vars => Packets!Answered

-----------------------------------------------------------------------------
(* Properties.                                                             *)

\* The driver never refuses a chain because the controller is busy, so no
\* caller misses the -EBUSY it ignores (altera_avalon_sgdma.c:90-94), and no
\* descriptor changes under a controller that may fetch it.
EngineAtRest ==
  /\ pc = "do_async" => ~busy(channel)
  /\ pc \in {"open_sgdma", "rx_construct"} => ~busy("rx") /\ ~run("rx")
  /\ pc \in {"tx_header", "tx_data"} => ~busy("tx") /\ ~run("tx")

\* The receiver never stops for good without an error: it runs, or its
\* interrupt waits, or the handler of its interrupt is on its way to start it
\* again (hello_world_small.c:235-246).
ReceiverServed ==
  \/ rxOpening
  \/ run("rx") \/ csr_irq["rx"] \/ rxHandled \/ error["rx"]

\* Each frame has an interrupt of its own: no descriptor is written back while
\* the interrupt of an earlier one waits (altera_avalon_sgdma.c:733-741).
OwnInterrupt ==
  [][csr_irq["rx"] => desc_address_fifo'["rx"] = desc_address_fifo["rx"]]_vars

\* No frame waits in the MAC for ever, unless a bad one has been before it:
\* again and again there is none, or one is taken (hello_world_small.c:229-245).
FramesTaken == \/ []<>(sink_stream = <<>> \/ error["rx"])
               \/ []<><<sink_stream # <<>> /\ sink_stream' = Tail(sink_stream)>>_vars

\* Requests and frames share one processor that takes no interrupt while it
\* polls the transmitter, and neither is left waiting for ever.
BothServed == RequestsAnswered /\ FramesTaken
=============================================================================
