---------------------------------- MODULE Sgdma ----------------------------------
(***************************************************************************)
(* The two scatter-gather DMA controllers of the Ethernet system, as the   *)
(* processor sees them: control and status registers, the chain of         *)
(* descriptors in memory, and the streams from and to the MAC.             *)
(* eth_nios_v2_rx_dma.v and eth_nios_v2_tx_dma.v are two instances of one  *)
(* design that differ in the end that moves the data; the names are those  *)
(* of the registers, with one entry for each controller.                   *)
(*                                                                         *)
(* A descriptor is fetched, moved and written back in one step each.  What *)
(* takes the controller a few clocks and the processor a bus access at     *)
(* least is done with the step that causes it: `run' rising starts a       *)
(* chain, the last write-back ends it.                                     *)
(***************************************************************************)
EXTENDS Naturals, Sequences

RxChain == {"rx_descriptor", "rx_descriptor_end"}
TxChain == {"tx_descriptor_header", "tx_descriptor_data", "tx_descriptor_end"}
Descriptors == RxChain \cup TxChain
Controllers == {"rx", "tx"}

None == "none"
FifoWords == 2        \* words in command_fifo and desc_address_fifo
FrameKinds == {"good", "bad"}     \* bad: the MAC flags an error at its end
ControlBits == {"IE_DESC_COMPLETED", "IE_GLOBAL", "RUN", "STOP_DMA_ER"}

VARIABLES
  descriptor,           \* the descriptors in memory
  control_reg, error, chain_completed_int, csr_irq,
  descriptor_pointer,
  owned_by_hw, next_desc,        \* the descriptor fetched last
  desc_address_fifo,             \* fetched and not written back
  status_token_fifo,             \* moved and not written back
  sink_stream,                   \* frames the MAC has for rx
  source_stream,                 \* pieces of the frame tx is sending
  sent,                          \* the frame sent since the last request
  memory                         \* what the last write left in a RAM

csrVars == <<control_reg, error, chain_completed_int, csr_irq, descriptor_pointer>>
chainVars == <<owned_by_hw, next_desc, desc_address_fifo, status_token_fifo>>
streamVars == <<sink_stream, source_stream, sent, memory>>
sgdmaVars == <<descriptor, csrVars, chainVars, streamVars>>

-----------------------------------------------------------------------------
run(c) == /\ "RUN" \in control_reg[c]
          /\ ~("STOP_DMA_ER" \in control_reg[c] /\ error[c])
          /\ ~chain_completed_int[c]

busy(c) == owned_by_hw[c] \/ desc_address_fifo[c] # <<>>

canFetch(c) ==
  run(c) /\ owned_by_hw[c] /\ Len(desc_address_fifo[c]) < FifoWords

\* A rising edge of run loads a descriptor that is owned and points to the
\* first of the chain.
RunEdge(c) ==
  LET rises == ~run(c) /\ run(c)'
  IN  /\ owned_by_hw' = [owned_by_hw EXCEPT ![c] = rises \/ @]
      /\ next_desc' =
           [next_desc EXCEPT ![c] = IF rises THEN descriptor_pointer[c] ELSE @]
      /\ UNCHANGED <<desc_address_fifo, status_token_fifo>>

\* The processor writes the control register; bit 31 clears the interrupt.
WriteControl(c, bits, clearInterrupt) ==
  /\ control_reg' = [control_reg EXCEPT ![c] = bits]
  /\ chain_completed_int' =
       [chain_completed_int EXCEPT ![c] = @ /\ "RUN" \in bits]
  /\ csr_irq' = [csr_irq EXCEPT ![c] = @ /\ ~clearInterrupt]
  /\ UNCHANGED <<descriptor, error, descriptor_pointer, streamVars>>
  /\ RunEdge(c)

\* The processor writes ones to the status register.
ClearStatus(c) ==
  /\ error' = [error EXCEPT ![c] = FALSE]
  /\ UNCHANGED <<descriptor, control_reg, chain_completed_int, csr_irq,
                 descriptor_pointer, streamVars>>
  /\ RunEdge(c)

WritePointer(c, d) ==
  /\ descriptor_pointer' = [descriptor_pointer EXCEPT ![c] = d]
  /\ UNCHANGED <<descriptor, control_reg, error, chain_completed_int, csr_irq,
                 chainVars, streamVars>>

-----------------------------------------------------------------------------
(* The controller's own steps.                                             *)

\* A running chain whose next descriptor is not owned by the hardware is
\* complete when all is written back.
CompleteChain(c) ==
  chain_completed_int' =
    [chain_completed_int EXCEPT ![c] = @ \/ (run(c) /\ ~busy(c)')]

Fetch(c) ==
  /\ canFetch(c)
  /\ LET d == next_desc[c]
     IN  /\ owned_by_hw' = [owned_by_hw EXCEPT ![c] = descriptor[d].owned]
         /\ next_desc' = [next_desc EXCEPT ![c] = descriptor[d].next]
         /\ desc_address_fifo' =
              [desc_address_fifo EXCEPT
                 ![c] = IF descriptor[d].owned THEN Append(@, d) ELSE @]
  /\ CompleteChain(c)
  /\ UNCHANGED <<descriptor, control_reg, error, csr_irq, descriptor_pointer,
                 status_token_fifo, streamVars>>

\* To move the bytes of a descriptor takes longer than to fetch the next one
\* and to write the last one back.
canMove(c) ==
  ~canFetch(c) /\ status_token_fifo[c] = <<>> /\ desc_address_fifo[c] # <<>>

moving(c) == Head(desc_address_fifo[c])

\* The receiver moves a frame up to its end; its only slave is rx_buf_ram,
\* whatever address the descriptor gives.
Receive ==
  /\ canMove("rx") /\ sink_stream # <<>>
  /\ LET bad == Head(sink_stream) = "bad"
     IN  /\ status_token_fifo' =
              [status_token_fifo EXCEPT !["rx"] = Append(@, bad)]
         /\ error' = [error EXCEPT !["rx"] = @ \/ bad]
  /\ sink_stream' = Tail(sink_stream)
  /\ memory' = [memory EXCEPT !["rx_buf_ram"] = "frame"]
  /\ UNCHANGED <<descriptor, control_reg, chain_completed_int, csr_irq,
                 descriptor_pointer, owned_by_hw, next_desc,
                 desc_address_fifo, source_stream, sent>>

\* The transmitter moves the bytes of one descriptor, with the marks its
\* control bits ask for.
Transmit ==
  /\ canMove("tx")
  /\ LET d == moving("tx")
         piece == [bytes |-> descriptor[d].bytes_to_transfer,
                   sop |-> descriptor[d].generate_sop,
                   eop |-> descriptor[d].generate_eop]
         frame == Append(source_stream, piece)
     IN  IF piece.eop THEN source_stream' = <<>> /\ sent' = frame
         ELSE source_stream' = frame /\ UNCHANGED sent
  /\ status_token_fifo' = [status_token_fifo EXCEPT !["tx"] = Append(@, FALSE)]
  /\ UNCHANGED <<descriptor, csrVars, owned_by_hw, next_desc,
                 desc_address_fifo, sink_stream, memory>>

\* Status and control go back to the descriptor; the interrupt follows if the
\* controller still runs then.
WriteBack(c) ==
  /\ status_token_fifo[c] # <<>>
  /\ LET d == Head(desc_address_fifo[c])
     IN  descriptor' = [descriptor EXCEPT ![d].owned = FALSE,
                                         ![d].status = Head(status_token_fifo[c])]
  /\ desc_address_fifo' = [desc_address_fifo EXCEPT ![c] = Tail(@)]
  /\ status_token_fifo' = [status_token_fifo EXCEPT ![c] = Tail(@)]
  /\ csr_irq' = [csr_irq EXCEPT
                   ![c] = @ \/ (run(c) /\ {"IE_GLOBAL", "IE_DESC_COMPLETED"}
                                              \subseteq control_reg[c])]
  /\ UNCHANGED <<control_reg, error, descriptor_pointer, owned_by_hw, next_desc,
                 streamVars>>
  /\ CompleteChain(c)

Engine(c) == \/ Fetch(c) \/ WriteBack(c)
             \/ c = "rx" /\ Receive
             \/ c = "tx" /\ Transmit

-----------------------------------------------------------------------------
\* After alt_avalon_sgdma_init: reset, halted, no interrupt enabled; the
\* descriptors are zeroed variables.
SgdmaInit ==
  /\ descriptor = [d \in Descriptors |->
       [owned |-> FALSE, status |-> FALSE, next |-> None,
        bytes_to_transfer |-> 0, generate_sop |-> FALSE, generate_eop |-> FALSE]]
  /\ control_reg = [c \in Controllers |-> {}]
  /\ error = [c \in Controllers |-> FALSE]
  /\ chain_completed_int = [c \in Controllers |-> FALSE]
  /\ csr_irq = [c \in Controllers |-> FALSE]
  /\ descriptor_pointer = [c \in Controllers |-> None]
  /\ owned_by_hw = [c \in Controllers |-> FALSE]
  /\ next_desc = [c \in Controllers |-> None]
  /\ desc_address_fifo = [c \in Controllers |-> <<>>]
  /\ status_token_fifo = [c \in Controllers |-> <<>>]
  /\ sink_stream = <<>> /\ source_stream = <<>> /\ sent = <<>>
  /\ memory = [r \in {"header_ram", "rx_buf_ram"} |-> "unset"]
=============================================================================
