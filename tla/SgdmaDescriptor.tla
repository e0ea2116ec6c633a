----------------------------- MODULE SgdmaDescriptor -----------------------------
(***************************************************************************)
(* A descriptor of the scatter-gather DMA controller: what the driver      *)
(* stores for the arguments of its constructors, what the controller reads *)
(* from the same 32 bytes, the word it writes back, and                    *)
(* alt_avalon_sgdma_check_descriptor_status, which reads two bytes of that *)
(* word one after the other.                                               *)
(***************************************************************************)
EXTENDS Naturals, Sequences

CONSTANTS
  ReadAddresses, WriteAddresses,    \* of 32 bits
  Lengths, Channels,                \* of 16 and of 8 bits
  NextAddress                       \* where the next descriptor is

VARIABLES
  memory,       \* the bytes of the descriptor
  nextMemory,   \* and of the next one
  request,      \* the last arguments
  stage,        \* "free", "released", "made", "fetched" or "done"
  command,      \* what the controller has read
  token,        \* the status and the count it has written back
  check         \* check_descriptor_status: place, result

vars == <<memory, nextMemory, request, stage, command, token, check>>

Bytes == 0..255
bit(n) == 2^n
Word(n) == n \in Nat /\ n \div 256^3 \in Bytes
HalfWord(n) == n \in Nat /\ n \div 256 \in Bytes

WidthsAssumption ==
  /\ \A a \in ReadAddresses \cup WriteAddresses \cup {NextAddress} : Word(a)
  /\ \A n \in Lengths : HalfWord(n)
  /\ Channels \subseteq Bytes

has(byte, n) == (byte \div bit(n)) % 2 = 1
flag(condition, n) == IF condition THEN bit(n) ELSE 0

-----------------------------------------------------------------------------
(* The structure: fields without gaps, least significant byte first.       *)

Fields == <<"read_addr", "read_addr_pad", "write_addr", "write_addr_pad",
            "next", "next_pad", "bytes_to_transfer", "read_burst", "write_burst",
            "actual_bytes_transferred", "status", "control">>

sizeof == [f \in {Fields[i] : i \in DOMAIN Fields} |->
             IF f \in {"bytes_to_transfer", "actual_bytes_transferred"} THEN 2
             ELSE IF f \in {"read_burst", "write_burst", "status", "control"} THEN 1
             ELSE 4]

offset[i \in DOMAIN Fields] ==
  IF i = 1 THEN 0 ELSE offset[i - 1] + sizeof[Fields[i - 1]]

offsetof(f) == offset[CHOOSE i \in DOMAIN Fields : Fields[i] = f]
Offsets == 0..31

byte(value, k) == (value \div 256^k) % 256

Struct(values) ==
  [k \in Offsets |->
     LET i == CHOOSE j \in DOMAIN Fields :
                k \in offset[j]..(offset[j] + sizeof[Fields[j]] - 1)
     IN  byte(values[Fields[i]], k - offset[i])]

-----------------------------------------------------------------------------
(* The constructors.                                                       *)

mem_to_mem(read, write, len, fixedRead, fixedWrite) ==
  [read_addr |-> read, write_addr |-> write, length |-> len, generate_eop |-> FALSE,
   read_fixed |-> fixedRead, write_fixed_or_sop |-> fixedWrite, channel |-> 0]

stream_to_mem(write, len, fixedWrite) ==
  mem_to_mem(0, write, len, FALSE, fixedWrite)

mem_to_stream(read, len, fixedRead, sop, eop, atlantic_channel) ==
  [read_addr |-> read, write_addr |-> 0, length |-> len, generate_eop |-> eop,
   read_fixed |-> fixedRead, write_fixed_or_sop |-> sop, channel |-> atlantic_channel]

NoRequest == stream_to_mem(0, 0, FALSE)

Requests ==
  {mem_to_mem(r, w, n, f, g) : r \in ReadAddresses, w \in WriteAddresses,
                               n \in Lengths, f \in BOOLEAN, g \in BOOLEAN}
  \cup {stream_to_mem(w, n, f) : w \in WriteAddresses, n \in Lengths, f \in BOOLEAN}
  \cup {mem_to_stream(r, n, f, sop, eop, c) :
          r \in ReadAddresses, n \in Lengths, f \in BOOLEAN, sop \in BOOLEAN,
          eop \in BOOLEAN, c \in Channels}

\* mutant: the channel is masked to three bits
controlByteThreeBits(r) ==
  bit(7) + flag(r.generate_eop, 0) + flag(r.read_fixed, 1)
         + flag(r.write_fixed_or_sop, 2) + (r.channel % 8) * bit(3)

controlByte(r) ==
  bit(7) + flag(r.generate_eop, 0) + flag(r.read_fixed, 1)
         + flag(r.write_fixed_or_sop, 2) + (r.channel % 16) * bit(3)

clearedStatus == 0

Constructed(r) ==
  Struct([read_addr |-> r.read_addr, read_addr_pad |-> 0,
          write_addr |-> r.write_addr, write_addr_pad |-> 0,
          next |-> NextAddress, next_pad |-> 0,
          bytes_to_transfer |-> r.length, read_burst |-> 0, write_burst |-> 0,
          actual_bytes_transferred |-> 0, status |-> clearedStatus,
          control |-> controlByte(r)])

released(m) == [m EXCEPT ![offsetof("control")] = @ % bit(7)]

Release ==
  /\ stage \in {"free", "done"} /\ check.at = "none"
  /\ request' \in Requests
  /\ nextMemory' = released(nextMemory)
  /\ stage' = "released"
  /\ UNCHANGED <<memory, command, token, check>>

construct_descriptor_burst ==
  /\ stage = "released"
  /\ memory' = Constructed(request)
  /\ stage' = "made"
  /\ UNCHANGED <<nextMemory, request, command, token, check>>

-----------------------------------------------------------------------------
(* The controller.  desc_reg[0] is the lowest bit of the first byte.       *)

Number(from, n) ==
  LET sum[k \in 0..n] == IF k = 0 THEN 0 ELSE sum[k - 1] + memory[from + k - 1] * 256^(k - 1)
  IN  sum[n]

NoCommand == [read_address |-> 0, write_address |-> 0, next_desc |-> 0,
              bytes_to_transfer |-> 0, control |-> 0]

Decoded ==
  [read_address |-> Number(0, 4), write_address |-> Number(8, 4),
   next_desc |-> Number(16, 4), bytes_to_transfer |-> Number(24, 2),
   control |-> memory[31]]

Fetch ==
  /\ stage = "made" /\ has(memory[31], 7)
  /\ command' = Decoded
  /\ stage' = "fetched"
  /\ UNCHANGED <<memory, nextMemory, request, token, check>>

\* The status is that of the stream; bit 7 is the end of the packet.
Tokens == {[status |-> s, actual |-> n] : s \in {0, bit(0), bit(7), bit(0) + bit(7)},
                                          n \in {1, 257}}

WriteBack ==
  /\ stage = "fetched"
  /\ token' \in Tokens
  /\ memory' = [memory EXCEPT ![28] = byte(token'.actual, 0),
                              ![29] = byte(token'.actual, 1),
                              ![30] = token'.status,
                              ![31] = command.control % bit(7)]
  /\ stage' = "done"
  /\ UNCHANGED <<nextMemory, request, command, check>>

-----------------------------------------------------------------------------
(* check_descriptor_status.                                                *)

NoError == 0
EIO == 5
EINPROGRESS == 119

errorBits(status) == \E n \in 0..6 : has(status, n)

ReadStatus ==
  /\ stage \in {"made", "fetched", "done"} /\ check.at = "none"
  /\ check' = IF errorBits(memory[offsetof("status")])
              THEN [at |-> "returned", result |-> EIO]
              ELSE [at |-> "control", result |-> NoError]
  /\ UNCHANGED <<memory, nextMemory, request, stage, command, token>>

ownedByHw(control) == has(control, 7)

ReadControl ==
  /\ check.at = "control"
  /\ check' = [at |-> "returned",
               result |-> IF ownedByHw(memory[offsetof("control")])
                          THEN EINPROGRESS ELSE NoError]
  /\ UNCHANGED <<memory, nextMemory, request, stage, command, token>>

Return ==
  /\ check.at = "returned"
  /\ check' = [at |-> "none", result |-> NoError]
  /\ UNCHANGED <<memory, nextMemory, request, stage, command, token>>

Init ==
  /\ memory = [k \in Offsets |-> 0]
  /\ nextMemory \in {[k \in Offsets |-> 0],
                     [k \in Offsets |-> IF k \in 28..31 THEN 129 ELSE 0]}
  /\ request = NoRequest
  /\ stage = "free" /\ command = NoCommand
  /\ token = [status |-> 0, actual |-> 0]
  /\ check = [at |-> "none", result |-> NoError]

Next == \/ Release \/ construct_descriptor_burst \/ Fetch \/ WriteBack
        \/ ReadStatus \/ ReadControl \/ Return

Spec == Init /\ [][Next]_vars

-----------------------------------------------------------------------------
(* Properties.                                                             *)

TypeOK ==
  /\ {memory, nextMemory} \subseteq [Offsets -> Bytes]
  /\ HalfWord(request.length) /\ request.channel \in Bytes
  /\ stage \in {"free", "released", "made", "fetched", "done"}
  /\ check.at \in {"none", "control", "returned"}
  /\ command.control \in Bytes
  /\ token.status \in Bytes

channelField(control) == (control \div bit(3)) % 16

\* A channel that the field's four bits can hold reaches the controller as it was
\* asked for.  Of a larger one, which the constructor takes too
\* (altera_avalon_sgdma.c:398: "8-bit channel identification number that will be
\* passed"), the upper four bits are lost, so that another channel is passed.
ChannelPassed(passed, asked) ==
  IF asked \in 0..15 THEN passed = asked
  ELSE \E lost \in 1..15 : asked = passed + lost * 16

\* The controller reads from the 32 bytes what the caller has asked the
\* constructor for, but for a channel above 15; and such a channel disturbs no other
\* field (altera_avalon_sgdma_descriptor.h:88-115 against
\* eth_nios_v2_rx_dma.v:648-655 and 726-730).
DecodedAsAsked ==
  stage \in {"fetched", "done"} =>
    /\ command.read_address = request.read_addr
    /\ command.write_address = request.write_addr
    /\ command.next_desc = NextAddress
    /\ command.bytes_to_transfer = request.length
    /\ has(command.control, 0) = request.generate_eop
    /\ has(command.control, 1) = request.read_fixed
    /\ has(command.control, 2) = request.write_fixed_or_sop
    /\ ChannelPassed(channelField(command.control), request.channel)

\* The next descriptor loses its owner's bit and nothing else: it may be one the
\* controller has reported on (altera_avalon_sgdma.c:662-670).
NextOnlyReleased ==
  [][\A k \in Offsets : nextMemory'[k] # nextMemory[k] =>
        k = 31 /\ nextMemory'[k] = nextMemory[k] - bit(7)]_vars

\* -EIO is an error of this use of the descriptor, once the controller has
\* reported it (altera_avalon_sgdma.c:505-506).
ErrorIsOwn ==
  check.at = "returned" /\ check.result = EIO =>
    stage = "done" /\ token.status % bit(7) # 0

\* 0 tells that the controller is done with the descriptor
\* (altera_avalon_sgdma.c:507-516).
ZeroMeansDone ==
  check.at = "returned" /\ check.result = NoError => stage = "done"

\* The driver and the controller mean the same by every byte, and by every channel
\* the field can hold.
BytesAgree == [](TypeOK /\ DecodedAsAsked /\ ErrorIsOwn /\ ZeroMeansDone) /\ NextOnlyReleased
=============================================================================
