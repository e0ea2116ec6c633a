# TLA+ models of the HyperRAM controller and the Ethernet system

The repository holds a Quartus project for a board with a HyperRAM chip and a
gigabit Ethernet port.  This directory holds TLA+ modules of its two parts and
of the software below the firmware, the TLC configurations that check them on small
instances, and theorems about them, proved with TLAPS for every value of the
constants.  `PROJECT.json` lists the runs, the source lines behind each
definition, the hazards and the theorems.

    tlc -config MCHyperRamDriver.cfg MCHyperRamDriver.tla    # one run
    tlapm HyperRam_proofs.tla                                # one module's proofs

Paths below are relative to `src/`; HAL is `software/eth_3_bsp/HAL`, drivers is
`software/eth_3_bsp/drivers`.

## 1. The system

### 1.1 HyperRAM

`src/hyperRAMcontroller.sv` and `src/hyperRamDriver.sv`, with a PLL
(`hyperRamPll.v`), the queue of transactions (`RamControlSeqFifo.v`), the FIFO
of the data to write (`HyperRamFifo.v`) and the RAM for the data read
(`ramRead`).

| component | state | operations |
| --- | --- | --- |
| PLL | none | from the 50 MHz `clk_50` makes `clock200`, `clock200shifted` (late by 2500 ps) and `clock400` |
| bus driver | `csCounter`, `totalTime`, `fastCountNegedge`, `ckRamCounter` | four counters, clocked by three different clocks and by `enable`; chip select, chip clock, command bytes and the signals `setupDone`, `dataTransfering`, `processDone` are combinational functions of them |
| queue port | `clockQueuryTemp`, `dataInputQueuryInput`, `WreqFifoQuaury` | samples the user's `clockQueury`, makes the write clock and write request of the queue |
| queue | a dual-clock FIFO of 128 words | written by the port, read by the state machine, which makes the read clock itself |
| state machine | `fsmStateTransfer` and the registers it drives | states 0 to 6: wait for a word, read it, load the driver's registers, enable the driver, wait for `setupDone`, open the data path, wait for the end |
| data path | `adrWriteRamRead`, `adrReadInfo`, `WrenRamRead`, `RreqFifoWrite` | a byte for each rising edge of `clock400` |

The driver talks back to the controller through `setupDone`, `dataTransfering`
and `processDone`.  `processDone` is also an *asynchronous clear* of most of the
controller's registers, and falls because of what it clears.  What is hard here
is that one counter is compared with a total set by another clock, that the
counters are cleared at different times, and that the state machine samples all
of it with the slowest clock.

The controller is not instantiated in `top_module.sv` at this commit.  Its test
bench is for an older variant of it.

### 1.2 Ethernet

A Nios II system (`eth_nios_v2.qsys`): the processor, two scatter-gather DMA
controllers between memory and the MAC (`tse`), an edge-capturing PIO and a few
RAMs.

| component | state | operations |
| --- | --- | --- |
| firmware, `hello_world_small.c` | descriptors, frame header | `main` builds the header, opens the DMA controllers, starts the receiver, enables the PIO's interrupt and then does nothing; `sgdma_rx_irq_handler` looks at a received frame and starts the receiver again; `button_isr` sends header and data as one frame |
| SGDMA driver | callback of each controller | constructors of descriptors, asynchronous and waiting transfers, start, stop, polling, callbacks, status check, interrupt handler |
| SGDMA controllers | control and status registers, descriptor FIFOs, status tokens | fetch a descriptor, move its data, write it back, raise the interrupt, end the chain |
| PIO | `irq_mask`, `edge_capture` | remembers a rising edge of its input |
| test data generator | a counter | raises the PIO's input about every 1600 clocks |
| TSE MAC and driver | tables of MACs and PHYs, groups, MDIO port | fill the tables, form groups, find PHYs, negotiate links, change fields of registers |

The firmware and a DMA controller share the descriptors in memory without a
lock: the bit `OWNED_BY_HW` says whose one is.  The driver gives up silently when
a controller is busy, and the firmware ignores that.  A handler reads and writes
a controller's registers while the controller runs.  The receiver has one
descriptor and depends on its handler to be started again after each frame.

### 1.3 The HAL

| component | state | operations |
| --- | --- | --- |
| interrupt dispatch | `alt_irq[]`, `alt_irq_active`, `alt_priority_mask`, `pie`, `ienable` | register, enable and disable; the loop that runs the handler of the lowest pending number and looks again; handlers that let others in; exceptions of instructions |
| alarms and tick | list of alarms, `_alt_nticks` | start and stop, in and outside of callbacks; `alt_tick` in the timer's interrupt |
| interval timer | timer registers, `altera_avalon_timer_ts_freq` | system clock and timestamp |
| time | `alt_resettime`, time zone | `settimeofday`, `gettimeofday`, `usleep` |
| files | `alt_fd_list`, `alt_max_fd`, device lists | open, close, read, write, lseek, fstat, ioctl, fcntl, lock, redirection of the standard streams |
| JTAG UART driver | two rings, enables, `timeout`, `host_inactive` | interrupt handler, alarm, read, write, close, ioctl |
| caches, start-up | lines of both caches, sections of memory | flush functions; `crt0`, `alt_load`, `alt_main`, `alt_sys_init` |

Handlers and alarms interrupt the program between any two accesses; calls that share
state with them disable interrupts, take a semaphore (which is empty in this
build), or rely on each variable having one writer.  `PROJECT.json` lists, as hazards,
where each of these could go wrong.

### 1.4 What makes the parts correct

| part | must hold |
| --- | --- |
| bus driver | command first, exact number of edges, no counter left over |
| controller | each queued transaction runs once and in order; one is refused only when the queue is full |
| firmware with DMA | a request is answered by one whole frame; the receiver is always on its way to be restarted; no descriptor changes under a controller |
| SGDMA driver | registers change under no engine; a status belongs to the transfer that waits for it; transfers end |
| JTAG UART | each direction is a byte stream; no interrupt stays off that is needed; calls return |
| alarms, timer, time | an alarm runs out after the ticks asked for; no tick is lost; time does not jump |
| interrupts | a handler runs with its own context; only more important ones nest; enables are restored; each is served |
| start-up | `main` finds its variables, its code and the interrupt controller as compiled, whatever was there before |
| files | descriptors are used up by what is open and by nothing else; a lock excludes |
| TSE | groups hold the right MACs; each MDIO access meets the right PHY; links end within the common speed; calls return |

## 2. The modules

| module | models | uses |
| --- | --- | --- |
| `HyperRamDriver` | the bus driver, at each edge of its clocks, with the controller as its environment | |
| `HyperRamController` | port, queue, state machine, data path, and the driver below them | `HyperRamDriver` |
| `TransactionQueue` | what the controller promises: a queue whose entries run one at a time, in order | |
| `Sgdma` | the two DMA controllers, their registers and descriptors | |
| `EthFirmware` | `main`, the handlers, the driver's functions they call, interrupt dispatch and the PIO, over the DMA controllers | `Sgdma` |
| `PacketService` | what the firmware promises: a request is answered by one whole frame | |
| `SgdmaDriver` | every function of the SGDMA driver that talks to the controller, against a controller with all its interrupt sources, errors and polling | |
| `SgdmaDescriptor` | the bytes of a descriptor: constructors, what the controller decodes, write-back, status check | |
| `DataCache` | lines of the write-back data cache and the flush functions | |
| `DescriptorCache` | the firmware's descriptors where the linker has put them, under the cache | `DataCache` |
| `AltStart` | the way from reset to `main` over both caches | `DataCache` |
| `AltIrq` | exceptions, dispatch, registration, interruptible handlers | |
| `AltAlarm` | alarms, their list, the tick | |
| `Countdown` | what alarms promise, without list and roll-over | |
| `AltTime` | time of day and `usleep` over the ticks | `AltAlarm` |
| `AltTimer` | the interval timer and its two drivers | |
| `AltFiles` | descriptors, devices, file systems, locks, streams; and the calls of a build with direct drivers | |
| `JtagUartDevice`, `JtagUart` | the device with its host, and the interrupt-driven driver | |
| `JtagUartSmall` | the polling driver, the one this build compiles | `JtagUartDevice` |
| `ByteStream` | what each direction of the UART promises | |
| `TseTable` | rows of the table of MACs, by the macros and by `alt_tse_system_add_sys` | |
| `TseSystem` | MACs and sharing lists added in any order, groups made of them | |
| `TseProfiles` | the five PHY profiles and how they read a link | |
| `TsePhy` | scan of the MDIO addresses, negotiation, common speed | |
| `TseRegisters`, `TseMdio` | names of the registers; the functions that change single fields, and `tse_init`, access by access | |
| `MC...` | instances for TLC | the component |
| `..._proofs` | theorems and proofs | the component, TLAPS |

A few MC modules hold two or three components that do not interact, each behaviour
being one of them; a property then names the part it is about.

### 2.1 HyperRAM: time and clocks

All clocks come from one PLL, so their edges have a fixed order.  Time advances in
*slots* of 1250 ps, half a period of `clock400`, 16 slots to a period of `clk_50`.
Each action of `HyperRamDriver` and `HyperRamController` is a slot with all the edges
in it, and every register clocked by one of them reads the values from before.  The
asynchronous clear is a step of its own (`Clear`, `TransferEnd`) which must come
before the next slot, since it takes no time.

`HyperRamDriver` replaces the controller by what the driver may rely on: load the
registers (`Load`), raise `enable` a `clk_50` period later at the earliest
(`Raise`), or leave all as it is (`Hold`).  `HyperRamController` replaces these
three actions by the actual state machine; that its behaviours are behaviours of
`HyperRamDriver` is the property `DriverSpec`, checked and proved.  Everything
proved of the driver thereby holds in the controller.

`chipEdges` is what the chip sees: clock edges since it was selected.

Abstracted or left out:

- Data bytes: only which command byte is on the bus (`commandByte`) and how many
  bytes were moved (`moved`).
- The vendor's FIFO (`RamControlSeqFifo`), external code: writes and reads take
  effect at their clocks' edges.  Its read-side empty flag either follows at once
  or changes only at edges of the read clock (`flagsNeedReadClock`); the run has both.
  The queue as it is generated (`RamControlSeqFifo.v`, `rdsync_delaypipe` 4) is of the
  second kind and stalls the controller (`Stalled`); the state machine is written for
  the first, the only kind of which `RunsInOrder` and `MovesInDataPhase` say much.
  The lag of its full flag is not modelled.
- The user changes its wires in the slots of `UserSlots` and holds a request until
  it was sampled.  A user with other timings can lose requests; no property speaks
  of one.
- Registers without an initial value power up low, apart from `totalTime` and
  `rwMode`, whose power-up value matters, and the state register, which may hold
  a value outside its states (7 stands for these).

### 2.2 Ethernet: steps and interrupts

A step of the processor is one access to a device register or one
descriptor; `pc` names the next, after the function or the access it is in.
DMA controllers, MAC and PIO may step between any two of them.  An interrupt
saves `main`'s place in `interrupted`; `NextHandler` is the loop that
looks for the next pending interrupt after each handler.  Handlers do not nest.
The order is the receiver's, the transmitter's and then the PIO's interrupt.

A DMA controller fetches, moves and writes back a descriptor in one step each.
Two timing assumptions are built in, both justified by the hardware: fetching and
writing back a descriptor (a few words) is faster than moving the data of one, so
a controller moves data when nothing is left to fetch or to write back; and what
takes a controller a clock or two after its cause (the load of the first
descriptor when `run` rises, the end of a chain after its last write-back) is part
of the causing step, because a bus access of the processor takes longer.

Further:

- The transmitter's `csr_irq` never rises: no callback is registered with it, so
  `IE_GLOBAL` stays clear.  It has no source of errors either.
- An edge of the PIO's input in the very clock cycle in which it is cleared counts
  as one before the clear.
- `alt_avalon_sgdma_open` does not fail, as the drivers register their devices
  before `main`.
- `tse_init` is one step; it comes before any interrupt is enabled.
- A frame is good or bad (the MAC flags an error at its end).  Its bytes are not
  kept; `memory` says whether a RAM was written by a frame or by `memset`.
- The data cache is not modelled here but in `DescriptorCache`; the functions of the
  driver the firmware does not call, in `SgdmaDriver`.

`sent` and `memory` are history: the frame sent since the last request, what the
last write to a RAM left there.

### 2.3 SGDMA driver, descriptors, cache

`SgdmaDriver` has two contexts, the program and the interrupt handler with its
callback, each with its own place, registers and descriptor; the engine steps between any
two accesses.  A behaviour begins with an *application*: the calls the program makes, what
the callback does, which interrupt sources are on, whether descriptors may fail.  The
divergences of section 3.1 are why the applications are limited: the model describes
them all, but the properties hold only for two kinds (`ApplicationsAssumption`).  One makes
transfers; it may halt the controller at any time, but `start` and the polling, which set it going
for what no transfer has prepared, are not for it, and it waits for transfers only where no
callback starts or halts another.  The other polls one chain, to which it may append.

`SgdmaDescriptor` keeps the 32 bytes as numbers, so that masks, shifts and offsets of the
C structure are checked against the bit ranges of the controller's Verilog.
`DescriptorCache` counts addresses in halves of a line.  Since a descriptor is half a line off,
it shares each of its two lines with a neighbour.  Lines leave the cache at any time
(`Evict`), which stands for every address that may need their place.  What is written there
besides the descriptors are the other variables of these lines (`Neighbours`).
`LinesAssumption` is what the order of the constructor's stores relies on: the control byte
of a descriptor that is made shares its line with no control byte or address of another one
that is made and with no other variable.  In the firmware it shares it with the addresses of
one that only ends a chain, which nobody stores.

### 2.4 JTAG UART

A step is one access to a shared variable or register.  Handler and alarm run on the
processor of the threads, so the threads stand still while one of them is not idle; the
handler interrupts them between any two accesses, unless they have interrupts disabled,
which makes such a statement one step.  `Programs` says which threads there are and
which bytes the host may send.  `host_got` and `taken` are what came out of the two
directions in the last step.  A ring is read as a sequence (`Held`), and with the FIFO behind it
refines `ByteStream`.  In the copy of a reader a byte leaves the stream when `memcpy`
takes it, before `rx_out` is moved; `rxCopied` is that place.  `JtagUartSmall` is the driver
without rings, whose one thread waits at the FIFOs of the same device.

### 2.5 Alarms, timer, time

`alt_alarm_start` and `alt_alarm_stop` disable interrupts and are one step; so is a turn of
the loop of `alt_tick` with the callback in it, which may itself start and stop alarms
(`CallbackStops` allows it to stop another alarm than its own).  The counter rolls over
at `Wrap`.  `Countdown` keeps for each alarm the ticks left; the refinement mapping
computes them from time, roll-over flag and counter.  `AltTimer` runs a timer with counts
in parts of `Part` values, 2 or 4 parts, whose snapshots and status are read and written
one register at a time.

### 2.6 Interrupts and start-up

`AltIrq` keeps the whole stack of interrupted frames, so that nesting is as deep as the
handlers let it be.  An interrupt is taken whenever `pie` and a pending enabled line are there,
before any other step.  An instruction may raise an exception; the handler of
exceptions decides whether it is re-issued.  `AltStart` has memory and caches hold any value at
first; `Reset` and `Jump` come at any moment.

### 2.7 Files

One thread, semaphores empty: a call is a step, and `pc` says how far `alt_io_redirect`
has come before `main`.  A name is the sequence of its parts.  `held` is history: the
descriptors the application got and has not closed.  The operators `Direct...` are the
calls of the build with `ALT_USE_DIRECT_DRIVERS`, which this project sets.

### 2.8 TSE

`TseSystem` fills the table and makes the groups, with any allocation failing.  `TsePhy`
keeps what the driver knows of PHYs and what the PHYs are, and models a step of the driver
as what it does between two looks at something that changes under it: a link.  `TseMdio`
takes the functions that change a field one access at a time, with reset, negotiation and the
reset of the MAC ending at any time.  The profile's status register is read by
`TseProfiles`; `TseTable` compares both ways to write a row of the table.

## 3. What is checked

Each run passes.

| run | bounds | properties |
| --- | --- | --- |
| `hyperram_driver` | lengths {0, 1, 2, 13, 1280, 2012}, `totalTime` powers up at 1 or 2047 | `DriverInv`, `FreshSetup`, `CommandFirst`, `ExactEdges`, `StopsWhenDone` |
| `hyperram_controller` | lengths {3, 17}, queue of 2, 4 requests; an empty flag of either kind; `totalTime` powers up at 0 or 1 | `ControllerInv`, `DriverSpec`, `RunsInOrder`, `AllAreRun`, `PresentedIsQueued`, `MovesInDataPhase` |
| `eth_firmware` | 2 frames waiting at most | `EthInv`, `EngineAtRest`, `ReceiverServed`, `OwnInterrupt`, `SendsOnRequest`, `BothServed` |
| `jtag_uart` | 2 byte values, FIFOs of 1, rings of 3, requests of 1 or 3 | `TypeOK`, `InterruptsStayOn`, `TxStream`, `RxStream` |
| `jtag_uart_live` | 1 byte value, rings of 2, time-outs of 1 and 2; and the polling driver | `CallsComeBack` |
| `alarms` | 3 alarms, counter of 8 values, delays {0, 6}, periods {2, 7}; timer of 2 or 4 one-bit parts | `ListLinked`, `ClocksRight`, `Countdowns` |
| `sgdma_driver` | ring of 4 descriptors, FIFO of 2, four applications | `DriverInv`, `TransfersEnd` |
| `descriptors` | the five descriptors of the firmware at their addresses; lengths 0 and 65535, channels 0, 15, 16 and 255 | `ChainsOfFirmware`, `BytesOfDescriptor` |
| `tse_phy` | 2 MACs, 3 addresses, three populations of PHYs, 1 lost link | `PhyInv`, `Restores`, `LinksWithinCommon`, `CallsReturn` |
| `tse_setup` | table of 5, 4 kinds of MACs, 2 PHYs and 2 calls; every system of up to 2 channels; PHY revisions 0 to 15 | `TableAndGroups`, `FieldsAtomic` |
| `files` | 5 descriptors, 2 devices, a file system | `PoolInv`, `LockHolds`, `DescriptorsKept` |
| `alt_irq` | 3 interrupts, 2 with interruptible handlers; 7 words of memory in lines of 2 | `InterruptsRight`, `Served` |

HyperRAM:

- `FreshSetup`: `setupDone` is never left over from the transaction before,
  though its counter is cleared only by an edge of the chip's clock that comes
  after `enable` has fallen.
- `CommandFirst`: the chip is clocked in a running transaction only, and its first
  six edges find the six command bytes, stable and in order.
- `ExactEdges`: at the end of a transaction the chip has had exactly the edges of
  command, latency and data.
- `StopsWhenDone`: `dataTransfering` falls with `processDone` only, so state 6 of the
  controller never leaves by its own condition in the middle of a transfer.
- `DriverSpec`: the controller keeps the driver's protocol.
- `RunsInOrder`: the controller implements `TransactionQueue`; the
  transaction being run is read off the registers the driver is run from.
- `AllAreRun`: as long as the controller has not stalled, what is queued is started and
  what is started ends; a stall is for ever and no word is taken in it.  `Stalled` is
  exactly the two conditions of section 3.1, both in the run: an empty flag that needs
  the read clock, and a total of 0 in write mode.  There is no third way to stop.
- `PresentedIsQueued`: a request held over an edge of `clk_50` is queued when sampled,
  unless the queue is full; nothing else is queued.
- `MovesInDataPhase`: bytes move in the data phase of a transaction only.

Ethernet:

- `EngineAtRest`: the driver never finds a controller busy, and never changes a
  descriptor of a controller that may fetch it.
- `ReceiverServed`: the receiver runs, or an interrupt waits, or the handler is about
  to start it again, or there was an error.
- `OwnInterrupt`: no descriptor is written back while an earlier one's interrupt
  waits.
- `SendsOnRequest`: firmware, driver, DMA and PIO together implement
  `PacketService`: between taking a request and the return of its handler exactly one
  whole frame is sent, header and data in one packet.
- `BothServed`: every request is taken and its handler returns, provided that
  frames stop arriving at some time (without this, the receiver's interrupt, which has
  the lower number, can keep the PIO's waiting for ever); and as long as no bad frame has
  come, frames keep being taken from the MAC.

SGDMA driver and descriptors:

- `DriverInv`: once a transfer has found the controller at rest, it stays at rest until that
  transfer runs it, whatever the interrupt handler does in between; and what
  `do_sync_transfer` returns is the status of its own chain.
- `TransfersEnd`: an application that only starts transfers is called back after each; one
  that polls has every descriptor moved that it appends.
- `ChainsOfFirmware`: under the cache, a descriptor once released is owned again only when
  it is made anew, an owned one is complete in memory, and a started controller finds the
  whole chain owned.
- `BytesOfDescriptor`: what the controller decodes is what was asked of the constructor, a
  channel of up to 15 included (a larger one is cut, section 3.1, and disturbs no other field),
  the next descriptor loses its owner's bit and nothing else, and
  `check_descriptor_status` reports errors of this use only.

JTAG UART:

- `InterruptsStayOn`: no byte waits in the transmit ring with the interrupt off and nobody
  about to turn it on; the receive interrupt is off only while the ring is full or a reader
  is about to turn it on.
- `TxStream`, `RxStream`: each direction implements `ByteStream`.
- `CallsComeBack`: reads, writes and closes return, with a host that reads or with none, and
  what is in the ring is sent; the polling driver's calls return when the host reads and sends,
  and both its directions implement `ByteStream` too.

HAL:

- `ListLinked`: both directions of the list of alarms agree.
- `Countdowns`: the alarms implement `Countdown`: each runs out after the ticks asked for,
  over a roll-over, and time does not pass while one that has run out waits.
- `ClocksRight`: the time of day is the one set plus the time passed, with both parts in
  range; and no tick of the timer and no clock of a timestamp is lost between register accesses.
- `InterruptsRight`: a handler that is called is registered and gets its own context;
  handlers on the stack are ever more important; when all have returned, the
  enables are those the program asked for; an interrupt is never taken for an exception; and
  after any reset or jump, interrupts are enabled only when variables, code and handlers
  are in place.
- `Served`: an enabled interrupt is served once the more important ones are quiet.
- `PoolInv`: a descriptor is in use exactly when the application holds it or it is a
  stream; `LockHolds`: `open` never adds a descriptor for a locked device;
  `DescriptorsKept`: an open descriptor keeps its access mode and loses its lock only by
  its own `TIOCNXCL`, and the streams are where the build with direct drivers has them.

TSE:

- `PhyInv`: the PHY that answers is the one the function was called for, whatever is nested,
  and MACs and PHYs are in one-to-one correspondence; `Restores`: `MDIO_ADDR1` is put back;
  `LinksWithinCommon`: after a common speed was set, no link is faster than the MACs are
  set, be it up before or come up meanwhile; `CallsReturn`: every call returns when each PHY
  can negotiate and links stop going down.
- `TableAndGroups`: rows are equal in both ways to write them, profiles are found, and
  no group is wired wrong or, if nothing failed, missing.  Of the MACs of a sharing list this
  is said when exactly one list was accepted (`SharedTogether`): a second one may name the
  same MACs, which cannot be in two groups.
- `FieldsAtomic`: a call changes the fields it is for, in its PHY, and no other.

Why the bounds are enough.  *HyperRAM*: the driver's behaviour depends on a length through
comparisons with its counters.  The lengths cover an empty and an odd transaction,
those that end around the first samples of `clk_50`, the documented maximum (1280)
and the largest total that stays in 11 bits for a read (2012, `LengthsAssumption`); the
proofs cover all in between.  In the controller, a transaction of 3 bytes is over before
the state machine has seen `setupDone`, one of 17 bytes moves data; a queue of two is
empty, partly filled and full, and four requests overfill it.  *Ethernet*:
a second frame waits while the first is handled, and a third adds nothing as the receiver
has one descriptor.  `FifoWords` (2) is the depth of the controllers' FIFOs, one less
than the transmitter's chain has descriptors.  A ring of four descriptors lets a chain of three wait with
one being made.  *UART*: a ring of three is empty, partly filled, full and wraps with a chunk
on either side of its end; the theorems cover other sizes and both threads together.
*Alarms*: the longest delay and period are longer than the counter's range after some
ticks, three alarms give a first, a middle and a last one to stop.  *Interrupts*: three
numbers give an outer handler, a more important one above it and one that does not
nest.  *Files*: three streams and two more, so that the pool is exhausted and the highest one
is released; what is registered before `main` comes in one order (`OneOrder`), and the theorems
cover the others.  *TSE*: two MACs make a common speed that neither has alone; two calls
interact through `MDIO_ADDR1`, and a third starts where the first did.

Fairness: `WF_vars(Clocks \/ TransferEnd)` for HyperRAM (the PLL does not stop, an
asynchronous clear takes no time; the user is not fair); `WF_vars(Cpu)` and
`WF_vars(Dma(c))` for Ethernet (processor and controllers are clocked; a
frame or an edge of the PIO's input need never come); `WF(Engine)`, `WF(Driver)` and
`WF` of the next call while the program has calls, for the SGDMA driver; `WF(Irq)` for the UART's
handler, and `SF` for the alarm, the threads and a host that reads, since each of them can
be held up by the handler again and again but is not for ever; `WF(TimeLoop)`, the
busy loop of `usleep`; `WF(Step)` and `WF(Take)` for the processor in `AltIrq`; `WF(Driver)` in
`TsePhy`, where links need never come up.

`CHECK_DEADLOCK FALSE` is set where a system may stop: an exception without a handler hangs
the processor (`alt_irq`), the application has made its calls (`sgdma_driver`), the parts of
`tse_setup` end.

### 3.1 Where code and documentation disagree

Found while modelling.  The models follow the code; where a property would fail because of
one of these, it says so, or the constant or application named in the module keeps the case out
of the run.

HyperRAM

- The data path opens two `clk_50` periods after `setupDone`: a write takes 12 bytes too few
  from its FIFO (`hyperRAMcontroller.sv:194`; line 262: "How many bytes module will
  trasnfer").
- `adrReadInfo` is loaded for the last time when the write address is already moving
  (line 175; line 25: "start writing adress").
- `numInQueuryInfo` has 7 bits for 128 words and reads 0 when the queue is full (105; 23).
- `totalTime` powered up at 0 makes `processDone` true, which resets the state machine for
  ever (`hyperRamDriver.sv:61`).  If `rwMode` has powered up high, the first transaction is
  still taken; when it is a write it is lost, and the reset is for ever from then on.
- The queue's empty flag needs edges of a read clock that the state machine only gives once
  the flag has fallen (`hyperRAMcontroller.sv:81`), so nothing is ever taken.
  Both are in the run (`Stalled`), and `AllAreRun` promises the rest only.
- Chip select falls again for 1250 ps right after a transaction of one parity, because its
  two conditions are cleared by different clocks (`hyperRamDriver.sv:157`; line 32 names
  the clocks to wait).  Lengths above 2012 wrap the 11-bit counters.

Firmware

- A frame with an error stops the receiver, raises no interrupt, and nothing starts it again
  (`hello_world_small.c:227`; `altera_avalon_sgdma.c:69`: "interrupt on error").
- IP and UDP lengths count 42 bytes of headers, the frame has 54 before the data (139; 57).
- The receiver writes `rx_buf_ram`, the handler looks in `header_ram` (228, 239;
  `eth_nios_v2.qsys:877`); that memory has 512 bytes for frames of up to 1334.

SGDMA driver (`altera_avalon_sgdma.c`)

- 212: an error leaves `BUSY` set and `do_sync_transfer` waits for it; 159 says it is abandoned.
- 480: `start` after a completed chain does nothing; 469 says the chain is processed.
- 497: `stop` leaves a fetched descriptor and `BUSY`, so that the next transfer is refused;
  498: descriptors fetched before are moved again after `start`; 487 says the engine stops.
- 605: the control register is written back over what the callback has written.
- 206: `do_sync_transfer` clears no interrupt enable; 202 says "Disable interrupt generation".
- 221: the status returned is that of whatever chain runs by then.
- 669 and 700: the owner's bit is cleared past the cache, and the order of stores is not that in
  which lines leave it; 663 and 696 rely on both.  In the firmware as it is linked this
  does no harm (`ChainsOfFirmware`).
- 532: status is read before control, and an error in between is reported as success.
- 708: the channel is cut to four bits; 398 says all eight are passed.  Channels above 15 are
  in the run (`ChannelPassed`): another channel is passed, the other fields are as asked.
- `alt_dcache_flush_no_writeback.c:65`: one line too many is discarded whenever the start is
  not the first address of a line.

JTAG UART

- `altera_avalon_jtag_uart_write.c:187`: a host that missed one period of the alarm gets the
  writer an `-EIO`, whatever the time-out; line 214 says "Host not connected".
- `altera_avalon_jtag_uart.h:99`: `host_inactive` is not volatile, unlike what 105 demands of
  variables the interrupt changes.

Alarms, timer, time

- `alt_tick.c:102`: `next` is stale when the callback stops that alarm (`CallbackStops`).
- `alt_alarm_start.c:82`: a delay of 2^32 - 1 runs out at the next tick.
- `alt_settod.c`: the product of the time set is cut to 32 bits.
- `alt_busy_sleep.c`: a rest of 0 loops makes 2^32 turns.
- `altera_avalon_timer_ts.c`: after the counter's end the timestamp stays at 0; its comment says
  -1.  A timer named for both clocks is the system clock only.

Files

- `alt_fd_lock.c:61`: the loop ends before the highest descriptor in use.
- `alt_dev.c:134`: streams on `/dev/null` refuse writes; 72 says they are discarded.
- `alt_ioctl.c:167`: the negative error number is returned, not -1.
- `alt_isatty.c:114`: `st_mode` is read though `fstat` failed.

TSE (`altera_avalon_tse.c`)

- 362: after a failed allocation a second call adds the same channels again; 461: an error comes
  after MACs were marked as shared; 1159: a shared group takes the slots that follow,
  whichever MACs these are.
- 327 and 267: the checks of the table's and the profiles' size only print, or are missing.
- 1303: an early return leaves `MDIO_ADDR1` changed; 1284 says it is restored.
- 1661: a PHY that cannot negotiate is waited for without end.
- 1986: PHYs that are not done are skipped when the common speed is chosen; 2158: speed is read
  from a location the profile says is unused; 2089: a capability is read before it is known.
- 833: speed bits 3 give no speed; 668 says 100 Mbps.  1809: 1000 Mbps half duplex is
  advertised, which 1807 says is not supported.
- `altera_eth_tse_regs.h`: the mask of `TX_ADDR_SEL` is one bit of three; the depth 128 of
  `hello_world_small.c`'s `tse_init` serves both receive thresholds; a depth of 65536 is 0 in
  16 bits.

## 4. What is proved

For every value of the constants, from the named assumptions in the modules
(`LengthsAssumption`, `PowerUpAssumption`, `FifoAssumption`, `UserAssumption`,
`FlagAssumption`, `AddressAssumption`, `SinkAssumption`, `UartAssumption`,
`AlarmAssumption`, `TimeAssumption`, `TimerAssumption`, `FilesAssumption`, `IrqAssumption`,
`StartAssumption`, `PhyAssumption`, `SystemAssumption`, `SetUpAssumption`, `DriverAssumption`,
`ApplicationsAssumption`, `CacheAssumption`, `LayoutAssumption`, `ChainsAssumption`,
`LinesAssumption`, `ArgumentsAssumption`, and `MdioAssumption`, which `SetUpAssumption`
includes).  `FilesAssumption` has `ALT_MAX_FD` at least 4, as `settings.bsp:45`
demands.  A few theorems have hypotheses of their own, each for a case in which the code does
not do what is stated (section 3.1): `~CallbackStops`, no callback stops another alarm,
for `next` in `alt_tick` would be stale; and `ShortDelays`, no delay is so long that its last
tick is also its first.  `ListsOfNeighbours`, which `SetUpAssumption` demands and TLC
evaluates, is a third one of these: lists for MDIO sharing name MACs that follow each
other in the table, as the driver takes the slots that follow.

| module | theorems |
| --- | --- |
| `HyperRam_proofs` | `DriverInvariance`, `FreshSetupHolds`, `CommandFirstHolds`, `ExactEdgesHolds`, `StopsWhenDoneHolds`; `ControllerInvariance`, `ImplementsDriver`, `RunsInOrderHolds`, `PresentedIsQueuedHolds`, `MovesInDataPhaseHolds`, `StallIsForEverHolds` |
| `EthFirmware_proofs` | `EthInvariance`, `EngineAtRestHolds`, `ReceiverServedHolds`, `OwnInterruptHolds`, `SendsOnRequestHolds`; `FieldsChangeAtOnce` |
| `SgdmaDriver_proofs` | `TransfersOwn`; `ChainsWhole`, `BytesMeant` |
| `JtagUart_proofs` | `TypesKept`, `NoLostInterrupt`, `TransmitIsStream`, `ReceiveIsStream` |
| `AltAlarm_proofs` | `ListStaysLinked`, `ClocksStayRight`, `AlarmsCountDown`, `ClocksCountDown` |
| `AltFiles_proofs` | `PoolExact`, `LockedStaysAlone`, `DescriptorsStay` |
| `AltIrq_proofs` | `InterruptsHandled`, `StartAndDispatch` |
| `TsePhy_proofs` | `RightPhy`, `AddressRestored`, `SpeedsMatch`; `GroupsStaySound`, `GroupsComplete`, `SetUpRight` |

**The driver.**  `DriverInv` is inductive.  Its core is `InStep`: in a running
transaction, for each slot modulo 4, `csCounter` and `ckRamCounter` are linear
functions of `fastCountNegedge`.  Before it comes `Selecting`, the count-down
of chip select; after it `Draining`, which says which counters may still be non-zero
in which slot after `processDone`.  `Bounded` ties `totalTime` to the length, which
keeps all the counters below their widths.  `EdgesCounted` derives what the chip saw
from the counters.  One lemma for each kind of slot shows that the invariant
is preserved, and the action properties follow from it.

**The controller.**  `ControllerInv` adds the agreement of state machine and
driver (`StateMatchesDriver`), the read handshake of the queue (`Handshake`), and what the
registers hold (`RegistersLoaded`, `PortHolds`).  With it each step of the
controller is a step of `DriverSpec` (`ImplementsDriver`), so that the driver's
invariant is kept by the driver's own lemmas, and a step of `TransactionQueue`
or a stutter (`RunsInOrderHolds`).  `PresentedIsQueuedHolds` and
`MovesInDataPhaseHolds` need two further invariants, on the write request of
the port and on the data phase, which are in the proof module; the first
assumes a user synchronous to `clk_50` (`UserSlots` = {0}), as the run does.
`StallIsForEverHolds` is the part of `AllAreRun` that needs no fairness; it rests on
`FlagWaits`: while the flag waits for the read clock, the state machine is in its idle
state or about to recover, so it gives none.

**Ethernet.**  `EthInv` consists of `TypeOK`; `ContextInv`, which place of `main`
a handler can interrupt and which controller each handler works on; `TxSilent`,
the transmitter never interrupts nor fails; `AsyncInv`, how far the driver's start of a
transfer has come; `RxInv`, the receiver is at rest when its handler or `main` prepares
it, and otherwise running, stopped by an error, or done with its interrupt
pending; and `TxInv`, the transmitter works only while `button_isr` polls, through the
stages of its chain.  The last two are the proof that there is no race for
the descriptors: each is an exact list of the states a controller goes through.  The
proof has a lemma for each action and one each for steps that leave a part's view
alone.

**SGDMA driver.**  `SInv` has two halves.  `BInv` says that a controller that runs is busy (`EngineInv`);
that from the look at the busy bit to the write of RUN it is at rest, and if it is the program that
looked, no interrupt is pending either (`RestInv`); and why neither polling nor a write of a stale control
register breaks this (`TransfersInv`, `PollsInv`).  It holds with every callback.  Where none
starts or halts a transfer, `QuietInv` follows the descriptors: the ones in hand and to be fetched are
one track through the ring, which ends at one that is not owned (`TrackInv`); a chain that has been made is apart from it, even
where the last one is still being moved (`Apart`); and while the program waits, its chain is moved in order and
the error bit is that of the part that has been moved (`Moved`).  The status read then is
that of the whole chain.  `ControlWritten` says what a write of the control register does, `Forms` sorts the
driver's steps into reads, writes, looks and other registers, and there is one lemma for each form in each half.

**Descriptors under the cache.**  `ChainsWhole` is about any lines, any placing of any number
of descriptors that meets `LinesAssumption`, and any chains.  `CacheInv` says: only lines of
neighbours and of the descriptor being made are dirty (`DirtyLines`), so that a line that leaves
the cache can change no other descriptor; the descriptor at the end of a chain is released in
memory and cache alike (`EndsReleased`); addresses are in memory unless the descriptor is being
filled in (`AddressesThere`); the chain being made is owned in order, up to the place the
processor is at (`MadeInOrder`); and what a controller has yet to come to is owned
(`RestOwned`).  `BothFlushed` is where the half line matters: the flush of a descriptor's address
and length reaches both its lines, because `alt_dcache_flush` makes one round more for a start
that is not the first of its line.

**Bytes of a descriptor.**  `BytesMeant` is about any addresses of 32 bits and lengths of
16; a channel of up to 15 is passed as it is, of one from 16 to 255 the lower four bits.  The recursion of `offset` has one solution (`OffsetsAre`), from which each byte
gets its field; a number is the sum of its bytes (`NumberIs`, `WordBytes`); and the control byte
has the bits it is made of (`ControlIs`).  `LayoutInv` then says for each stage which bytes the
structure has and where they come from.

**JTAG UART.**  `KickInv` strengthens `InterruptsStayOn` by the types, by the device having
the enables the driver keeps, and by what the handler remembers of a full ring.  One
lemma for each of handler, writer, reader and the rest shows that it is kept.
For the streams, a ring from `out` to `in` holds `Count(out, in)` bytes, and is what it holds up to a
place in it joined with what it holds from there (`HeldSplit`).  `StreamInv` adds to
`KickInv` that the chunk the writer copies is free (`ChunkIsFree`) and the one the reader copies is
filled (`ChunkIsFilled`), whatever the handler does meanwhile: it only moves the other end of the ring.
So each step either moves no byte (`NothingMoves`), adds bytes behind the last (`RingGrows`, `RingTakes`),
passes the first one on (`RingGives`, `CopyTakes`), or changes bytes outside of the ring
(`CopyToFree`); `StepStream` collects them.  The theorems hold for a writer and a reader at
once, which the runs have apart.  `TypesKept` adds what a thread remembers of a ring while the
handler goes on: the room a writer has seen is still there (`SpaceIsThere`), and a chunk never runs
over the end of its ring.

**Alarms.**  `ListInv` says that the links are two inverse functions on alarms and head, and
every insertion and removal keeps this, also in a callback.  For the count-down, `Positions` gives
the entries of the list ranks that grow along it, and `Walk` says with them what each alarm's time
and roll-over flag stand for: the ticks left are never negative, and an alarm that has run out, or whose
flag is still that of before the roll-over, lies where `alt_tick` has yet to come.  So no tick can
begin while one waits, and each step of the list is one of `Countdown` or a stutter
(`AlarmsCountDown`; `ClocksCountDown` for the system with its clocks).  For the clocks, `TInv`
says that `alt_resettime` is the time set less the ticks that had begun, and `MInv` that the timer is
not set up yet, or is the timestamp's with each access of its sequence at its place and the snapshot taken in
parts, or is the system's, whose ticks owed are the one pending and the one being handled
(`ClocksStayRight`).  The counter's width and the timer's are arbitrary.

**Files.**  `IInv` adds to `PoolInv` the high-water mark and what devices and
descriptors may be; each call is one lemma.  `StreamsInv` adds how far `alt_io_redirect` has
come and which streams are directed by then; after it, each call of `main` keeps the streams and the flags
of what stays open (`DescriptorsStay`).

**Interrupts.**  The state that matters is a stack of frames, so the invariant `IInv` is about
all of them.  `Shape`: the program is at the bottom, every frame above it has interrupted one that
lets interrupts through or whose instruction is faulty, and numbers get smaller upwards.  `Mask(s, k)` is what frame `k`
lets through; `alt_priority_mask`, the enables and PIE are that of the frame below, or less, as a
function of the place of the top frame (`HandlerTop`, `ProgramTop`), and what each frame has
saved is the mask of the one below it (`OldMask`).  `Changed`, `Pushed` and `PoppedShape` say what a new, a
changed and a finished frame leave alone; every step of the dispatcher is one of these.
`TablesWhole` says where handler and context of a number may differ: where the program is
between the two stores.  For the start, `BootInv` says that a clean line of a cache is as memory
is (`Coherent`), which sections and which exception code have reached memory or the cache (`Images`), and which words are cleared, copied
and initialised at each place (`Words`); with these the processor enters `main` in the state
`InterruptsHandled` begins with, and the two together are `StartAndDispatch`.

**PHYs.**  `PInv` consists of the types; `Turns`, the range of the counter and the PHY at each place; `Negotiated`,
no PHY advertises or has agreed on a mode it does not have, and one that cannot negotiate never is
done; `Addressed`, what the nested functions have saved of `MDIO_ADDR1`; `MappedInv`, the map is one-to-one, and
while the driver scans, addresses below the counter are mapped or nobody wants them and those
above it are free; and `LimitedInv`, the PHYs that `set_common_speed` has passed advertise no
more than the speed that is set, so that a link that is lost and found again in the meantime has no higher one
either.  `Restart` and `Advertised` say what `alt_tse_phy_restart_an` and the functions that set the
advertisement do to the registers, and `ReturnStep` what a function leaves behind; there is a lemma for every step of
the driver.  `PhyAssumption` demands that no two MACs of `tse_mac_device` name the same
address: the second would get no PHY.

**Groups.**  `TableInv` makes them sound: the rows below `tse_system_count` are whole and no
other is (`RowsWhole`), also after an allocation has failed; and the groups lie apart, below the slot
that is looked at (`GroupsApart`).  `FitInv` makes them complete while malloc has delivered and the
table has room.  There is a place for each MAC (`Placed`): its rows lie there, one MAC after the other;
until the groups are made, the rows of lists accepted are marked and no others (`Marked`); and
everything that begins below the slot ends below it, is in the groups, and fills a group of its own
if it is a multi-channel MAC or a list (`Complete`).  `BlockAt` is what makes a step of the
search keep this: the channels taken at a slot are those of the one MAC or list that begins there.
`ListsOfNeighbours` is where a list of other MACs would be taken for its neighbours.
`SetUpRight` joins these with the rows and the profiles, which are computed and need no
invariant: field by field the two ways to write a row give the same, for any depth and number of
channels, and a profile finds its own PHY and no earlier one does, whatever the revision.

**Fields of registers.**  `FieldsInv` says of the function under way, some of whose accesses are made
(`Along`): those to come are the rest of the accesses of its body (`Behind`); `MDIO_ADDR1` is the one
the function has selected, and what it has saved is the address from before (`Selects`); the MAC
has what `tse_init` has set so far and was not on before (`SetsUp`); and, of its PHY, what is still to come does
to the registers as they are now what the whole body does to those from before the call (`Promises`, with
`After` the effect of a sequence of accesses).  Both are seen through `View`, which leaves out the bits a PHY changes by itself,
so that a negotiation between two accesses keeps the promise.  A reset of the PHY by
itself in between ends it, in the property as in the code; so for `marvell_phy_cfg`, which resets
the PHY in its course, the settings are not stated, only the address and the other PHYs.
`AccessKeeps`, `CallKeeps` and `HardwareKeeps` show that each step keeps the
invariant; at the return nothing is to come, so the promise is the settings made (`ReturnKeeps`), and
`PromiseKept` computes for every function that these are the fields it is for.  `OnIsSetUp` does the same for `tse_init`
and the MAC.  The words the functions write to the registers are taken apart into
bits by one lemma (`WordsAre`).

**Only model-checked.**  The liveness properties (`AllAreRun`, `BothServed`, `CallsComeBack`,
`TransfersEnd`, `CallsReturn`, `Served`, `Countdowns`' progress), which need fairness and `ENABLED`, out of
reach of TLAPS.  Every safety property of the runs has a theorem.

## 5. Not modelled

- The waits on event flags of MicroC/OS-II; the HAL of this project has one thread.
- The MSGDMA functions of `altera_avalon_tse.c` (lines 1 to 161 under `__ALTERA_MSGDMA`), not
  compiled here.
- `create_arp`, `create_icmp` and `calculate_checksum` of the firmware, which nobody calls
  (the latter keeps its sum in 16 bits, so that its carries are lost).
- Logging (`alt_printf`, `alt_log_printf`), profiling (`gmon`), constructors and destructors, the heap,
  headers for DMA and flash devices without a driver in this system: no state of their own that
  the modelled parts depend on.
- FIFO, RAM and PLL wrappers, interconnect, processor and debug unit: generated, some
  encrypted.  The models take from them depths, connections and interrupt numbers.
- `DMAcontroller.sv` is empty; the test bench is for an older controller.

## 6. Plan

Done: all of the components above.  What is left: receive buffer and frame contents, once
firmware and system agree on an address (section 3.1).
