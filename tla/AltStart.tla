---------------------------------- MODULE AltStart ----------------------------------
(***************************************************************************)
(* From reset to main: crt0 and alt_load bring caches and memory into the  *)
(* state the program is compiled for, alt_main sets up the interrupt       *)
(* controller and the drivers, calls main and stays in _exit.  A reset, or *)
(* a jump of a bootloader to _start, may come at any moment, whatever the  *)
(* run before has left in memory, caches and interrupt enables.            *)
(*                                                                         *)
(* An address is a word of a section, a line holds two: no section begins  *)
(* with a line (linker.x).  The program's words are those the interrupts   *)
(* depend on.                                                              *)
(***************************************************************************)
EXTENDS DataCache, Integers, Sequences

CONSTANTS
  Drivers,              \* the interrupt each driver of alt_sys_init registers
  Copied                \* what alt_load may have to copy: sets of sections

VARIABLES
  pc, turn,             \* where crt0 and alt_main are; the turn of a loop there
  copied,               \* the sections whose load address is not their own
  cpuPie, cpuIenable,   \* of the processor
  icache                \* the line of the exception code, -1 when it is not there

\* Words in memory.  The values of the first two are those of their images.
exceptions == 0
alt_priority_mask == 1                  \* .rwdata
rwdataImage == 2
alt_irq_active == 3                     \* .bss, up to the last handler
handler(i) == 4 + i
exceptionsImage == 6
Sections == <<[name |-> "rwdata", from |-> rwdataImage, to |-> alt_priority_mask],
              [name |-> "exceptions", from |-> exceptionsImage, to |-> exceptions]>>

Irqs == {0, 1}
All == 3                                \* bits of both
Bit(i) == i + 1                         \* 1 << i
BitsOf(v) == {i \in Irqs : (v \div Bit(i)) % 2 = 1}
Code == 1                               \* the value of the exception code
Garbage == 2                            \* what memory and caches hold at power-up
bss == {alt_irq_active} \cup {handler(i) : i \in Irqs}

At(place) == pc = place
Goto(place) == pc' = place /\ turn' = 0
Again == pc' = pc /\ turn' = turn + 1
cpu == <<cpuPie, cpuIenable>>

-----------------------------------------------------------------------------
(* crt0.                                                                   *)

PowerUp ==
  /\ copied \in Copied
  /\ pc = "reset" /\ turn = 0 /\ cpuPie = FALSE /\ cpuIenable = {}
  /\ memory = [a \in Addresses |->
       IF a = rwdataImage THEN All
       ELSE IF a = exceptionsImage \/ (a = exceptions /\ "exceptions" \notin copied) THEN Code
       ELSE Garbage]
  /\ present = Lines /\ dirty \in {{}, Lines} /\ copy = [a \in Addresses |-> Garbage]
  /\ icache = Garbage

\* The reset of the processor clears its interrupt enables, not its caches.
Reset ==
  /\ Goto("reset")
  /\ cpuPie' = FALSE /\ cpuIenable' = {}
  /\ UNCHANGED <<cacheVars, icache, copied>>

\* "also the code entry point when the code is executed by a bootloader": it
\* comes with interrupts off.
Jump ==
  /\ pc \notin {"reset", "start"} /\ Goto("start")
  /\ cpuPie' = FALSE
  /\ UNCHANGED <<cacheVars, icache, copied, cpuIenable>>

\* initi
InitInstructionCache ==
  /\ At("reset") /\ Goto("start")
  /\ icache' = -1
  /\ UNCHANGED <<cacheVars, copied, cpu>>

\* mutant: flushed as at the end of alt_load
initdWritesBack == TRUE
initd == FALSE

InitDataCache ==
  /\ At("start") /\ Goto("bss")
  /\ Drop(Lines, initd)
  /\ UNCHANGED <<icache, copied, cpu>>

ClearBss ==
  /\ At("bss")
  /\ Store([a \in {alt_irq_active + turn} |-> 0])
  /\ IF alt_irq_active + turn + 1 \in bss THEN Again ELSE Goto("load_read")
  /\ UNCHANGED <<icache, copied, cpu>>

\* alt_load_section, of sections of one word
section == Sections[turn + 1]
LoadRead ==
  /\ At("load_read")
  /\ IF section.name \in copied THEN Load(section.from) ELSE UNCHANGED cacheVars
  /\ pc' = "load_write" /\ turn' = turn
  /\ UNCHANGED <<icache, copied, cpu>>

LoadWrite ==
  /\ At("load_write")
  /\ IF section.name \in copied THEN Store([a \in {section.to} |-> seen(section.from)])
     ELSE UNCHANGED cacheVars
  /\ IF turn + 1 < Len(Sections) THEN pc' = "load_read" /\ turn' = turn + 1 ELSE Goto("flush_data")
  /\ UNCHANGED <<icache, copied, cpu>>

FlushData ==
  /\ At("flush_data") /\ Goto("flush_code")
  /\ alt_dcache_flush_all
  /\ UNCHANGED <<icache, copied, cpu>>

\* alt_icache_flush_all
FlushCode ==
  /\ At("flush_code") /\ Goto("irq_init")
  /\ icache' = -1
  /\ UNCHANGED <<cacheVars, copied, cpu>>

-----------------------------------------------------------------------------
(* alt_main.                                                               *)

\* The order of its calls; what it calls between them changes nothing here.
alt_main == [irq_init |-> "enable", enable |-> "sys_init", sys_init |-> "main",
             main |-> "exit"]
Called == Goto(alt_main[pc])

\* altera_nios2_gen2_irq_init
IrqInit ==
  /\ At("irq_init") /\ Called
  /\ cpuIenable' = {}
  /\ UNCHANGED <<cacheVars, icache, copied, cpuPie>>

\* alt_irq_cpu_enable_interrupts
EnableInterrupts ==
  /\ At("enable") /\ Called
  /\ cpuPie' = TRUE
  /\ UNCHANGED <<cacheVars, icache, copied, cpuIenable>>

\* A driver of alt_sys_init registers its handler, with interrupts off.
SysInit ==
  /\ At("sys_init")
  /\ LET i == Drivers[turn + 1]
         active == BitsOf(seen(alt_irq_active)) \cup {i}
     IN  /\ Store([a \in {handler(i), alt_irq_active} |->
                     IF a = handler(i) THEN 1 ELSE IF active = Irqs THEN All ELSE Bit(i)])
         /\ cpuIenable' = active
  /\ IF turn + 1 < Len(Drivers) THEN Again ELSE Called
  /\ UNCHANGED <<icache, copied, cpuPie>>

\* While the program runs an interruptible handler has its own mask.
Main ==
  /\ At("main")
  /\ \E mask \in {0, 1, All} : Store([a \in {alt_priority_mask} |-> mask])
  /\ UNCHANGED <<pc, turn, icache, copied, cpu>>

\* main returns; _exit goes on for ever with interrupts on.
Exit ==
  /\ At("main") /\ Called
  /\ UNCHANGED <<cacheVars, icache, copied, cpu>>

\* The lines of the exception code are fetched, also ahead of what is executed.
Fetch ==
  /\ pc # "reset" /\ icache = -1
  /\ icache' = memory[exceptions]
  /\ UNCHANGED <<cacheVars, pc, turn, copied, cpu>>

\* Nothing is loaded or stored before the data cache is initialised.
Replace ==
  /\ pc \notin {"reset", "start"} /\ Evict
  /\ UNCHANGED <<pc, turn, icache, copied, cpu>>

StartNext ==
  \/ Reset \/ Jump
  \/ InitInstructionCache \/ InitDataCache \/ ClearBss \/ LoadRead \/ LoadWrite
  \/ FlushData \/ FlushCode \/ IrqInit \/ EnableInterrupts \/ SysInit \/ Main \/ Exit
  \/ Fetch \/ Replace

-----------------------------------------------------------------------------
\* Whatever was in memory and caches, an interrupt that can be taken has its
\* handler (alt_sys_init.c:78-104, alt_main.c:89-110).
HandlersKnown == cpuPie => \A i \in cpuIenable : seen(handler(i)) = 1

\* "Now ensure that the caches are in synch" (alt_load.c:94-98): what is fetched
\* when an interrupt is taken is the exception code.
CodeFetched == cpuPie => icache \in {-1, Code} /\ memory[exceptions] = Code

\* The variables the interrupts depend on have their first values when the
\* interrupts are enabled, and the images are as they were for the next reset.
FreshData ==
  /\ pc \in {"enable", "sys_init"} => seen(alt_priority_mask) = All
  /\ pc = "enable" => \A a \in bss : seen(a) = 0
  /\ pc \notin {"reset", "start"} => seen(rwdataImage) = All
  /\ memory[rwdataImage] = All /\ memory[exceptionsImage] = Code

\* main finds enabled what the drivers have registered, as AltIrq begins.
DriversEnabled ==
  pc \in {"main", "exit"} =>
    /\ cpuPie /\ cpuIenable = {Drivers[k] : k \in DOMAIN Drivers}
    /\ BitsOf(seen(alt_irq_active)) = cpuIenable

StartInv == HandlersKnown /\ CodeFetched /\ FreshData /\ DriversEnabled
=====================================================================================
