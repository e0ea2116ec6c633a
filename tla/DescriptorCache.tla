----------------------------- MODULE DescriptorCache -----------------------------
(***************************************************************************)
(* alt_avalon_sgdma_construct_descriptor_burst under the data cache.  A    *)
(* descriptor is as long as a line and packed, so it lies wherever the     *)
(* linker has put it: half a line off in the firmware as it is linked      *)
(* (eth_3.map: tx_descriptor_header at 0x33b0, the others behind it).  An  *)
(* address is half a descriptor: the first half holds the addresses, the   *)
(* second one the control byte with "owned by hardware".                   *)
(*                                                                         *)
(* The controllers read and write descriptors in memory while the          *)
(* processor makes the chain of another controller.                        *)
(***************************************************************************)
EXTENDS DataCache, Sequences

CONSTANTS
  Address,      \* where each descriptor begins
  Chains,       \* the chains made for each controller, the last never owned
  Waits,        \* the controllers the processor waits for once started
  Neighbours,   \* other variables in lines of the descriptors
  Failing       \* the controllers whose stream may flag an error

Located == DOMAIN Address
Controllers == DOMAIN Chains
first(d) == Address[d]
control(d) == Address[d] + 1

\* The descriptors that are made; the last of a chain is only released.
Inner == {d \in Located : \E c \in Controllers : \E links \in Chains[c] :
                               \E k \in 1..(Len(links) - 1) : d = links[k]}

\* The linker gives every variable a place of its own.
ASSUME LayoutAssumption ==
  /\ \A d \in Located : Address[d] \in Addresses /\ control(d) \in Addresses
  /\ \A d, e \in Located : d # e => control(d) < Address[e] \/ control(e) < Address[d]
  /\ \A a \in Neighbours : a \in Addresses /\ \A d \in Located : a \notin {first(d), control(d)}

\* Every controller has its own descriptors, each in one place of a chain.
ASSUME ChainsAssumption ==
  \A c \in Controllers : \A links \in Chains[c] :
    /\ links \in Seq(Located) /\ Len(links) > 1
    /\ \A j, k \in 1..Len(links) : links[j] = links[k] => j = k
    /\ links[Len(links)] \notin Inner
    /\ \A e \in Controllers \ {c} : \A others \in Chains[e] :
         \A j \in 1..Len(links), k \in 1..Len(others) : links[j] # others[k]

\* The line with the control byte of a descriptor that is made holds nothing else
\* that the processor stores in the cache but, perhaps, addresses of this one.
ASSUME LinesAssumption ==
  \A d \in Inner :
    /\ \A e \in Inner \ {d} : line(control(d)) \notin {line(first(e)), line(control(e))}
    /\ \A a \in Neighbours : line(control(d)) # line(a)

VARIABLES
  place,        \* of construct_descriptor_burst
  serving, index,   \* the controller served and the place in its chain
  chains,       \* the chain of each controller
  nextControl,  \* next->control, once it has been read
  given,        \* the addresses last given to each descriptor
  running,      \* controllers that have been started
  at            \* the place in its chain a controller looks at

chainVars == <<cacheVars, place, serving, index, chains, nextControl, given, running, at>>
cpuVars == <<place, serving, index, chains, nextControl>>
engineVars == <<running, at>>

thisDesc == chains[serving][index]
nextDesc == chains[serving][index + 1]
ownedByHw(d) == memory[control(d)] = 1

-----------------------------------------------------------------------------
(* The processor.                                                          *)

\* The handlers flush all, then make the chain of a controller that has come
\* to its end or has been stopped by an error.
StartChain(c) ==
  /\ place = "idle"
  /\ c \notin running
  /\ place' = "read_next" /\ serving' = c /\ index' = 1
  /\ \E made \in Chains[c] : chains' = [chains EXCEPT ![c] = made]
  /\ alt_dcache_flush_all
  /\ UNCHANGED <<nextControl, given, engineVars>>

ReadNext ==
  /\ place = "read_next" /\ place' = "release_next"
  /\ nextControl' = seen(control(nextDesc))
  /\ Load(control(nextDesc))
  /\ UNCHANGED <<serving, chains, index, given, engineVars>>

ReleaseNext ==
  /\ place = "release_next" /\ place' = "fill"
  /\ StoreUncached(control(nextDesc), 0)
  /\ UNCHANGED <<serving, chains, index, nextControl, given, engineVars>>

Fill ==
  /\ place = "fill" /\ place' = "control"
  /\ given' = [given EXCEPT ![thisDesc] = 1 - @]
  /\ Store([a \in {first(thisDesc)} |-> 1 - given[thisDesc]])
  /\ UNCHANGED <<serving, chains, index, nextControl, engineVars>>

SetControl ==
  /\ place = "control" /\ place' = "flush"
  /\ Store([a \in {control(thisDesc)} |-> 1])
  /\ UNCHANGED <<serving, chains, index, nextControl, given, engineVars>>

\* The two lines of a descriptor that lies across them, or its only one.
Flush ==
  /\ place = "flush"
  /\ alt_dcache_flush(first(thisDesc), 2)
  /\ IF index + 1 < Len(chains[serving]) THEN place' = "read_next" /\ index' = index + 1
     ELSE place' = "start" /\ UNCHANGED index
  /\ nextControl' = 0
  /\ UNCHANGED <<serving, chains, given, engineVars>>

Start ==
  /\ place = "start"
  /\ running' = running \cup {serving}
  /\ at' = [at EXCEPT ![serving] = 1]
  /\ place' = (IF serving \in Waits THEN "wait" ELSE "idle")
  /\ UNCHANGED <<cacheVars, serving, index, chains, nextControl, given>>

\* check_descriptor_status reads past the cache.
WaitForChain ==
  /\ place = "wait" /\ ~ownedByHw(thisDesc)
  /\ place' = "idle"
  /\ UNCHANGED <<cacheVars, serving, chains, index, nextControl, given, engineVars>>

OtherStore ==
  /\ place = "idle"
  /\ \E a \in Neighbours : Store([b \in {a} |-> 0])
  /\ UNCHANGED <<cpuVars, given, engineVars>>

OtherAccess ==
  /\ Evict
  /\ UNCHANGED <<cpuVars, given, engineVars>>

Cpu == \/ \E c \in Controllers : StartChain(c)
       \/ ReadNext \/ ReleaseNext \/ Fill \/ SetControl \/ Flush \/ Start \/ WaitForChain

-----------------------------------------------------------------------------
(* The controllers.                                                        *)

current(c) == chains[c][at[c]]

\* A descriptor is fetched, moved and written back.
Process(c) ==
  /\ c \in running /\ ownedByHw(current(c))
  /\ StoreUncached(control(current(c)), 0)
  /\ at' = [at EXCEPT ![c] = @ + 1]
  /\ UNCHANGED <<cpuVars, given, running>>

\* An error stops the controller with the rest of its chain still owned.
Fail(c) ==
  /\ c \in Failing \cap running /\ ownedByHw(current(c))
  /\ StoreUncached(control(current(c)), 0)
  /\ running' = running \ {c}
  /\ UNCHANGED <<cpuVars, given, at>>

\* One that is not owned ends the chain.
Complete(c) ==
  /\ c \in running /\ ~ownedByHw(current(c))
  /\ running' = running \ {c}
  /\ UNCHANGED <<cacheVars, cpuVars, given, at>>

ChainsInit ==
  /\ CacheInit(0)
  /\ place = "idle" /\ serving \in Controllers /\ index = 1 /\ nextControl = 0
  /\ chains \in [Controllers -> UNION {Chains[c] : c \in Controllers}]
  /\ \A c \in Controllers : chains[c] \in Chains[c]
  /\ given = [d \in Located |-> 0]
  /\ running = {}
  /\ at = [c \in Controllers |-> 1]

ChainsNext == \/ Cpu \/ OtherStore \/ OtherAccess
        \/ \E c \in Controllers : Process(c) \/ Fail(c) \/ Complete(c)

ChainsSpec == ChainsInit /\ [][ChainsNext]_chainVars

-----------------------------------------------------------------------------
(* Properties.                                                             *)

ChainsTypeOK ==
  /\ CacheTypeOK({0, 1})
  /\ place \in {"idle", "read_next", "release_next", "fill", "control", "flush",
             "start", "wait"}
  /\ serving \in Controllers /\ index \in 1..Len(chains[serving])
  /\ \A c \in Controllers : chains[c] \in Chains[c]
  /\ nextControl \in {0, 1}
  /\ given \in [Located -> {0, 1}]
  /\ running \subseteq Controllers
  /\ \A c \in running : at[c] \in 1..Len(chains[c])

\* "Mark the 'next' descriptor as 'not' owned by hardware.  This prevents the
\* SGDMA controller from continuing to process the chain"
\* (altera_avalon_sgdma.c:663-667): a descriptor that has been released, by the
\* processor or by its controller, is owned again only when it is made anew.  A
\* line written back for a neighbour does not bring the bit back.
StaysReleased ==
  [][\A d \in Located :
        ~ownedByHw(d) /\ ownedByHw(d)' => place \in {"control", "flush"} /\ d = thisDesc]_chainVars

\* "if the controller already happens to be pointing at this descriptor, it
\* will not run [...] until all other descriptor information has been set up"
\* (altera_avalon_sgdma.c:696-698): the descriptor a controller looks at has
\* its new addresses once it is owned.
OwnedComplete ==
  \A c \in running : ownedByHw(current(c)) =>
    memory[first(current(c))] = given[current(c)]

\* "Flush completed buffer out of cache" (altera_avalon_sgdma.c:712-716): a
\* controller that has been started finds the whole chain owned; it leaves it
\* at the end or at an error only.
ChainWhole ==
  [][\A c \in running \ running' :
        at[c] = Len(chains[c]) \/ ownedByHw(current(c))]_chainVars

ChainsKept == [](ChainsTypeOK /\ OwnedComplete) /\ StaysReleased /\ ChainWhole
=============================================================================
