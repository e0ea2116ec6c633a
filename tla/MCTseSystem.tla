--------------------------------- MODULE MCTseSystem ---------------------------------
(***************************************************************************)
(* How a TSE system is set up, under TLC: the rows of the table, the       *)
(* profiles of the PHYs, the groups made of the rows, and the functions    *)
(* that change fields of registers.  A behaviour is of one part.           *)
(***************************************************************************)
EXTENDS TseSystem, TLC

CONSTANTS
  MaxChannels, Depths,      \* of the rows of the table
  Revisions,                \* of the PHYs
  Populated, Able,          \* MDIO addresses with a PHY, the modes of each
  MaxCalls                  \* bound: functions called that change registers

Single(b) == [base |-> b, channels |-> 1, multi |-> FALSE]
Multi(b, n) == [base |-> b, channels |-> n, multi |-> TRUE]
\* Every kind of MAC, and the single ones next to each other.
OneOfEach == <<Single(10), [Single(20) EXCEPT !.channels = 0], Multi(30, 2), Single(40)>>
Neighbours == {<<10, 20>>, <<20, 10>>, <<40>>}

\* A FIFO of the firmware, and one that is too deep for 16 bits.
TwoDepths == {2048, 65536}
FourBits == 0..15

\* A gigabit PHY and one for 10 and 100, with gaps in their modes.
TwoPhys == 0 :> {"T4", "100full", "10half", "1000full"} @@ 3 :> {"100half", "10full", "10half"}

VARIABLES part, system
VARIABLES mac_registers, phy_registers, pcs_registers, todo, function, who, temp, loaded,
          saved, calls, before, addr1, disturbed

Fields == INSTANCE TseMdio WITH
  Phys <- Populated, mac <- mac_registers, phy <- phy_registers, pcs <- pcs_registers, f <- function
Table == INSTANCE TseTable
Phys == INSTANCE TseProfiles

ASSUME SetUpAssumption ==
  /\ MaxChannels \in Nat /\ Depths \subseteq Nat /\ Revisions \subseteq 0..15
  /\ ListsOfNeighbours /\ Fields!MdioAssumption

mdioVars == <<mac_registers, phy_registers, pcs_registers, todo, function, who, temp, loaded,
              saved, calls, before, addr1, disturbed>>

SomeSystem == CHOOSE s \in Table!Systems : TRUE
PartInit ==
  /\ part \in {"table", "groups", "registers"}
  /\ system \in (IF part = "table" THEN Table!Systems ELSE {SomeSystem})
  /\ SystemInit /\ Fields!MdioInit

PartNext ==
  /\ \/ part = "groups" /\ SystemNext /\ UNCHANGED mdioVars
     \/ part = "registers" /\ Fields!MdioNext /\ UNCHANGED systemVars
  /\ UNCHANGED <<part, system>>

PartSpec == PartInit /\ [][PartNext]_<<part, system, systemVars, mdioVars>>

\* The rows of the table are the same in both ways to write them, the PHYs of the
\* profiles are known, and the groups made of the table are right
\* (altera_avalon_tse_system_info.h:41-275, altera_avalon_tse.c:296-427,
\* 1121-1253, 970-1057).
TableAndGroups ==
  /\ part = "table" => Table!SameRow(system) /\ Phys!KnownPhys
  /\ GroupsRight

\* A call changes the fields it is for, in the PHY it is for, at once and without
\* a trace in MDIO_ADDR1; the MAC is on only when tse_init has set it up
\* (altera_avalon_tse.c:876-921, 1784-1935; hello_world_small.c:156-193).
FieldsAtomic == [][Fields!FieldChange]_mdioVars
======================================================================================
