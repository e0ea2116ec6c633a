---------------------------------- MODULE TseSystem ----------------------------------
(***************************************************************************)
(* How the TSE driver learns which MACs and PHYs there are                 *)
(* (altera_avalon_tse.c): the application fills the table tse_mac_device   *)
(* and the list of PHY profiles, and the first call of getPHYSpeed makes   *)
(* groups of MACs of it, one for each MDIO port.  A slot of the table is   *)
(* only valid when both names of its DMA controllers could be copied.      *)
(***************************************************************************)
EXTENDS Integers, Sequences, FiniteSets

CONSTANTS
  MAXNETS,                  \* slots of tse_mac_device
  Macs,                     \* the alt_tse_system_mac of the application, in its order
  Lists,                    \* lists of bases for alt_tse_sys_enable_mdio_sharing
  Defaults, Spare,          \* profiles of the driver and of the application
  MallocMayFail

NoBase == -1
Spill == 3                  \* bound: slots written behind the table
Slots == 0..(MAXNETS + Spill - 1)
Empty == [base |-> NoBase, tx |-> FALSE, rx |-> FALSE, multi |-> FALSE, channels |-> 0,
          shared |-> FALSE, number |-> 0]

ASSUME SystemAssumption ==
  /\ MAXNETS \in Nat \ {0} /\ MallocMayFail \in BOOLEAN
  /\ Macs \in Seq([base : Nat, channels : Nat, multi : BOOLEAN])
  /\ \A k \in DOMAIN Macs : Macs[k].multi => Macs[k].channels > 0
  /\ \A list \in Lists : list \in Seq(Int)

VARIABLES
  tse_mac_device, tse_system_count, max_mac_system,
  phy_profile_count,
  pmac_groups,              \* sequence of groups, each the sequence of its slots
  grouped, place, slot,     \* is_init, where the driver is and its i
  added, known, shared,     \* history: MACs added, those of them before the first
                            \* call of getPHYSpeed, and lists accepted before it
  refused                   \* history: malloc has failed

systemVars == <<tse_mac_device, tse_system_count, max_mac_system, phy_profile_count, pmac_groups,
                grouped, place, slot, added, known, shared, refused>>
tableVars == <<tse_mac_device, tse_system_count, max_mac_system>>
groupVars == <<pmac_groups, grouped, place, slot>>

-----------------------------------------------------------------------------
(* The application.                                                        *)

\* The channels of a MAC; one that has a single channel may say 0.
Loops(m) == IF m.channels = 0 THEN 1 ELSE m.channels
Entry(m, k) == [base |-> m.base + k, tx |-> TRUE, rx |-> TRUE, multi |-> m.multi,
                channels |-> m.channels, shared |-> FALSE, number |-> 1]

\* alt_tse_system_add_sys: n channels are added, and then malloc fails for a name.
AddSys(m, n, failed) ==
  /\ place = "idle" /\ tse_system_count + Loops(m) \in Slots
  /\ (failed = "none") <=> (n = Loops(m))
  /\ LET half == [Entry(m, n) EXCEPT !.tx = (failed = "rx"), !.rx = FALSE]
         end == tse_system_count + n IN
     /\ tse_mac_device' =
          [s \in Slots |->
             IF s \in tse_system_count..(end - 1) THEN Entry(m, s - tse_system_count)
             ELSE IF s = end /\ failed # "none" THEN half
             ELSE tse_mac_device[s]]
     /\ tse_system_count' = end
     /\ max_mac_system' = IF n > 0 THEN end ELSE max_mac_system
  /\ added' = IF failed = "none" THEN added + 1 ELSE added
  /\ refused' = (refused \/ failed # "none")
  /\ UNCHANGED <<phy_profile_count, groupVars, known, shared>>

\* A MAC is added again until it is there.
AddNext ==
  /\ added < Len(Macs)
  /\ LET m == Macs[added + 1] IN \E n \in 0..Loops(m) :
    \E failed \in IF MallocMayFail THEN {"none", "tx", "rx"} ELSE {"none"} : AddSys(m, n, failed)

\* alt_tse_sys_enable_mdio_sharing: a multi-channel MAC in the list is an error,
\* and the ones before it stay changed.
Refused(list) ==
  {k \in DOMAIN list : \E s \in 0..(max_mac_system - 1) :
     tse_mac_device[s].base = list[k] /\ tse_mac_device[s].multi}
EnableSharing(list) ==
  /\ place = "idle" /\ \A k \in DOMAIN list : \E s \in Slots : tse_mac_device[s].base = list[k]
  /\ LET taken == {list[k] : k \in {l \in DOMAIN list : \A r \in Refused(list) : l < r}} IN
     tse_mac_device' =
       [s \in Slots |-> IF s < max_mac_system /\ tse_mac_device[s].base \in taken
                          THEN [tse_mac_device[s] EXCEPT !.shared = TRUE, !.number = Len(list)]
                          ELSE tse_mac_device[s]]
  /\ shared' = IF Refused(list) = {} /\ ~grouped THEN shared \cup {list} ELSE shared
  /\ UNCHANGED <<tse_system_count, max_mac_system, phy_profile_count, groupVars, added,
                 known, refused>>

\* alt_tse_phy_add_profile
AddProfile ==
  /\ place = "idle" /\ ~grouped /\ phy_profile_count < Spare
  /\ phy_profile_count' = phy_profile_count + 1
  /\ UNCHANGED <<tableVars, groupVars, added, known, shared, refused>>

-----------------------------------------------------------------------------
(* alt_tse_phy_init, once: the default profiles, and alt_tse_mac_group_init. *)

PhyInit ==
  /\ place = "idle" /\ ~grouped
  /\ \E stored \in IF MallocMayFail THEN 0..Defaults ELSE {Defaults} :
       /\ phy_profile_count' = phy_profile_count + stored
       /\ refused' = (refused \/ stored < Defaults)
  /\ grouped' = TRUE /\ place' = "group" /\ slot' = 0 /\ pmac_groups' = <<>>
  /\ known' = added
  /\ UNCHANGED <<tableVars, added, shared>>

\* The channels of the group that begins at slot s.
Channel(s) ==
  LET e == tse_mac_device[s] IN
  IF e.multi THEN e.channels ELSE IF e.shared THEN e.number ELSE 1
\* mutant: only the name of the transmitter is looked at
DefinedTx(s) == IF s < MAXNETS THEN {tse_mac_device[s].tx} ELSE BOOLEAN
\* Behind the table lies other memory.
Defined(s) == IF s < MAXNETS THEN {tse_mac_device[s].tx /\ tse_mac_device[s].rx} ELSE BOOLEAN
GroupOf(s) == [j \in 1..Channel(s) |-> s + j - 1]

SkipSlot ==
  /\ place = "group" /\ slot < max_mac_system /\ FALSE \in Defined(slot)
  /\ slot' = slot + 1
  /\ UNCHANGED <<tableVars, phy_profile_count, pmac_groups, grouped, place, added, known,
                 shared, refused>>

\* The slot after the group.
Skip(s) == s + Channel(s)

AddGroup ==
  /\ place = "group" /\ slot < max_mac_system
  /\ \A s \in slot..(slot + Channel(slot) - 1) : TRUE \in Defined(s)
  /\ pmac_groups' = Append(pmac_groups, GroupOf(slot))
  /\ slot' = Skip(slot)
  /\ UNCHANGED <<tableVars, phy_profile_count, grouped, place, added, known, shared, refused>>

\* A slot of the group is not defined, or malloc fails: the caller goes on with
\* the groups there are.
GroupFails ==
  /\ place = "group" /\ slot < max_mac_system /\ TRUE \in Defined(slot)
  /\ \/ \E s \in slot..(slot + Channel(slot) - 1) : FALSE \in Defined(s)
     \/ MallocMayFail
  /\ refused' = TRUE
  /\ place' = "idle" /\ slot' = 0
  /\ UNCHANGED <<tableVars, phy_profile_count, pmac_groups, grouped, added, known, shared>>

GroupsDone ==
  /\ place = "group" /\ slot >= max_mac_system
  /\ place' = "idle" /\ slot' = 0
  /\ UNCHANGED <<tableVars, phy_profile_count, pmac_groups, grouped, added, known, shared, refused>>

-----------------------------------------------------------------------------
SystemInit ==
  /\ tse_mac_device = [s \in Slots |-> Empty]
  /\ tse_system_count = 0 /\ max_mac_system = MAXNETS
  /\ phy_profile_count = 0
  /\ pmac_groups = <<>> /\ grouped = FALSE /\ place = "idle" /\ slot = 0
  /\ added = 0 /\ known = 0 /\ shared = {} /\ refused = FALSE

SystemNext ==
  \/ AddNext \/ AddProfile \/ PhyInit
  \/ \E list \in Lists : EnableSharing(list)
  \/ SkipSlot \/ AddGroup \/ GroupFails \/ GroupsDone

SystemSpec == SystemInit /\ [][SystemNext]_systemVars

-----------------------------------------------------------------------------
(* What the application has to see to.                                     *)

Rows(k) == Loops(Macs[k])
MacsOf(list) == {list[x] : x \in DOMAIN list}

\* The MACs of the list are one behind the other in the table, from the first on.
Run(list, first) ==
  /\ first \in 1..Len(Macs) /\ Len(list) >= 1 /\ first + Len(list) - 1 <= Len(Macs)
  /\ MacsOf(list) = {Macs[k].base : k \in first..(first + Len(list) - 1)}
  /\ \A k \in first..(first + Len(list) - 1) : Macs[k].multi = FALSE /\ Rows(k) = 1

\* MACs have bases of their own, a list names single-channel neighbours, since the
\* slots that follow are taken for the group (altera_avalon_tse.c:1159), and two
\* lists the same MACs or different ones.
ListsOfNeighbours ==
  /\ \A k, l \in 1..Len(Macs) : \A c \in 0..(Rows(k) - 1), d \in 0..(Rows(l) - 1) :
       Macs[k].base + c = Macs[l].base + d => k = l /\ c = d
  /\ \A list \in Lists : \E first \in 1..Len(Macs) : Run(list, first)
  /\ \A l1, l2 \in Lists : MacsOf(l1) = MacsOf(l2) \/ MacsOf(l1) \cap MacsOf(l2) = {}

-----------------------------------------------------------------------------
SystemTypeOK ==
  /\ tse_system_count \in Slots /\ max_mac_system \in Slots
  /\ \A g \in DOMAIN pmac_groups : \A j \in DOMAIN pmac_groups[g] : pmac_groups[g][j] \in Nat
  /\ place \in {"idle", "group"} /\ slot \in Nat

\* alt_tse_get_mac_info: the first group and channel with this base, or none.
Members == {x \in (DOMAIN pmac_groups) \X (1..MAXNETS) : x[2] \in DOMAIN pmac_groups[x[1]]}
SlotAt(x) == pmac_groups[x[1]][x[2]]
Infos(base) == {x \in Members : tse_mac_device[SlotAt(x)].base = base}
Together(bases) ==
  \E g \in DOMAIN pmac_groups :
    bases = {tse_mac_device[pmac_groups[g][j]].base : j \in DOMAIN pmac_groups[g]}

KnownMacs == {Macs[k] : k \in 1..known}
Initialised == grouped /\ place = "idle"

\* A slot is in one group at most, so alt_tse_get_mac_info and the index
\* functions that search the groups agree about a MAC.
OneGroup == \A x, y \in Members : SlotAt(x) = SlotAt(y) => x = y

\* No group holds a MAC whose DMA names are missing, whatever allocation failed
\* and whatever the application shared before and after.
Wired == \A x \in Members : SlotAt(x) < MAXNETS => Defined(SlotAt(x)) = {TRUE}

\* Every MAC added before the first call of getPHYSpeed is found by it.
AddedFound == 
  Initialised => \A m \in KnownMacs : \A k \in 0..(Loops(m) - 1) : Infos(m.base + k) # {}

\* "all multi-channel MAC form a group"
ChannelsGrouped ==
  Initialised => \A m \in KnownMacs : m.multi /\ Infos(m.base) # {} =>
                   Together({m.base + k : k \in 0..(m.channels - 1)})

\* "Enable MDIO sharing for multiple single channel MAC": MACs of a list are in a
\* group of their own if it is the only one that was accepted; a second may name some
\* of the same MACs.
SharedTogether ==
  Initialised /\ Cardinality(shared) = 1 =>
    \A list \in shared : Together({list[k] : k \in DOMAIN list})

\* The groups are sound whatever allocation failed and whatever was shared in
\* between: every slot in one group at most, and none whose DMA names are missing.
\* As long as malloc delivers and the table has room they are complete as well:
\* every MAC is found, with the channels of a multi-channel MAC and the MACs of the
\* only list kept together.
GroupsRight ==
  /\ SystemTypeOK /\ OneGroup /\ Wired
  /\ ~refused /\ tse_system_count <= MAXNETS =>
       AddedFound /\ ChannelsGrouped /\ SharedTogether
======================================================================================
