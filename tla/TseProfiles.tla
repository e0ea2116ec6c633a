--------------------------------- MODULE TseProfiles ---------------------------------
(***************************************************************************)
(* The PHYs the TSE driver knows (alt_tse_phy_add_profile_default): how it *)
(* finds the profile for the identification a PHY gives, and how it reads  *)
(* the link from the register the profile names, or with the function the  *)
(* profile has for that.                                                   *)
(***************************************************************************)
EXTENDS Integers, Sequences

CONSTANT Revisions          \* revisions of the PHYs

Speeds == 0..2              \* 10, 100 and 1000
Invalid == 3

\* The field of bit_length bits at lsb_num of a register.
FieldAt(data, lsb, length) == (data \div (2^lsb)) % (2^length)

-----------------------------------------------------------------------------
ByRegister(oui, model, speed, duplex) ==
  [oui |-> oui, model |-> model, status |-> 17, speed |-> speed, duplex |-> duplex, reader |-> "none"]
ByFunction(oui, model, reader) ==
  [oui |-> oui, model |-> model, status |-> 0, speed |-> 0, duplex |-> 0, reader |-> reader]

\* PEF7071_OUI and _MODEL, from the two words of its identification.
Oui(id1, id2) == id1 * 64 + FieldAt(id2, 10, 6)
Model(id2) == FieldAt(id2, 4, 6)

MV88E1111 == ByRegister(20547, 12, 14, 13)                    \* 0x005043
MV88E1145 == ByRegister(20547, 13, 14, 13)
DP83865 == ByRegister(524311, 7, 3, 1)                        \* 0x080017
DP83848C == ByFunction(524311, 9, "DP83848C_link_status_read")
PEF7071 == ByFunction(Oui(54629, 41985), Model(41985), "PEF7071_link_status_read")

pphy_profiles == <<MV88E1111, MV88E1145, DP83865, DP83848C, PEF7071>>

\* alt_tse_mac_get_phy: the first profile of the maker and the model.
Matches(profile, id1, id2) == profile.oui = Oui(id1, id2) /\ profile.model = Model(id2)
Found(id1, id2) ==
  LET those == {k \in DOMAIN pphy_profiles : Matches(pphy_profiles[k], id1, id2)} IN
  IF those = {} THEN 0 ELSE CHOOSE k \in those : \A l \in those : k <= l

-----------------------------------------------------------------------------
\* The result of getPHYSpeed for a link.
ALT_TSE_SPEED_DUPLEX(speed, duplex) ==
  duplex + (CASE speed = 2 -> 2 [] speed = 1 -> 4 [] speed = 0 -> 8 [] speed = Invalid -> 65536)

DP83848C_link_status_read(reg10) ==
  (IF FieldAt(reg10, 1, 1) = 1 THEN 8 ELSE 4) + FieldAt(reg10, 2, 1)

PEF7071_link_status_read(reg18) ==
  (CASE reg18 % 4 = 0 -> 8 [] reg18 % 4 = 1 -> 4 [] reg18 % 4 = 2 -> 2 [] reg18 % 4 = 3 -> 0)
    + FieldAt(reg18, 3, 1)

\* getPHYSpeed, when the PHY has a profile; registers are what the PHY has.
Result(profile, registers) ==
  CASE profile.reader = "DP83848C_link_status_read" -> DP83848C_link_status_read(registers[16])
    [] profile.reader = "PEF7071_link_status_read" -> PEF7071_link_status_read(registers[24])
    [] profile.reader = "none" ->
         ALT_TSE_SPEED_DUPLEX(FieldAt(registers[profile.status], profile.speed, 2),
                              FieldAt(registers[profile.status], profile.duplex, 1))

-----------------------------------------------------------------------------
(* The PHYs: their identification, and the register that tells the link,   *)
(* with other bits of it set.  The DP83848C has no gigabit.                *)

Id1(p) == p.oui \div 64
Id2(p, revision) == (p.oui % 64) * 1024 + p.model * 16 + revision
Reachable(p) == IF p = DP83848C THEN 0..1 ELSE Speeds
LinkRegister(p, speed, duplex, others) ==
  IF p \in {MV88E1111, MV88E1145}
    THEN [r \in {17} |-> speed * 16384 + duplex * 8192 + others * 1024]
  ELSE IF p = DP83865 THEN [r \in {17} |-> speed * 8 + duplex * 2 + others * 4]
  ELSE IF p = DP83848C THEN [r \in {16} |-> (1 - speed) * 2 + duplex * 4 + others]
  ELSE [r \in {24} |-> speed + duplex * 8 + others * 4]              \* PEF7071

\* A PHY of the profiles is taken for what it is, whatever its revision, and
\* its link is read as it is.
KnownPhys ==
  \A k \in DOMAIN pphy_profiles : LET p == pphy_profiles[k] IN
    /\ \A revision \in Revisions : Found(Id1(p), Id2(p, revision)) = k
    /\ \A speed \in Reachable(p), duplex \in 0..1, others \in 0..1 :
         Result(p, LinkRegister(p, speed, duplex, others)) = ALT_TSE_SPEED_DUPLEX(speed, duplex)
======================================================================================
