---------------------------------- MODULE MCTsePhy ----------------------------------
(* A group of two MACs on an MDIO port with up to three PHYs.                *)
EXTENDS TsePhy

All == Modes \ {<<2, Half>>}
Fast == {m \in Modes : m[1] # 2}
Phy(profile, able, own, partner) ==
  [profile |-> profile, able |-> able, own |-> own, partner |-> partner]

Gigabit == Phy("status", TRUE, All, All)
Slower == Phy("status", TRUE, All, {<<1, Half>>, <<0, Full>>})
FastOnly == Phy("status", TRUE, Fast, All)
Reader == Phy("reader", TRUE, Fast, All)
Unknown == Phy("unknown", TRUE, All, All)
Fixed == Phy("status", FALSE, Fast, All)

At(p, q, r) == [a \in Addr |-> CASE a = 0 -> p [] a = 1 -> q [] a = 2 -> r]
Kinds ==
  {At(Gigabit, Slower, Absent), At(FastOnly, Gigabit, Slower), At(Reader, Fixed, Unknown)}

AutoAndNamed == {[m \in Mac |-> AUTO_ADDRESS], [m \in Mac |-> IF m = 1 THEN AUTO_ADDRESS ELSE 0]}
MixedTypes == {<<"10_100", "full">>}
=====================================================================================
