----------------------------- MODULE MCChatClients -----------------------------
(* Instances of ChatClients for TLC: who writes to whom. *)
EXTENDS ChatClients

CONSTANTS a, b

OneWay  == {<<a, b>>}
BothWays == {<<a, b>>, <<b, a>>}
Nobody  == {}
BBlocksA == {<<b, a>>}
UpTo(n)  == [pair \in MayWrite |-> n]
One      == UpTo(1)
Two      == UpTo(2)
Three    == UpTo(3)
TwoAndOne == [pair \in MayWrite |-> IF pair = <<a, b>> THEN 2 ELSE 1]
=============================================================================
