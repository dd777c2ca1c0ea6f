---------------------------- MODULE MCClientLookup -----------------------------
(* Instances of ClientLookup for TLC: two nicks, one of which may contain "OK". *)
EXTENDS ClientLookup, TLC

CONSTANTS rose, brook

Nicks == {rose, brook}

\* The two nicks are interchangeable in a run where neither contains "OK".
Swaps == Permutations(Nicks)
=============================================================================
