--------------------------- MODULE MCLockProtocol ---------------------------
(* Model values and symmetry for TLC.                                      *)
EXTENDS LockProtocol, TLC

CONSTANTS c1, c2, k1, k2

TwoClients == {c1, c2}
OneKey     == {k1}
TwoKeys    == {k1, k2}

(* Clients are interchangeable: they differ only in what they choose.      *)
ClientSymmetry == Permutations(TwoClients)
=============================================================================
