-------------------------- MODULE MCDaemonLifecycle --------------------------
(* Model values for TLC.                                                   *)
EXTENDS DaemonLifecycle, TLC

CONSTANTS d1, d2, s1, l1, a1, a2

TwoDaemons    == {d1, d2}
OneStopper    == {s1}
OneLocker     == {l1}
TwoActivators == {a1, a2}
Nobody        == {}

=============================================================================
