---------------------------- MODULE MCCacheTiming ----------------------------
(* Plans and bounds for TLC.                                               *)
EXTENDS CacheTiming

Plan(mode, interval, hold_for) ==
    [mode |-> mode, interval |-> interval, hold_for |-> hold_for]

(* A session hold, an ordinary hold within the lifetimes, and one beyond   *)
(* them: its pings come too late and it asks for the hard maximum.         *)
MCPlans ==
    { Plan("session", 12, None), Plan("none", 12, 14), Plan("none", 16, 30) }

MCKeygrips == {"gpg"}
MCJumps == {-3, 4}
=============================================================================
