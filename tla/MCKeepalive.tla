---------------------------- MODULE MCKeepalive ----------------------------
(* Model values and bounds for TLC.                                        *)
EXTENDS Keepalive

(* One representative of each kind of On request the client builds: an     *)
(* ordinary hold with and without a deadline and cache policy, a session   *)
(* hold early and late in its epoch, an unprotected key; and requests the  *)
(* daemon refuses: a zero interval, a session hold without its epoch.      *)
Request(interval, hold_for, mode, keygrip, max_ttl, age) ==
    [ interval |-> interval, hold_for |-> hold_for, mode |-> mode,
      keygrip |-> keygrip, max_ttl |-> max_ttl, age |-> age ]

CONSTANTS k1, k2

MCKeygrips == {k1, k2}

OrdinaryIndefinite == Request(2, None, "none", None, None, None)
OrdinaryDeadline   == Request(2, 3, "none", k2, 10, None)
SessionLate        == Request(3, 4, "session", k1, 10, 9)
SessionEarly       == Request(2, 5, "session", k1, 10, 5)
Unprotected        == Request(2, 1, "not_needed", k2, 10, None)
ZeroInterval       == Request(0, None, "none", None, None, None)
SessionNoEpoch     == Request(2, None, "session", k1, 10, None)
SessionNoKey       == Request(2, None, "session", None, 10, 0)

MCRequests ==
    { OrdinaryIndefinite, OrdinaryDeadline, SessionLate, SessionEarly,
      Unprotected, ZeroInterval, SessionNoEpoch, SessionNoKey }
=============================================================================
