---------------------------- MODULE MCStatusView ----------------------------
(* Requests and lengths of time for TLC, in milliseconds.                  *)
EXTENDS StatusView

CONSTANT k

Request(interval, hold_for, mode, keygrip, max_ttl, age) ==
    [ interval |-> interval, hold_for |-> hold_for, mode |-> mode,
      keygrip |-> keygrip, max_ttl |-> max_ttl, age |-> age ]

(* A timed hold without a known epoch, a session hold about to be renewed, *)
(* and a key that needs no passphrase.                                     *)
MCRequests ==
    { Request(60000, 90500, "none", None, 600000, None),
      Request(45000, None, "session", k, 120000, 60000),
      Request(30500, 60000, "not_needed", k, 600000, None) }

MCKeygrips == {k}

(* On either side of the second, the half minute and the minute.           *)
MCSteps == {500, 30000}

MCJumps == {-45000, 3600000}
=============================================================================
