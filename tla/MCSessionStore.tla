--------------------------- MODULE MCSessionStore ---------------------------
(* Collections and configurations for TLC.                                 *)
EXTENDS SessionStore

CONSTANTS c1, c2, g, h

Item(grip, form, secret) == [grip |-> grip, form |-> form, secret |-> secret]

(* Good items of both keys, a stale one of one key, a stale pair of one.   *)
MCStores ==
    { {Item(g, "plain", "right"), Item(h, "plain", "right")},
      {Item(g, "other", "wrong")},
      {Item(g, "plain", "wrong"), Item(g, "other", "wrong")} }

Switches(secret, key) == [clear_secret |-> secret, lock_key |-> key]

(* Switched on or off while the daemon ran, or unreadable at its end.      *)
MCConfigs ==
    { <<Switches(TRUE, TRUE), None>>,
      <<Switches(FALSE, FALSE), Switches(TRUE, FALSE)>>,
      <<Switches(TRUE, TRUE), Switches(FALSE, TRUE)>> }

MCClients == {c1, c2}
MCKeygrips == {g, h}
=============================================================================
