---------------------------- MODULE HoldContract ----------------------------
(***************************************************************************)
(* What the daemon promises about its hold, without clocks, threads or     *)
(* gpg: when a hold may begin, what may end it, and whose error it keeps.  *)
(* src/daemon.rs keeps this promise through unlocked windows, late results *)
(* and replacements; here every step is one indivisible change.            *)
(***************************************************************************)
EXTENDS Integers

CONSTANTS
    None,       \* no error
    Errors      \* what a hold can fail with

VARIABLES
    on,         \* a hold is active
    epoch,      \* activations accepted so far
    error,      \* the failure that ended the last hold, until acknowledged
    open,       \* requests are admitted: no shutdown has been accepted
    locked      \* a lock is being carried out

vars == <<on, epoch, error, open, locked>>

Init ==
    /\ on = FALSE
    /\ epoch = 0
    /\ error = None
    /\ open = TRUE
    /\ locked = FALSE

(* A hold begins or is replaced: never during a lock, never after the end. *)
Activate ==
    /\ open
    /\ ~locked
    /\ on' = TRUE
    /\ epoch' = epoch + 1
    /\ error' = None
    /\ UNCHANGED <<open, locked>>

(* The hold ends and whatever it failed with is acknowledged.              *)
Acknowledge ==
    /\ open
    /\ on' = FALSE
    /\ error' = None
    /\ UNCHANGED <<epoch, open, locked>>

(* The same, and the key is being locked from now on.                      *)
Lock ==
    /\ open
    /\ ~locked
    /\ on' = FALSE
    /\ error' = None
    /\ locked' = TRUE
    /\ UNCHANGED <<epoch, open>>

Unlock ==
    /\ locked
    /\ locked' = FALSE
    /\ UNCHANGED <<on, epoch, error, open>>

(* The deadline is reached.                                                *)
Expire ==
    /\ on
    /\ on' = FALSE
    /\ UNCHANGED <<epoch, error, open, locked>>

(* A ping or a renewal of this very hold failed.                           *)
Fail ==
    /\ on
    /\ on' = FALSE
    /\ error' \in Errors
    /\ UNCHANGED <<epoch, open, locked>>

Close ==
    /\ open
    /\ open' = FALSE
    /\ UNCHANGED <<on, epoch, error, locked>>

Next ==
    \/ Activate
    \/ Acknowledge
    \/ Lock
    \/ Unlock
    \/ Expire
    \/ Fail
    \/ Close

Spec == Init /\ [][Next]_vars
=============================================================================
