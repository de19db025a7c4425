-------------------------------- MODULE Hold --------------------------------
(***************************************************************************)
(* The daemon's hold record and the pure operations of src/state.rs on it. *)
(* Instants and durations are naturals in milliseconds.  The fields that   *)
(* only feed the status display (selector, key source, fingerprint,        *)
(* last_ping, default_ttl, expires_wall) are left out: no operation reads  *)
(* them back to decide anything.                                           *)
(***************************************************************************)
EXTENDS Integers

CONSTANTS
    None,       \* Rust's Option::None
    Keygrips,   \* keygrips a signing target can resolve to
    Horizon     \* the largest representable Instant (checked_add's limit)

Modes == {"none", "session", "not_needed"}

Errors == {"ping", "renewal"}

Caches == [max_ttl : Nat, renew_at : Nat \cup {None}]

ASSUME HoldAssumption ==
    /\ Horizon \in Nat
    /\ None \notin Nat
    /\ None \notin Keygrips
    /\ None \notin Caches
    /\ None \notin Errors

Optional(S) == S \cup {None}

Holds ==
    [ enabled    : BOOLEAN,
      interval   : Nat,
      deadline   : Optional(Nat),
      next_ping  : Optional(Nat),
      last_error : Optional(Errors),
      generation : Nat,
      keygrip    : Optional(Keygrips),
      mode       : Modes,
      cache      : Optional(Caches) ]

(***************************************************************************)
(* An On request, reduced to what the daemon decides on.  "age" is the     *)
(* time between the start of the cache epoch and the activation, None when *)
(* the client reports no start (an entry that predates the activation).    *)
(* A request names a keygrip only together with its fingerprint, as the    *)
(* client's SigningTarget does.                                            *)
(***************************************************************************)
OnRequests ==
    [ interval : Nat,
      hold_for : Optional(Nat),
      mode     : Modes,
      keygrip  : Optional(Keygrips),
      max_ttl  : Optional(Nat),
      age      : Optional(Nat) ]

Default ==
    [ enabled    |-> FALSE,
      interval   |-> 300000,
      deadline   |-> None,
      next_ping  |-> None,
      last_error |-> None,
      generation |-> 0,
      keygrip    |-> None,
      mode       |-> "none",
      cache      |-> None ]

-----------------------------------------------------------------------------
(* Arithmetic on the clocks.                                               *)

Smaller(a, b) == IF a <= b THEN a ELSE b
Larger(a, b)  == IF a <= b THEN b ELSE a

SaturatingSub(a, b) == IF b <= a THEN a - b ELSE 0

CheckedAdd(a, b) == IF a + b <= Horizon THEN a + b ELSE None

(* Mutant: a renewal is due only when the entry dies.                      *)
NoMargin(max_ttl) == 0

RenewMargin(max_ttl) == Smaller(max_ttl \div 10, 60000)

(* What is left of an epoch that is "age" old when its renewal is due.     *)
RenewDelay(max_ttl, age) ==
    SaturatingSub(SaturatingSub(max_ttl, age), RenewMargin(max_ttl))

-----------------------------------------------------------------------------
(* turn_on: the checks that reject a request, and the replacement hold.    *)

Schedulable(req, now) ==
    /\ CheckedAdd(now, req.interval) # None
    /\ req.hold_for # None => CheckedAdd(now, req.hold_for) # None
    /\ (req.mode = "session" /\ req.max_ttl # None) =>
         /\ req.age # None
         /\ CheckedAdd(now, RenewDelay(req.max_ttl, req.age)) # None

NewCache(req, now) ==
    IF req.max_ttl = None
      THEN None
      ELSE [ max_ttl  |-> req.max_ttl,
             renew_at |-> IF req.mode = "session"
                            THEN Larger(now + RenewDelay(req.max_ttl, req.age),
                                        now + 1)
                            ELSE None ]

(* Mutant: a replacement hold keeps the error of the hold it replaces.     *)
TurnOnKeepsError(h, req, now) ==
    [ enabled    |-> TRUE,
      interval   |-> req.interval,
      deadline   |-> IF req.hold_for = None THEN None ELSE now + req.hold_for,
      next_ping  |-> now + req.interval,
      last_error |-> h.last_error,
      generation |-> h.generation + 1,
      keygrip    |-> req.keygrip,
      mode       |-> IF req.max_ttl = None THEN "none" ELSE req.mode,
      cache      |-> NewCache(req, now) ]

(* Mutant: a replacement keeps the generation.                             *)
TurnOnSameGeneration(h, req, now) ==
    [TurnOnKeepsError(h, req, now) EXCEPT !.last_error = None,
                                          !.generation = h.generation]

(* Mutant: a hold without a cache plan gets no mode instead of "none".     *)
TurnOnWithoutMode(h, req, now) ==
    [TurnOnKeepsError(h, req, now) EXCEPT
       !.last_error = None,
       !.mode = IF req.max_ttl = None THEN None ELSE req.mode]

TurnOn(h, req, now) ==
    [ enabled    |-> TRUE,
      interval   |-> req.interval,
      deadline   |-> IF req.hold_for = None THEN None ELSE now + req.hold_for,
      next_ping  |-> now + req.interval,
      last_error |-> None,
      generation |-> h.generation + 1,
      keygrip    |-> req.keygrip,
      mode       |-> IF req.max_ttl = None THEN "none" ELSE req.mode,
      cache      |-> NewCache(req, now) ]

TurnOff(h) ==
    [h EXCEPT !.enabled = FALSE, !.deadline = None,
              !.next_ping = None, !.cache = None]

ClearError(h) == [h EXCEPT !.last_error = None]

-----------------------------------------------------------------------------
(* due_action and next_wake.                                               *)

RenewAt(h) == IF h.cache = None THEN None ELSE h.cache.renew_at

Reached(t, now) == t # None /\ now >= t

ExpireDue(h, now) == h.enabled /\ Reached(h.deadline, now)

RenewDue(h, now) ==
    h.enabled /\ ~ExpireDue(h, now) /\ Reached(RenewAt(h), now)

PingDue(h, now) ==
    /\ h.enabled
    /\ ~ExpireDue(h, now)
    /\ ~RenewDue(h, now)
    /\ Reached(h.next_ping, now)

Scheduled(h) == {h.deadline, RenewAt(h), h.next_ping} \ {None}

(* The earliest scheduled instant after now, as a set of at most one.      *)
NextWake(h, now) ==
    LET future == IF h.enabled THEN {t \in Scheduled(h) : t > now} ELSE {}
    IN  {t \in future : \A u \in future : t <= u}

-----------------------------------------------------------------------------
(* record_ping_ok, record_renewal and record_ping_failure.                 *)

RecordPingOk(h, now) == [h EXCEPT !.next_ping = CheckedAdd(now, h.interval)]

(* Mutant: a renewal is not followed by another.                          *)
RenewedOnce(cache, now) ==
    IF cache = None THEN None ELSE [cache EXCEPT !.renew_at = None]

RenewedCache(cache, now) ==
    IF cache = None
      THEN None
      ELSE [cache EXCEPT !.renew_at =
              CheckedAdd(now, SaturatingSub(cache.max_ttl,
                                            RenewMargin(cache.max_ttl)))]

RecordRenewal(h, now) ==
    [RecordPingOk(h, now) EXCEPT !.cache = RenewedCache(h.cache, now)]

RecordPingFailure(h, reason) ==
    [TurnOff(h) EXCEPT !.last_error = reason]
=============================================================================
