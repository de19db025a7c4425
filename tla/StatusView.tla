----------------------------- MODULE StatusView -----------------------------
(***************************************************************************)
(* What `keyhold status` shows of a hold while it runs, is replaced, fails *)
(* and ends: the snapshot the daemon takes under its mutex, the live state *)
(* of the key the client asks for next, and the rows it prints last        *)
(* (src/state.rs, src/main.rs, src/presentation.rs).  Instants are read    *)
(* from two clocks; the wall clock may be set at any moment.               *)
(***************************************************************************)
EXTENDS Hold

CONSTANTS
    NoDeadline, \* the words shown for a hold without one
    Requests,   \* the On requests that are tried
    Steps,      \* the lengths of time that pass, in ms
    Jumps,      \* by how much the wall clock may be set
    Ticks,      \* bound: how often time passes or the clock is set
    Turns,      \* bound: how many holds there are
    Boot        \* the wall-clock time when the daemon starts

ASSUME StatusViewAssumption ==
    /\ Requests \subseteq OnRequests
    /\ Steps \subseteq Nat \ {0}
    /\ Jumps \subseteq Int
    /\ {Ticks, Turns, Boot} \subseteq Nat
    /\ \A req \in Requests :
         req.mode = "session" => req.keygrip # None

VARIABLES
    now,        \* Instant::now()
    wall,       \* SystemTime::now()
    ticks,      \* what is left of Ticks
    hold,       \* the daemon's hold
    kept,       \* its fields that only feed the display
    uses,       \* wall-clock times of the current hold's key uses
    data,       \* the snapshot a status command has received, or None
    shown       \* the rows the last one printed, for the next to differ from:
                \* of which hold they are, and the time remaining

vars == <<now, wall, ticks, hold, kept, uses, data, shown>>

(* last_ping and CacheState.expires_wall; the fingerprint comes and goes   *)
(* with the keygrip.                                                       *)
NothingKept == [last_ping |-> None, expires |-> None]

Init ==
    /\ now = 0
    /\ wall = Boot
    /\ ticks = Ticks
    /\ hold = Default
    /\ kept = NothingKept
    /\ uses = {}
    /\ data = None
    /\ shown = [of |-> 0, remaining |-> None]

-----------------------------------------------------------------------------
(* The clocks.                                                             *)

Clocks == <<now, wall, ticks>>
Seen == <<data, shown>>

Tick(d) ==
    /\ ticks > 0
    /\ ticks' = ticks - 1
    /\ now' = now + d
    /\ wall' = wall + d
    /\ UNCHANGED <<hold, kept, uses, Seen>>

SetClock(j) ==
    /\ ticks > 0
    /\ ticks' = ticks - 1
    /\ wall' = wall + j
    /\ UNCHANGED <<now, hold, kept, uses, Seen>>

-----------------------------------------------------------------------------
(* The hold; when the scheduler acts is Keepalive's.                       *)

(* The activation counts as the first use; the epoch began "age" before.   *)
KeptAtOn(req) ==
    [ last_ping |-> wall,
      expires   |-> IF req.max_ttl = None \/ req.age = None
                      THEN None ELSE wall - req.age + req.max_ttl ]

On(req) ==
    /\ hold.generation < Turns
    /\ req.interval > 0
    /\ Schedulable(req, now)
    /\ hold' = TurnOn(hold, req, now)
    /\ kept' = KeptAtOn(req)
    /\ uses' = {wall}
    /\ UNCHANGED <<Clocks, Seen>>

(* turn_off leaves last_ping; the epoch goes with the cache.               *)
Ends(h) ==
    /\ hold' = h
    /\ kept' = [kept EXCEPT !.expires = None]
    /\ UNCHANGED <<Clocks, uses, Seen>>

Off == Ends(ClearError(TurnOff(hold)))

Expire == ExpireDue(hold, now) /\ Ends(TurnOff(hold))

PingFails == PingDue(hold, now) /\ Ends(RecordPingFailure(hold, "ping"))

PingSucceeds ==
    /\ PingDue(hold, now)
    /\ hold' = RecordPingOk(hold, now)
    /\ kept' = [kept EXCEPT !.last_ping = wall]
    /\ uses' = uses \cup {wall}
    /\ UNCHANGED <<Clocks, Seen>>

Renew ==
    /\ RenewDue(hold, now)
    /\ hold' = RecordRenewal(hold, now)
    /\ kept' = [last_ping |-> wall, expires |-> wall + hold.cache.max_ttl]
    /\ uses' = uses \cup {wall}
    /\ UNCHANGED <<Clocks, Seen>>

-----------------------------------------------------------------------------
(* Hold::status(): the snapshot.                                           *)

(* Mutant: the time left is read off the wall clock.                       *)
RemainingByWall(h) ==
    IF h.deadline = None THEN None
                         ELSE SaturatingSub(h.deadline, wall - Boot)

Remaining(h) ==
    IF h.deadline = None THEN None ELSE SaturatingSub(h.deadline, now)

(* An Instant ahead in wall-clock time, at the least now.                  *)
OnTheWall(t) == IF t = None THEN None ELSE wall + SaturatingSub(t, now)

Status(h) ==
    [ on        |-> h.enabled,
      keygrip   |-> h.keygrip,
      mode      |-> h.mode,
      max_ttl   |-> IF h.cache = None THEN None ELSE h.cache.max_ttl,
      expires   |-> kept.expires,
      remaining |-> Remaining(h),
      last_ping |-> kept.last_ping,
      next_ping |-> OnTheWall(h.next_ping),
      error     |-> h.last_error ]

(* With the snapshot goes what it was taken of, for the properties.        *)
Query ==
    /\ data = None
    /\ data' = [view |-> Status(hold), hold |-> hold, uses |-> uses,
                offset |-> wall - now]
    /\ UNCHANGED <<Clocks, hold, kept, uses, shown>>

-----------------------------------------------------------------------------
(* key_state_row() and credential_row_with(): the agent and the store are  *)
(* asked at command time, of the snapshot's key, and may not answer.       *)

KeyStateRows(d) ==
    IF d.keygrip = None
      THEN {None}
      ELSE {None, "unlocked", "locked", "unlocked (unprotected)", "unknown"}

CredentialRows(d) ==
    CASE d.keygrip = None -> {None}
      [] d.keygrip # None /\ d.mode = "not_needed" -> {"not needed"}
      [] d.keygrip # None /\ d.mode = "session" ->
           {"session stored", "missing", "unavailable"}
      [] d.keygrip # None /\ d.mode = "none" -> {"not in use"}

-----------------------------------------------------------------------------
(* presentation: durations as shown, in seconds, and the rows.             *)

Rounded(ms) == (ms + 500) \div 1000

Since(t) == IF t = None THEN None ELSE Rounded(SaturatingSub(wall, t))
Until(t) == IF t = None THEN None ELSE Rounded(SaturatingSub(t, wall))

(* From a minute on to the nearest minute, below that seconds up to 59.    *)
ShownRemaining(ms) ==
    CASE ms = None -> NoDeadline
      [] ms # None /\ ms >= 60000 -> ((ms + 30000) \div 60000) * 60
      [] ms # None /\ ms < 60000 -> Smaller(Rounded(ms), 59)

(* An epoch that is not known is shown as unknown, left = None.            *)
MaxExpiry(d) ==
    [ left       |-> Until(d.expires),
      auto_renew |-> d.expires # None /\ d.mode = "session" ]

When(given, value) == IF given THEN value ELSE None

(* A row that is not printed is None.                                      *)
StatusRows(d, key_state, credential) ==
    LET known == d.on \/ d.keygrip # None
    IN  [ hold       |-> IF d.on THEN "on" ELSE "off",
          key        |-> When(known, "a key"),
          key_state  |-> When(known, key_state),
          credential |-> When(known, credential),
          max_ttl    |-> When(d.on, d.max_ttl),
          max_expiry |-> When(d.on /\ d.max_ttl # None, MaxExpiry(d)),
          remaining  |-> When(d.on, ShownRemaining(d.remaining)),
          last_ping  |-> When(d.on, Since(d.last_ping)),
          next_ping  |-> When(d.on, Until(d.next_ping)),
          error      |-> d.error ]

(* The rows of a snapshot, were they printed now.                          *)
RowsNow(d) ==
    { StatusRows(d, key_state, credential) :
        key_state \in KeyStateRows(d), credential \in CredentialRows(d) }

Show ==
    /\ data # None
    /\ \E rows \in RowsNow(data.view) :
         shown' = [of |-> data.hold.generation, remaining |-> rows.remaining]
    /\ data' = None
    /\ UNCHANGED <<Clocks, hold, kept, uses>>

-----------------------------------------------------------------------------
Next ==
    \/ \E d \in Steps : Tick(d)
    \/ \E j \in Jumps : SetClock(j)
    \/ \E req \in Requests : On(req)
    \/ Off \/ Expire \/ PingFails \/ PingSucceeds \/ Renew
    \/ Query \/ Show

Spec == Init /\ [][Next]_vars

-----------------------------------------------------------------------------
(* Properties.                                                             *)

(* Of two statuses of one hold the later never shows more time remaining,  *)
(* however the clock is set and although minutes are rounded to the        *)
(* nearest and seconds are not.                                            *)
RemainingNeverGrows ==
    [][ ( /\ Show
          /\ shown'.of = shown.of
          /\ {shown.remaining, shown'.remaining} \cap {None, NoDeadline} = {} )
        => shown'.remaining <= shown.remaining ]_vars

(* The last use a status shows is one of this hold's own key, its          *)
(* activation's or the daemon's, never one of the hold it replaced.        *)
LastPingIsOwn ==
    (data # None /\ data.view.on) => data.view.last_ping \in data.uses

(* Whether the rows promise that the passphrase is given again in time.    *)
Promises(rows) == rows.max_expiry # None /\ rows.max_expiry.auto_renew

(* A status that promises a renewal is of a hold that has one scheduled.   *)
AutoRenewIsScheduled ==
    data # None =>
      \A rows \in RowsNow(data.view) :
        Promises(rows) => RenewAt(data.hold) # None

(* The rows of one status, read at three moments from three sources, do    *)
(* not contradict one another: no error beside a hold that is on, no       *)
(* countdown beside one that is off, and a promised renewal goes with a    *)
(* credential that is or should be stored.                                 *)
RowsAgree ==
    data # None =>
      \A rows \in RowsNow(data.view) :
        /\ rows.hold = "on" => rows.error = None
        /\ rows.hold = "off" =>
             {rows.max_expiry, rows.remaining, rows.next_ping} = {None}
        /\ Promises(rows) =>
             rows.credential \in {"session stored", "missing", "unavailable"}

(* The time to the next ping is right to half a second when it is printed, *)
(* wherever the wall clock stands, unless the clock is set while the       *)
(* status is under way.                                                    *)
NextPingHonest ==
    (data # None /\ data.offset = wall - now) =>
      \A rows \in RowsNow(data.view) :
        rows.next_ping # None =>
          LET left == SaturatingSub(data.hold.next_ping, now)
          IN  /\ 1000 * rows.next_ping <= left + 500
              /\ left <= 1000 * rows.next_ping + 500

(* A status, put together from the daemon, the agent and the store while   *)
(* holds and clocks change, is true of the hold it was taken of.           *)
StatusIsTrue ==
    /\ LastPingIsOwn
    /\ AutoRenewIsScheduled
    /\ RowsAgree
    /\ NextPingHonest
=============================================================================
