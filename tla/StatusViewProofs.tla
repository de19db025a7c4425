-------------------------- MODULE StatusViewProofs --------------------------
(***************************************************************************)
(* Theorems about StatusView, for all requests, lengths of time and jumps  *)
(* of the wall clock, and any number of holds and ticks.                   *)
(***************************************************************************)
EXTENDS StatusView, TLAPS

(***************************************************************************)
(* The inductive invariant.                                                *)
(***************************************************************************)

TypeInv ==
    /\ now \in Nat /\ wall \in Int /\ ticks \in Nat
    /\ hold \in Holds
    /\ kept \in [last_ping : Optional(Int), expires : Optional(Int)]
    /\ data # None => data.hold \in Holds /\ data.offset \in Int
    /\ shown.of \in Nat

(* The last use on record is one of this hold's, and a hold that is on has *)
(* no error.                                                               *)
UseInv ==
    hold.enabled => kept.last_ping \in uses /\ hold.last_error = None

(* Instant n, the snapshot's, ahead of which its next ping was placed.     *)
TakenAt(n) ==
    /\ n <= now
    /\ data.view.next_ping =
         IF data.hold.next_ping = None
           THEN None
           ELSE (n + data.offset) + SaturatingSub(data.hold.next_ping, n)

(* So it was when the snapshot was taken.                                  *)
DataInv ==
    data # None =>
      /\ data.view.on => data.view.last_ping \in data.uses
                         /\ data.view.error = None
      /\ \E n \in Nat : TakenAt(n)

(* Generations only grow.                                                  *)
TurnInv ==
    /\ shown.of <= hold.generation
    /\ data # None => /\ shown.of <= data.hold.generation
                      /\ data.hold.generation <= hold.generation

(* What was shown is a count of seconds.                                   *)
Counted == shown.remaining \notin {None, NoDeadline}

(* A status of the hold that was shown last would not show more time now.  *)
CountInv ==
    Counted /\ shown.of = hold.generation /\ hold.deadline # None =>
      /\ shown.remaining \in Nat
      /\ ShownRemaining(Remaining(hold)) <= shown.remaining

(* Nor does the one that is on its way, which is not behind the hold.      *)
WayInv ==
    data # None =>
      /\ data.view.remaining \in Optional(Nat)
      /\ data.hold.generation = hold.generation /\ hold.deadline # None =>
           /\ data.view.remaining # None
           /\ Remaining(hold) <= data.view.remaining
      /\ (/\ Counted
          /\ shown.of = data.hold.generation
          /\ data.view.remaining # None) =>
           /\ shown.remaining \in Nat
           /\ ShownRemaining(data.view.remaining) <= shown.remaining

IInv == TypeInv /\ UseInv /\ DataInv /\ TurnInv /\ CountInv /\ WayInv

(* A session plan is of a key and has a renewal scheduled.                 *)
PlanInv ==
    /\ hold.mode = "session" /\ hold.cache # None =>
         RenewAt(hold) # None /\ hold.keygrip # None
    /\ data # None =>
         (data.view.mode = "session" /\ data.view.max_ttl # None =>
            RenewAt(data.hold) # None /\ data.view.keygrip # None)

(* The clock and what is left of its ticks of at most b each.              *)
RoomFor(b) ==
    /\ \A d \in Steps : d <= b
    /\ \A req \in Requests :
         req.max_ttl # None => Ticks * b + req.max_ttl <= Horizon

(* The Instants an OS can represent outlast any uptime and any max TTL.    *)
HorizonAmple == \E b \in Nat : RoomFor(b)

ClockInv(b) ==
    /\ now + ticks * b <= Ticks * b
    /\ hold.cache # None =>
         \E req \in Requests :
           req.max_ttl # None /\ hold.cache.max_ttl = req.max_ttl

(***************************************************************************)
(* The operators of Hold.                                                  *)
(***************************************************************************)

LEMMA DelayType ==
    ASSUME NEW ttl \in Nat, NEW age \in Nat
    PROVE  /\ RenewDelay(ttl, age) \in Nat
           /\ SaturatingSub(ttl, RenewMargin(ttl)) \in Nat
           /\ SaturatingSub(ttl, RenewMargin(ttl)) <= ttl
  <1>1. ttl \div 10 \in Nat
    OBVIOUS
  <1>2. RenewMargin(ttl) \in Nat
    BY <1>1 DEF RenewMargin, Smaller
  <1>3. SaturatingSub(ttl, age) \in Nat
    BY DEF SaturatingSub
  <1>4. QED
    BY <1>2, <1>3 DEF RenewDelay, SaturatingSub

(* What a request that is admitted turns on.                               *)
LEMMA TurnedOn ==
    ASSUME NEW h \in Holds, NEW req \in OnRequests, NEW t \in Nat,
           Schedulable(req, t)
    PROVE  /\ TurnOn(h, req, t) \in Holds
           /\ TurnOn(h, req, t).last_error = None
           /\ TurnOn(h, req, t).generation = h.generation + 1
           /\ TurnOn(h, req, t).keygrip = req.keygrip
           /\ TurnOn(h, req, t).mode = "session" => req.mode = "session"
           /\ TurnOn(h, req, t).cache # None =>
                /\ req.max_ttl # None
                /\ TurnOn(h, req, t).cache.max_ttl = req.max_ttl
                /\ req.mode = "session" => RenewAt(TurnOn(h, req, t)) # None
  <1> DEFINE on == TurnOn(h, req, t)
  <1>1. /\ on.enabled = TRUE /\ on.interval = req.interval
        /\ on.deadline = IF req.hold_for = None THEN None
                                                ELSE t + req.hold_for
        /\ on.next_ping = t + req.interval /\ on.last_error = None
        /\ on.generation = h.generation + 1 /\ on.keygrip = req.keygrip
        /\ on.mode = IF req.max_ttl = None THEN "none" ELSE req.mode
        /\ on.cache = NewCache(req, t)
    BY DEF TurnOn
  <1>2. /\ NewCache(req, t) \in Optional(Caches)
        /\ NewCache(req, t) # None =>
             /\ req.max_ttl # None
             /\ NewCache(req, t).max_ttl = req.max_ttl
             /\ req.mode = "session" => NewCache(req, t).renew_at # None
    <2>1. CASE req.max_ttl = None
      BY <2>1 DEF NewCache, Optional
    <2>2. CASE req.max_ttl # None /\ req.mode # "session"
      <3>1. req.max_ttl \in Nat
        BY <2>2 DEF OnRequests, Optional
      <3>2. QED
        BY <2>2, <3>1 DEF NewCache, Optional, Caches
    <2>3. CASE req.max_ttl # None /\ req.mode = "session"
      <3>1. req.max_ttl \in Nat /\ req.age \in Nat
        BY <2>3 DEF OnRequests, Optional, Schedulable
      <3>2. RenewDelay(req.max_ttl, req.age) \in Nat
        BY <3>1, DelayType
      <3>3. Larger(t + RenewDelay(req.max_ttl, req.age), t + 1) \in Nat
        BY <3>2 DEF Larger
      <3>4. QED
        BY <2>3, <3>1, <3>3, HoldAssumption DEF NewCache, Optional, Caches
    <2>4. QED
      BY <2>1, <2>2, <2>3
  <1>3. on \in Holds
    <2>1. (IF req.hold_for = None THEN None ELSE t + req.hold_for)
            \in Optional(Nat)
      BY DEF OnRequests, Optional
    <2>2. t + req.interval \in Nat /\ req.interval \in Nat
      BY DEF OnRequests
    <2>3. (IF req.max_ttl = None THEN "none" ELSE req.mode) \in Modes
      BY DEF OnRequests, Modes
    <2>4. h.generation + 1 \in Nat /\ req.keygrip \in Optional(Keygrips)
      BY DEF Holds, OnRequests
    <2>5. QED
      BY <1>2, <2>1, <2>2, <2>3, <2>4 DEF TurnOn, Holds, Optional
  <1>4. QED
    BY <1>1, <1>2, <1>3 DEF RenewAt

(* A hold that ends has no deadline and no cache, and is its old turn.     *)
LEMMA TurnedOff ==
    ASSUME NEW h \in Holds
    PROVE  /\ TurnOff(h) \in Holds
           /\ ~TurnOff(h).enabled
           /\ TurnOff(h).deadline = None /\ TurnOff(h).cache = None
           /\ TurnOff(h).generation = h.generation
  BY DEF TurnOff, Holds, Optional

LEMMA Pinged ==
    ASSUME NEW h \in Holds, NEW t \in Nat
    PROVE  LET p == RecordPingOk(h, t)
           IN  /\ p \in Holds
               /\ p.enabled = h.enabled /\ p.deadline = h.deadline
               /\ p.last_error = h.last_error
               /\ p.generation = h.generation /\ p.keygrip = h.keygrip
               /\ p.mode = h.mode /\ p.cache = h.cache
  <1>1. CheckedAdd(t, h.interval) \in Optional(Nat)
    BY DEF CheckedAdd, Holds, Optional
  <1>2. QED
    BY <1>1 DEF RecordPingOk, Holds

(* A renewal schedules the next, if the clock has room for it.             *)
LEMMA Renewed ==
    ASSUME NEW h \in Holds, NEW t \in Nat
    PROVE  LET r == RecordRenewal(h, t)
           IN  /\ r \in Holds
               /\ r.enabled = h.enabled /\ r.deadline = h.deadline
               /\ r.last_error = h.last_error
               /\ r.generation = h.generation /\ r.keygrip = h.keygrip
               /\ r.mode = h.mode
               /\ h.cache = None => r.cache = None
               /\ h.cache # None =>
                    /\ r.cache.max_ttl = h.cache.max_ttl
                    /\ t + h.cache.max_ttl <= Horizon => RenewAt(r) # None
  <1> DEFINE p == RecordPingOk(h, t)
             c == RenewedCache(h.cache, t)
             r == RecordRenewal(h, t)
  <1>1. /\ p \in Holds
        /\ p.enabled = h.enabled /\ p.deadline = h.deadline
        /\ p.last_error = h.last_error
        /\ p.generation = h.generation /\ p.keygrip = h.keygrip
        /\ p.mode = h.mode
    BY Pinged
  <1>2. /\ c \in Optional(Caches)
        /\ h.cache = None => c = None
        /\ h.cache # None =>
             /\ c # None
             /\ c.max_ttl = h.cache.max_ttl
             /\ t + h.cache.max_ttl <= Horizon => c.renew_at # None
    <2>1. CASE h.cache = None
      BY <2>1 DEF RenewedCache, Optional
    <2>2. CASE h.cache # None
      <3> DEFINE delay == SaturatingSub(h.cache.max_ttl,
                                        RenewMargin(h.cache.max_ttl))
      <3>1. h.cache \in Caches /\ h.cache.max_ttl \in Nat
        BY <2>2 DEF Holds, Optional, Caches
      <3>2. delay \in Nat /\ delay <= h.cache.max_ttl
        BY <3>1, DelayType
      <3>3. c = [h.cache EXCEPT !.renew_at = CheckedAdd(t, delay)]
        BY <2>2 DEF RenewedCache
      <3> HIDE DEF delay, c
      <3>4. /\ CheckedAdd(t, delay) \in Optional(Nat)
            /\ t + h.cache.max_ttl <= Horizon => CheckedAdd(t, delay) # None
        BY <3>1, <3>2, HoldAssumption DEF CheckedAdd, Optional
      <3>5. /\ c \in Caches /\ c.max_ttl = h.cache.max_ttl
            /\ c.renew_at = CheckedAdd(t, delay)
        BY <3>1, <3>3, <3>4 DEF Caches, Optional
      <3>6. QED
        BY <2>2, <3>4, <3>5, HoldAssumption DEF Optional
    <2>3. QED
      BY <2>1, <2>2
  <1>3. r = [p EXCEPT !.cache = c]
    BY DEF RecordRenewal
  <1> HIDE DEF p, c, r
  <1>4. /\ r \in Holds /\ r.cache = c
        /\ r.enabled = p.enabled /\ r.deadline = p.deadline
        /\ r.last_error = p.last_error
        /\ r.generation = p.generation /\ r.keygrip = p.keygrip
        /\ r.mode = p.mode
    BY <1>1, <1>2, <1>3 DEF Holds
  <1>5. QED
    BY <1>1, <1>2, <1>4 DEF r, RenewAt

(***************************************************************************)
(* Arithmetic.                                                             *)
(***************************************************************************)

LEMMA SaturatingSubType ==
    ASSUME NEW a \in Int, NEW b \in Int
    PROVE  SaturatingSub(a, b) \in Nat
  BY DEF SaturatingSub

(* What is shown of a longer time is not less, although minutes round to   *)
(* the nearest and seconds stop at 59.                                     *)
LEMMA ShownGrows ==
    ASSUME NEW a \in Nat, NEW b \in Nat, a <= b
    PROVE  /\ ShownRemaining(a) \in Nat /\ ShownRemaining(b) \in Nat
           /\ ShownRemaining(a) <= ShownRemaining(b)
  <1>1. a # None /\ b # None
    BY HoldAssumption
  <1>2. /\ Rounded(a) \in Nat /\ Rounded(b) \in Nat
        /\ Rounded(a) <= Rounded(b)
    BY DEF Rounded
  <1>3. ASSUME NEW x \in Nat, x # None
        PROVE  ShownRemaining(x) =
                 IF x >= 60000 THEN ((x + 30000) \div 60000) * 60
                               ELSE Smaller(Rounded(x), 59)
    BY <1>3 DEF ShownRemaining
  <1>4. CASE a >= 60000
    <2>1. /\ (a + 30000) \div 60000 \in Nat /\ (b + 30000) \div 60000 \in Nat
          /\ (a + 30000) \div 60000 <= (b + 30000) \div 60000
      OBVIOUS
    <2>2. QED
      BY <1>1, <1>3, <1>4, <2>1
  <1>5. CASE a < 60000 /\ b >= 60000
    <2>1. /\ (b + 30000) \div 60000 \in Nat
          /\ (b + 30000) \div 60000 >= 1
      BY <1>5
    <2>2. QED
      BY <1>1, <1>2, <1>3, <1>5, <2>1 DEF Smaller
  <1>6. CASE a < 60000 /\ b < 60000
    BY <1>1, <1>2, <1>3, <1>6 DEF Smaller
  <1>7. QED
    BY <1>4, <1>5, <1>6

(***************************************************************************)
(* The steps preserve the invariant.                                       *)
(***************************************************************************)

LEMMA RemainingType ==
    ASSUME TypeInv, hold.deadline # None
    PROVE  /\ hold.deadline \in Nat
           /\ Remaining(hold) = SaturatingSub(hold.deadline, now)
           /\ Remaining(hold) \in Nat
  <1>1. hold.deadline \in Nat /\ now \in Nat
    BY DEF TypeInv, Holds, Optional
  <1>2. Remaining(hold) = SaturatingSub(hold.deadline, now)
    BY DEF Remaining
  <1>3. SaturatingSub(hold.deadline, now) \in Nat
    BY <1>1 DEF SaturatingSub
  <1>4. QED
    BY <1>1, <1>2, <1>3

LEMMA InitInv == Init => IInv
  <1> SUFFICES ASSUME Init
               PROVE  IInv
    OBVIOUS
  <1>1. hold \in Holds /\ ~hold.enabled /\ hold.generation = 0
        /\ hold.deadline = None
    BY DEF Init, Default, Holds, Optional, Modes
  <1>2. kept \in [last_ping : Optional(Int), expires : Optional(Int)]
    BY DEF Init, NothingKept, Optional
  <1>3. QED
    BY <1>1, <1>2, StatusViewAssumption
    DEF Init, IInv, TypeInv, UseInv, DataInv, TurnInv, CountInv, WayInv

(* A step of the hold that neither replaces it nor gives it more time.     *)
LEMMA SameTurn ==
    ASSUME IInv, hold' \in Holds,
           hold'.generation = hold.generation,
           hold'.deadline \in {hold.deadline, None},
           UNCHANGED <<Clocks, Seen>>
    PROVE  DataInv' /\ TurnInv' /\ CountInv' /\ WayInv'
  <1>1. UNCHANGED <<now, wall, ticks, data, shown>>
    BY DEF Clocks, Seen
  <1>2. DataInv' /\ TurnInv'
    BY <1>1 DEF IInv, DataInv, TakenAt, TurnInv
  <1>3. hold'.deadline # None => /\ hold'.deadline = hold.deadline
                                 /\ Remaining(hold)' = Remaining(hold)
    BY <1>1 DEF Remaining
  <1>4. Counted' = Counted
    BY <1>1 DEF Counted
  <1>5. CountInv'
    BY <1>1, <1>3, <1>4 DEF IInv, CountInv
  <1>6. WayInv'
    BY <1>1, <1>3, <1>4 DEF IInv, WayInv
  <1>7. QED
    BY <1>2, <1>5, <1>6

LEMMA EndsInv ==
    ASSUME IInv, NEW h \in Holds, ~h.enabled, h.deadline = None,
           h.generation = hold.generation, Ends(h)
    PROVE  IInv'
  <1>1. hold' = h /\ UNCHANGED <<Clocks, Seen>>
    BY DEF Ends, Seen
  <1>2. DataInv' /\ TurnInv' /\ CountInv' /\ WayInv'
    BY <1>1, SameTurn
  <1>3. kept' \in [last_ping : Optional(Int), expires : Optional(Int)]
    BY DEF Ends, IInv, TypeInv, Optional
  <1>4. QED
    BY <1>1, <1>2, <1>3 DEF IInv, TypeInv, UseInv, Clocks, Seen

LEMMA UseStepInv ==
    ASSUME IInv, PingSucceeds \/ Renew
    PROVE  IInv'
  <1>1. /\ hold' \in Holds
        /\ hold'.enabled = hold.enabled /\ hold'.deadline = hold.deadline
        /\ hold'.last_error = hold.last_error
        /\ hold'.generation = hold.generation
    <2>1. hold \in Holds /\ now \in Nat
      BY DEF IInv, TypeInv
    <2>2. CASE PingSucceeds
      BY <2>1, <2>2, Pinged DEF PingSucceeds
    <2>3. CASE Renew
      BY <2>1, <2>3, Renewed DEF Renew
    <2>4. QED
      BY <2>2, <2>3
  <1>2. UNCHANGED <<Clocks, Seen>> /\ uses' = uses \cup {wall}
    BY DEF PingSucceeds, Renew
  <1>3. /\ kept' \in [last_ping : Optional(Int), expires : Optional(Int)]
        /\ kept'.last_ping = wall
    <2>1. CASE PingSucceeds
      BY <2>1 DEF PingSucceeds, IInv, TypeInv, Optional
    <2>2. CASE Renew
      <3>1. hold.cache # None
        BY <2>2 DEF Renew, RenewDue, Reached, RenewAt
      <3>2. hold.cache.max_ttl \in Nat
        BY <3>1 DEF IInv, TypeInv, Holds, Optional, Caches
      <3>3. wall + hold.cache.max_ttl \in Int /\ wall \in Int
        BY <3>2 DEF IInv, TypeInv
      <3>4. QED
        BY <2>2, <3>3 DEF Renew, Optional
    <2>3. QED
      BY <2>1, <2>2
  <1>4. DataInv' /\ TurnInv' /\ CountInv' /\ WayInv'
    BY <1>1, <1>2, SameTurn
  <1>5. QED
    BY <1>1, <1>2, <1>3, <1>4 DEF IInv, TypeInv, UseInv, Clocks, Seen

LEMMA OnInv ==
    ASSUME IInv, NEW req \in Requests, On(req)
    PROVE  IInv'
  <1>1. /\ hold' \in Holds /\ hold'.last_error = None
        /\ hold'.generation = hold.generation + 1
    BY TurnedOn, StatusViewAssumption DEF On, IInv, TypeInv
  <1>2. UNCHANGED <<now, wall, ticks, data, shown>>
    BY DEF On, Clocks, Seen
  <1>3. /\ kept' \in [last_ping : Optional(Int), expires : Optional(Int)]
        /\ kept'.last_ping \in uses'
    <2>1. req.max_ttl # None /\ req.age # None =>
            wall - req.age + req.max_ttl \in Int
      BY StatusViewAssumption DEF OnRequests, Optional, IInv, TypeInv
    <2>2. QED
      BY <2>1 DEF On, KeptAtOn, Optional, IInv, TypeInv
  <1>4. hold.generation \in Nat
    BY DEF IInv, TypeInv, Holds
  <1>5. data # None => data.hold.generation \in Nat
    BY DEF IInv, TypeInv, Holds
  <1>6. /\ TurnInv'
        /\ shown'.of # hold'.generation
        /\ data # None => data.hold.generation # hold'.generation
    BY <1>1, <1>2, <1>4, <1>5 DEF IInv, TypeInv, TurnInv
  <1>7. CountInv' /\ WayInv'
    <2>1. Counted' = Counted
      BY <1>2 DEF Counted
    <2>2. CountInv'
      BY <1>6 DEF CountInv
    <2>3. WayInv'
      BY <1>2, <1>6, <2>1 DEF IInv, WayInv
    <2>4. QED
      BY <2>2, <2>3
  <1>8. DataInv'
    BY <1>2 DEF IInv, DataInv, TakenAt
  <1>9. QED
    <2>1. TypeInv'
      BY <1>1, <1>2, <1>3 DEF IInv, TypeInv
    <2>2. UseInv'
      BY <1>1, <1>3 DEF UseInv
    <2>3. QED
      BY <2>1, <2>2, <1>6, <1>7, <1>8 DEF IInv

LEMMA ClockStepInv ==
    ASSUME IInv,
           (\E d \in Steps : Tick(d)) \/ (\E j \in Jumps : SetClock(j))
    PROVE  IInv'
  <1>1. /\ now' \in Nat /\ now <= now' /\ wall' \in Int /\ ticks' \in Nat
        /\ UNCHANGED <<hold, kept, uses, data, shown>>
    BY StatusViewAssumption DEF IInv, TypeInv, Tick, SetClock, Seen
  <1>2. DataInv'
    <2>1. ASSUME NEW n \in Nat, TakenAt(n)
          PROVE  TakenAt(n)'
      BY <1>1, <2>1 DEF TakenAt, IInv, TypeInv
    <2>2. QED
      BY <1>1, <2>1 DEF IInv, DataInv
  <1>3. TypeInv' /\ UseInv' /\ TurnInv'
    BY <1>1 DEF IInv, TypeInv, UseInv, TurnInv
  <1>4. hold.deadline # None =>
          /\ Remaining(hold) \in Nat /\ Remaining(hold)' \in Nat
          /\ Remaining(hold)' <= Remaining(hold)
    <2>1. SUFFICES ASSUME hold.deadline # None
                   PROVE  /\ Remaining(hold) \in Nat
                          /\ Remaining(hold)' \in Nat
                          /\ Remaining(hold)' <= Remaining(hold)
      OBVIOUS
    <2>2. /\ hold.deadline \in Nat /\ Remaining(hold) \in Nat
          /\ Remaining(hold) = SaturatingSub(hold.deadline, now)
      BY <2>1, RemainingType DEF IInv
    <2>3. Remaining(hold)' = SaturatingSub(hold.deadline, now')
      BY <1>1, <2>1 DEF Remaining
    <2>4. QED
      BY <1>1, <2>2, <2>3 DEF SaturatingSub, IInv, TypeInv
  <1>5. hold.deadline # None =>
          /\ ShownRemaining(Remaining(hold)) \in Nat
          /\ ShownRemaining(Remaining(hold)') \in Nat
          /\ ShownRemaining(Remaining(hold)') <=
               ShownRemaining(Remaining(hold))
    BY <1>4, ShownGrows
  <1>6. CountInv'
    <2>1. SUFFICES ASSUME Counted, shown.of = hold.generation,
                          hold.deadline # None
                   PROVE  /\ shown.remaining \in Nat
                          /\ ShownRemaining(Remaining(hold)')
                               <= shown.remaining
      BY <1>1 DEF CountInv, Counted
    <2>2. /\ shown.remaining \in Nat
          /\ ShownRemaining(Remaining(hold)) <= shown.remaining
      BY <2>1 DEF IInv, CountInv
    <2>3. QED
      BY <1>5, <2>1, <2>2
  <1>7. WayInv'
    <2>1. data # None /\ data.view.remaining # None =>
            data.view.remaining \in Nat
      BY DEF IInv, WayInv, Optional
    <2>2. ASSUME data # None, hold.deadline # None,
                 data.hold.generation = hold.generation
          PROVE  /\ data.view.remaining # None
                 /\ Remaining(hold)' <= data.view.remaining
      BY <1>4, <2>1, <2>2 DEF IInv, WayInv
    <2>3. QED
      BY <1>1, <2>2 DEF IInv, WayInv, Counted
  <1>8. QED
    BY <1>2, <1>3, <1>6, <1>7 DEF IInv

LEMMA QueryInv ==
    ASSUME IInv, Query
    PROVE  IInv'
  <1>1. /\ UNCHANGED <<now, wall, ticks, hold, kept, uses, shown>>
        /\ data' = [view |-> Status(hold), hold |-> hold, uses |-> uses,
                    offset |-> wall - now]
    BY DEF Query, Clocks
  <1>2. /\ data'.view.remaining = Remaining(hold)
        /\ data'.view.on = hold.enabled
        /\ data'.view.last_ping = kept.last_ping
        /\ data'.view.error = hold.last_error
        /\ data'.view.next_ping = OnTheWall(hold.next_ping)
        /\ data'.hold = hold /\ data'.uses = uses
        /\ data'.offset = wall - now
    BY <1>1 DEF Status
  <1>3. TypeInv' /\ UseInv' /\ TurnInv' /\ CountInv'
    <2>1. wall - now \in Int /\ hold \in Holds /\ hold.generation \in Nat
      BY DEF IInv, TypeInv, Holds
    <2>2. Counted' = Counted /\ Remaining(hold)' = Remaining(hold)
      BY <1>1 DEF Counted, Remaining
    <2>3. TypeInv' /\ UseInv'
      BY <1>1, <1>2, <2>1 DEF IInv, TypeInv, UseInv
    <2>4. TurnInv'
      BY <1>1, <1>2, <2>1 DEF IInv, TurnInv
    <2>5. CountInv'
      BY <1>1, <2>2 DEF IInv, CountInv
    <2>6. QED
      BY <2>3, <2>4, <2>5
  <1>4. DataInv'
    <2>1. now \in Nat /\ wall \in Int /\ now + (wall - now) = wall
      BY DEF IInv, TypeInv
    <2>2. TakenAt(now)'
      BY <1>1, <1>2, <2>1 DEF TakenAt, OnTheWall
    <2>3. \E n \in Nat : TakenAt(n)'
      BY <1>1, <2>1, <2>2
    <2>4. QED
      BY <1>1, <1>2, <2>3 DEF IInv, DataInv, UseInv
  <1>5. WayInv'
    <2>1. Counted' = Counted /\ Remaining(hold)' = Remaining(hold)
      BY <1>1 DEF Counted, Remaining
    <2>2. hold.deadline = None => Remaining(hold) = None
      BY DEF Remaining
    <2>3. hold.deadline # None => /\ Remaining(hold) \in Nat
                                  /\ Remaining(hold) # None
                                  /\ Remaining(hold) <= Remaining(hold)
      BY RemainingType, HoldAssumption DEF IInv
    <2>4. Remaining(hold) \in Optional(Nat)
      BY <2>2, <2>3 DEF Optional
    <2>5. Counted /\ shown.of = hold.generation /\ Remaining(hold) # None =>
            /\ shown.remaining \in Nat
            /\ ShownRemaining(Remaining(hold)) <= shown.remaining
      BY <2>2 DEF IInv, CountInv
    <2>6. /\ data'.view.remaining \in Optional(Nat)
          /\ hold'.deadline # None =>
               /\ data'.view.remaining # None
               /\ Remaining(hold)' <= data'.view.remaining
      BY <1>1, <1>2, <2>1, <2>3, <2>4
    <2>7. ASSUME Counted', shown'.of = data'.hold.generation,
                 data'.view.remaining # None
          PROVE  /\ shown'.remaining \in Nat
                 /\ ShownRemaining(data'.view.remaining)
                      <= shown'.remaining
      BY <1>1, <1>2, <2>1, <2>5, <2>7
    <2>8. QED
      BY <2>6, <2>7 DEF WayInv
  <1>6. QED
    BY <1>3, <1>4, <1>5 DEF IInv

(* What is printed is counted only of a hold with a deadline.              *)
LEMMA Printed ==
    ASSUME IInv, Show
    PROVE  /\ UNCHANGED <<now, wall, ticks, hold, kept, uses>>
           /\ data # None /\ data' = None
           /\ shown'.of = data.hold.generation
           /\ Counted' =>
                /\ data.view.remaining \in Nat
                /\ data.view.remaining # None
                /\ shown'.remaining = ShownRemaining(data.view.remaining)
                /\ shown'.remaining \in Nat
  <1>1. /\ UNCHANGED <<now, wall, ticks, hold, kept, uses>>
        /\ data # None /\ data' = None
    BY DEF Show, Clocks
  <1>2. PICK rows \in RowsNow(data.view) :
          shown' = [of |-> data.hold.generation, remaining |-> rows.remaining]
    BY DEF Show
  <1>3. rows.remaining = When(data.view.on,
                              ShownRemaining(data.view.remaining))
    <2>1. PICK key_state \in KeyStateRows(data.view),
               credential \in CredentialRows(data.view) :
                 rows = StatusRows(data.view, key_state, credential)
      BY <1>2 DEF RowsNow
    <2>2. QED
      BY <2>1 DEF StatusRows
  <1>4. ASSUME Counted'
        PROVE  /\ data.view.remaining # None
               /\ data.view.remaining \in Nat
               /\ shown'.remaining = ShownRemaining(data.view.remaining)
    <2>1. shown'.remaining \notin {None, NoDeadline}
      BY <1>4 DEF Counted
    <2>2. shown'.remaining = ShownRemaining(data.view.remaining)
      BY <1>2, <1>3, <2>1 DEF When
    <2>3. data.view.remaining # None
      BY <2>1, <2>2 DEF ShownRemaining
    <2>4. QED
      BY <1>1, <2>2, <2>3 DEF IInv, WayInv, Optional
  <1>5. Counted' => shown'.remaining \in Nat
    BY <1>4, ShownGrows
  <1>6. QED
    BY <1>1, <1>2, <1>4, <1>5

LEMMA ShowInv ==
    ASSUME IInv, Show
    PROVE  IInv'
  <1>1. /\ UNCHANGED <<now, wall, ticks, hold, kept, uses>>
        /\ data # None /\ data' = None
        /\ shown'.of = data.hold.generation
    BY Printed
  <1>2. data.hold.generation \in Nat /\ hold.generation \in Nat
    BY <1>1 DEF IInv, TypeInv, Holds
  <1>3. TypeInv' /\ UseInv' /\ DataInv' /\ TurnInv' /\ WayInv'
    BY <1>1, <1>2
    DEF IInv, TypeInv, UseInv, DataInv, TurnInv, WayInv
  <1>4. CountInv'
    <2>1. SUFFICES ASSUME Counted', shown'.of = hold.generation,
                          hold.deadline # None
                   PROVE  /\ shown'.remaining \in Nat
                          /\ ShownRemaining(Remaining(hold))
                               <= shown'.remaining
      BY <1>1 DEF CountInv, Remaining
    <2>2. /\ data.view.remaining \in Nat
          /\ shown'.remaining = ShownRemaining(data.view.remaining)
          /\ shown'.remaining \in Nat
      BY <2>1, Printed
    <2>3. Remaining(hold) <= data.view.remaining
      BY <1>1, <2>1 DEF IInv, WayInv
    <2>4. Remaining(hold) \in Nat
      BY <2>1, RemainingType DEF IInv
    <2>5. ShownRemaining(Remaining(hold))
            <= ShownRemaining(data.view.remaining)
      BY <2>2, <2>3, <2>4, ShownGrows
    <2>6. QED
      BY <2>2, <2>5
  <1>5. QED
    BY <1>3, <1>4 DEF IInv

LEMMA StepInv ==
    ASSUME IInv, [Next]_vars
    PROVE  IInv'
  <1>1. CASE (\E d \in Steps : Tick(d)) \/ (\E j \in Jumps : SetClock(j))
    BY <1>1, ClockStepInv
  <1>2. CASE \E req \in Requests : On(req)
    BY <1>2, OnInv
  <1>3. CASE Off \/ Expire \/ PingFails
    <2>1. hold \in Holds
      BY DEF IInv, TypeInv
    <2>2. /\ TurnOff(hold) \in Holds
          /\ ~TurnOff(hold).enabled
          /\ TurnOff(hold).deadline = None
          /\ TurnOff(hold).generation = hold.generation
      BY <2>1, TurnedOff
    <2>3. ASSUME NEW e \in {None, "ping"}
          PROVE  LET h == [TurnOff(hold) EXCEPT !.last_error = e]
                 IN  /\ h \in Holds /\ ~h.enabled /\ h.deadline = None
                     /\ h.generation = hold.generation
      BY <2>2 DEF Holds, Optional, Errors
    <2>4. CASE Off
      BY <2>3, <2>4, EndsInv DEF Off, ClearError
    <2>5. CASE Expire
      BY <2>2, <2>5, EndsInv DEF Expire
    <2>6. CASE PingFails
      BY <2>3, <2>6, EndsInv DEF PingFails, RecordPingFailure
    <2>7. QED
      BY <1>3, <2>4, <2>5, <2>6
  <1>4. CASE PingSucceeds \/ Renew
    BY <1>4, UseStepInv
  <1>5. CASE Query
    BY <1>5, QueryInv
  <1>6. CASE Show
    BY <1>6, ShowInv
  <1>7. CASE UNCHANGED vars
    <2>1. UNCHANGED <<now, wall, ticks, hold, kept, uses, data, shown>>
      BY <1>7 DEF vars
    <2>2. Counted' = Counted /\ Remaining(hold)' = Remaining(hold)
      BY <2>1 DEF Counted, Remaining
    <2>3. TypeInv' /\ UseInv' /\ DataInv' /\ TurnInv'
      BY <2>1 DEF IInv, TypeInv, UseInv, DataInv, TakenAt, TurnInv
    <2>4. CountInv' /\ WayInv'
      BY <2>1, <2>2 DEF IInv, CountInv, WayInv
    <2>5. QED
      BY <2>3, <2>4 DEF IInv
  <1>8. QED
    BY <1>1, <1>2, <1>3, <1>4, <1>5, <1>6, <1>7 DEF Next

THEOREM Inductive == Spec => []IInv
  BY InitInv, StepInv, PTL DEF Spec

(* Of two statuses of one hold the later shows no more time remaining,     *)
(* whatever was printed, renewed or set in between: hold_status's reading  *)
(* of the monotonic clock and format_remaining's two roundings agree.      *)
THEOREM CountsDown == Spec => RemainingNeverGrows
  <1>1. ASSUME IInv, [Next]_vars, Show, shown'.of = shown.of,
               {shown.remaining, shown'.remaining}
                 \cap {None, NoDeadline} = {}
        PROVE  shown'.remaining <= shown.remaining
    <2>1. Counted /\ Counted'
      BY <1>1 DEF Counted
    <2>2. /\ data # None /\ shown.of = data.hold.generation
          /\ data.view.remaining # None
          /\ shown'.remaining = ShownRemaining(data.view.remaining)
      BY <1>1, <2>1, Printed
    <2>3. QED
      BY <1>1, <2>1, <2>2 DEF IInv, WayInv
  <1>2. ASSUME IInv, [Next]_vars
        PROVE  [ ( /\ Show
                   /\ shown'.of = shown.of
                   /\ {shown.remaining, shown'.remaining}
                        \cap {None, NoDeadline} = {} )
                 => shown'.remaining <= shown.remaining ]_vars
    BY <1>1, <1>2
  <1>3. QED
    BY <1>2, Inductive, PTL DEF Spec, RemainingNeverGrows

(***************************************************************************)
(* A clock with room for every renewal.                                    *)
(***************************************************************************)

(* A step of the hold that leaves the plan for its cache, or drops it.     *)
LEMMA SamePlan ==
    ASSUME PlanInv,
           UNCHANGED data,
           hold'.cache # None => /\ hold'.cache = hold.cache
                                 /\ hold'.mode = hold.mode
                                 /\ hold'.keygrip = hold.keygrip
    PROVE  PlanInv'
  <1>1. hold'.cache # None => RenewAt(hold)' = RenewAt(hold)
    BY DEF RenewAt
  <1>2. RenewAt(data.hold)' = RenewAt(data.hold)
    BY DEF RenewAt
  <1>3. QED
    BY <1>1, <1>2 DEF PlanInv

LEMMA PlanStep ==
    ASSUME IInv, PlanInv, NEW b \in Nat, RoomFor(b), ClockInv(b),
           [Next]_vars
    PROVE  PlanInv' /\ ClockInv(b)'
  <1>1. CASE (\E d \in Steps : Tick(d)) \/ (\E j \in Jumps : SetClock(j))
    <2>1. UNCHANGED <<hold, data>>
      BY <1>1 DEF Tick, SetClock, Seen
    <2>2. PlanInv'
      BY <2>1, SamePlan
    <2>3. now' + ticks' * b <= now + ticks * b
      <3>1. PICK d \in Nat : /\ d <= b
                             /\ now' = now + d
                             /\ ticks' = ticks - 1
        BY <1>1, StatusViewAssumption DEF Tick, SetClock, RoomFor,
             IInv, TypeInv
      <3>2. ticks \in Int /\ ticks * b \in Int
        BY DEF IInv, TypeInv
      <3>3. (ticks - 1) * b = ticks * b - b
        BY <3>2
      <3>4. QED
        BY <3>1, <3>2, <3>3 DEF IInv, TypeInv
    <2>4. /\ now \in Int /\ now' \in Int
          /\ ticks * b \in Int /\ ticks' * b \in Int /\ Ticks * b \in Int
      BY <1>1, StatusViewAssumption DEF IInv, TypeInv, Tick, SetClock
    <2>5. QED
      BY <2>1, <2>2, <2>3, <2>4 DEF ClockInv
  <1>2. ASSUME NEW req \in Requests, On(req)
        PROVE  PlanInv' /\ ClockInv(b)'
    <2>1. /\ hold' = TurnOn(hold, req, now)
          /\ UNCHANGED <<now, ticks, data>>
          /\ hold \in Holds /\ now \in Nat /\ req \in OnRequests
          /\ Schedulable(req, now)
      BY <1>2, StatusViewAssumption DEF On, Clocks, Seen, IInv, TypeInv
    <2>2. /\ hold'.keygrip = req.keygrip
          /\ hold'.mode = "session" => req.mode = "session"
          /\ hold'.cache # None =>
               /\ req.max_ttl # None /\ hold'.cache.max_ttl = req.max_ttl
               /\ req.mode = "session" => RenewAt(hold') # None
      BY <2>1, TurnedOn
    <2>3. RenewAt(hold)' = RenewAt(hold')
          /\ RenewAt(data.hold)' = RenewAt(data.hold)
      BY <2>1 DEF RenewAt
    <2>4. PlanInv'
      BY <1>2, <2>1, <2>2, <2>3, StatusViewAssumption DEF PlanInv
    <2>5. ClockInv(b)'
      BY <2>1, <2>2 DEF ClockInv
    <2>6. QED
      BY <2>4, <2>5
  <1>3. CASE Off \/ Expire \/ PingFails
    <2>1. hold'.cache = None /\ UNCHANGED <<now, ticks, data>>
      <3>1. /\ hold \in Holds /\ TurnOff(hold) \in Holds
            /\ TurnOff(hold).cache = None
        BY TurnedOff DEF IInv, TypeInv
      <3>2. \A e : [TurnOff(hold) EXCEPT !.last_error = e].cache = None
        BY <3>1 DEF Holds
      <3>3. QED
        BY <1>3, <3>1, <3>2
        DEF Off, Expire, PingFails, Ends, ClearError, RecordPingFailure,
            Clocks, Seen
    <2>2. QED
      BY <2>1, SamePlan DEF ClockInv
  <1>4. CASE PingSucceeds
    <2>1. /\ hold'.cache = hold.cache /\ hold'.mode = hold.mode
          /\ hold'.keygrip = hold.keygrip
          /\ UNCHANGED <<now, ticks, data>>
      BY <1>4, Pinged DEF PingSucceeds, IInv, TypeInv, Clocks, Seen
    <2>2. QED
      BY <2>1, SamePlan DEF ClockInv
  <1>5. CASE Renew
    <2>1. /\ hold' = RecordRenewal(hold, now)
          /\ UNCHANGED <<now, ticks, data>>
          /\ hold \in Holds /\ now \in Nat
          /\ hold.cache # None
      BY <1>5 DEF Renew, RenewDue, Reached, RenewAt, Clocks, Seen,
                  IInv, TypeInv
    <2>2. PICK req \in Requests : /\ req.max_ttl # None
                                  /\ hold.cache.max_ttl = req.max_ttl
      BY <2>1 DEF ClockInv
    <2>3. now + hold.cache.max_ttl <= Horizon
      <3>1. hold.cache.max_ttl \in Nat
        BY <2>1 DEF Holds, Optional, Caches
      <3>2. Ticks * b + hold.cache.max_ttl <= Horizon
        BY <2>2 DEF RoomFor
      <3>3. ticks * b \in Nat /\ Ticks * b \in Nat
        BY StatusViewAssumption DEF IInv, TypeInv
      <3>4. QED
        BY <2>1, <3>1, <3>2, <3>3, HoldAssumption DEF ClockInv
    <2>4. /\ hold'.mode = hold.mode /\ hold'.keygrip = hold.keygrip
          /\ hold'.cache.max_ttl = hold.cache.max_ttl
          /\ RenewAt(hold') # None
      BY <2>1, <2>3, Renewed
    <2>5. RenewAt(hold)' = RenewAt(hold')
          /\ RenewAt(data.hold)' = RenewAt(data.hold)
      BY <2>1 DEF RenewAt
    <2>6. PlanInv'
      BY <2>1, <2>4, <2>5 DEF PlanInv
    <2>7. ClockInv(b)'
      BY <2>1, <2>2, <2>4 DEF ClockInv
    <2>8. QED
      BY <2>6, <2>7
  <1>6. CASE Query
    <2>1. UNCHANGED <<now, ticks, hold>>
      BY <1>6 DEF Query, Clocks
    <2>2. /\ data'.hold = hold
          /\ data'.view.mode = hold.mode
          /\ data'.view.keygrip = hold.keygrip
          /\ data'.view.max_ttl # None => hold.cache # None
      BY <1>6 DEF Query, Status
    <2>3. RenewAt(hold)' = RenewAt(hold)
          /\ RenewAt(data.hold)' = RenewAt(hold)
      BY <2>1, <2>2 DEF RenewAt
    <2>4. QED
      BY <2>1, <2>2, <2>3 DEF PlanInv, ClockInv
  <1>7. CASE Show
    <2>1. UNCHANGED <<now, ticks, hold>> /\ data' = None
      BY <1>7, Printed
    <2>2. RenewAt(hold)' = RenewAt(hold)
      BY <2>1 DEF RenewAt
    <2>3. QED
      BY <2>1, <2>2 DEF PlanInv, ClockInv
  <1>8. CASE UNCHANGED vars
    <2>1. UNCHANGED <<now, ticks, hold, data>>
      BY <1>8 DEF vars
    <2>2. QED
      BY <2>1, SamePlan DEF ClockInv
  <1>9. QED
    BY <1>1, <1>2, <1>3, <1>4, <1>5, <1>6, <1>7, <1>8 DEF Next

LEMMA PlanInit ==
    ASSUME Init, NEW b \in Nat
    PROVE  PlanInv /\ ClockInv(b)
  <1>1. Ticks * b \in Nat
    BY StatusViewAssumption
  <1>2. QED
    BY <1>1 DEF Init, Default, PlanInv, ClockInv

THEOREM Planned ==
    ASSUME HorizonAmple
    PROVE  Spec => []PlanInv
  <1>1. PICK b \in Nat : RoomFor(b)
    BY DEF HorizonAmple
  <1> DEFINE Both == PlanInv /\ ClockInv(b)
  <1>2. Init => Both
    BY PlanInit
  <1>3. IInv /\ Both /\ [Next]_vars => Both'
    BY <1>1, PlanStep
  <1>4. Both => PlanInv
    OBVIOUS
  <1> HIDE DEF Both
  <1>5. QED
    BY <1>2, <1>3, <1>4, Inductive, PTL DEF Spec

(***************************************************************************)
(* What a status shows.                                                    *)
(***************************************************************************)

(* The parts of the rows that the properties speak of.                     *)
LEMMA RowsShown ==
    ASSUME NEW d, NEW rows \in RowsNow(d)
    PROVE  /\ rows.hold = IF d.on THEN "on" ELSE "off"
           /\ rows.error = d.error
           /\ rows.remaining = When(d.on, ShownRemaining(d.remaining))
           /\ rows.next_ping = When(d.on, Until(d.next_ping))
           /\ rows.max_expiry = When(d.on /\ d.max_ttl # None, MaxExpiry(d))
           /\ \E credential \in CredentialRows(d) :
                rows.credential = When(d.on \/ d.keygrip # None, credential)
  <1>1. PICK key_state \in KeyStateRows(d), credential \in CredentialRows(d) :
          rows = StatusRows(d, key_state, credential)
    BY DEF RowsNow
  <1>2. QED
    BY <1>1 DEF StatusRows

LEMMA PromiseKept ==
    ASSUME NEW d, NEW rows \in RowsNow(d), Promises(rows)
    PROVE  d.on /\ d.max_ttl # None /\ d.mode = "session"
  <1>1. rows.max_expiry = When(d.on /\ d.max_ttl # None, MaxExpiry(d))
    BY RowsShown
  <1>2. /\ d.on /\ d.max_ttl # None
        /\ rows.max_expiry = MaxExpiry(d)
        /\ rows.max_expiry.auto_renew
    BY <1>1 DEF Promises, When
  <1>3. MaxExpiry(d).auto_renew = (d.expires # None /\ d.mode = "session")
    BY DEF MaxExpiry
  <1>4. rows.max_expiry.auto_renew = MaxExpiry(d).auto_renew
    BY <1>2
  <1>5. d.mode = "session"
    BY <1>2, <1>3, <1>4, Zenon
  <1>6. QED
    BY <1>2, <1>5

(* Half a second either way is what rounding costs.                        *)
LEMMA PingIsHonest ==
    ASSUME TypeInv, DataInv, data # None, data.offset = wall - now,
           NEW rows \in RowsNow(data.view), rows.next_ping # None
    PROVE  LET left == SaturatingSub(data.hold.next_ping, now)
           IN  /\ 1000 * rows.next_ping <= left + 500
               /\ left <= 1000 * rows.next_ping + 500
  <1>1. rows.next_ping = When(data.view.on, Until(data.view.next_ping))
    BY RowsShown
  <1>2. /\ rows.next_ping = Rounded(SaturatingSub(data.view.next_ping, wall))
        /\ data.view.next_ping # None
    BY <1>1 DEF When, Until
  <1>3. PICK n \in Nat : TakenAt(n)
    BY DEF DataInv
  <1>4. /\ data.hold.next_ping \in Nat
        /\ n <= now /\ now \in Nat /\ wall \in Int
        /\ data.view.next_ping =
             (n + (wall - now)) + SaturatingSub(data.hold.next_ping, n)
    BY <1>2, <1>3 DEF TakenAt, TypeInv, Holds, Optional
  <1> DEFINE left == SaturatingSub(data.hold.next_ping, now)
  <1>5. /\ left \in Nat
        /\ SaturatingSub(data.view.next_ping, wall) = left
    BY <1>4 DEF SaturatingSub
  <1>6. rows.next_ping = (left + 500) \div 1000
    BY <1>2, <1>5 DEF Rounded
  <1> HIDE DEF left
  <1>7. /\ 1000 * rows.next_ping <= left + 500
        /\ left <= 1000 * rows.next_ping + 500
    BY <1>5, <1>6
  <1>8. QED
    BY <1>7 DEF left

(* Whatever is replaced, fails, ends or is set between a snapshot and its  *)
(* printing, the rows are true of the hold it was taken of.  An Instant    *)
(* never runs out: a renewal that could not be scheduled is still shown as *)
(* automatic, by print_status_data from the mode alone.                    *)
THEOREM StatusTrue ==
    ASSUME HorizonAmple
    PROVE  Spec => []StatusIsTrue
  <1>1. ASSUME IInv, PlanInv
        PROVE  StatusIsTrue
    <2>1. LastPingIsOwn
      BY <1>1 DEF IInv, DataInv, LastPingIsOwn
    <2>2. AutoRenewIsScheduled
      BY <1>1, PromiseKept DEF PlanInv, AutoRenewIsScheduled
    <2>3. RowsAgree
      <3>1. SUFFICES
              ASSUME data # None, NEW rows \in RowsNow(data.view)
              PROVE  /\ rows.hold = "on" => rows.error = None
                     /\ rows.hold = "off" =>
                          {rows.max_expiry, rows.remaining, rows.next_ping}
                            = {None}
                     /\ Promises(rows) =>
                          rows.credential \in
                            {"session stored", "missing", "unavailable"}
        BY DEF RowsAgree
      <3>2. rows.hold = "on" => rows.error = None
        BY <1>1, <3>1, RowsShown DEF IInv, DataInv
      <3>3. rows.hold = "off" =>
              {rows.max_expiry, rows.remaining, rows.next_ping} = {None}
        BY <3>1, RowsShown DEF When
      <3>4. ASSUME Promises(rows)
            PROVE  rows.credential \in
                     {"session stored", "missing", "unavailable"}
        <4>1. /\ data.view.on /\ data.view.mode = "session"
              /\ data.view.keygrip # None
          BY <1>1, <3>1, <3>4, PromiseKept DEF PlanInv
        <4>2. CredentialRows(data.view) =
                {"session stored", "missing", "unavailable"}
          BY <4>1 DEF CredentialRows
        <4>3. PICK credential \in CredentialRows(data.view) :
                rows.credential =
                  When(data.view.on \/ data.view.keygrip # None, credential)
          BY <3>1, RowsShown
        <4>4. QED
          BY <4>1, <4>2, <4>3 DEF When
      <3>5. QED
        BY <3>2, <3>3, <3>4
    <2>4. NextPingHonest
      BY <1>1, PingIsHonest DEF IInv, NextPingHonest
    <2>5. QED
      BY <2>1, <2>2, <2>3, <2>4 DEF StatusIsTrue
  <1>2. QED
    BY <1>1, Inductive, Planned, PTL
=============================================================================
