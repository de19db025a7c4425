--------------------------- MODULE KeepaliveProofs ---------------------------
(***************************************************************************)
(* Theorems about Keepalive, for every set of requests, every Horizon and  *)
(* every bound.  Inv is inductive relative to the typing lemma.            *)
(***************************************************************************)
EXTENDS Keepalive, TLAPS

(***************************************************************************)
(* Lemmas about the operators of Hold.                                     *)
(***************************************************************************)

(* checked_add yields an instant or None.                                  *)
LEMMA CheckedAddType ==
    ASSUME NEW a \in Nat, NEW b \in Nat
    PROVE  CheckedAdd(a, b) \in Optional(Nat)
  BY DEF CheckedAdd, Optional

(* What is left of an epoch is a duration: the subtractions saturate.      *)
LEMMA RenewDelayType ==
    ASSUME NEW ttl \in Nat, NEW age \in Nat
    PROVE  /\ RenewDelay(ttl, age) \in Nat
           /\ SaturatingSub(ttl, RenewMargin(ttl)) \in Nat
  <1>1. ttl \div 10 \in Nat
    OBVIOUS
  <1>2. RenewMargin(ttl) \in Nat
    BY <1>1 DEF RenewMargin, Smaller
  <1>3. SaturatingSub(ttl, age) \in Nat
    BY DEF SaturatingSub
  <1>4. QED
    BY <1>2, <1>3 DEF RenewDelay, SaturatingSub

(* turn_off keeps a hold a hold.                                           *)
LEMMA TurnOffType ==
    ASSUME NEW h \in Holds
    PROVE  TurnOff(h) \in Holds
  BY DEF Holds, TurnOff, Optional

(* An admitted request makes a well-formed hold.                           *)
LEMMA TurnOnType ==
    ASSUME NEW h \in Holds, NEW req \in OnRequests, NEW now \in Nat,
           ActivationComplete(req)
    PROVE  TurnOn(h, req, now) \in Holds
  <1>1. NewCache(req, now) \in Optional(Caches)
    <2>1. CASE req.max_ttl = None
      BY <2>1 DEF NewCache, Optional
    <2>2. CASE req.max_ttl # None /\ req.mode # "session"
      <3>1. req.max_ttl \in Nat
        BY <2>2 DEF OnRequests, Optional
      <3>2. QED
        BY <2>2, <3>1 DEF NewCache, Optional, Caches
    <2>3. CASE req.max_ttl # None /\ req.mode = "session"
      <3>1. req.max_ttl \in Nat /\ req.age \in Nat
        BY <2>3 DEF OnRequests, Optional, ActivationComplete
      <3>2. RenewDelay(req.max_ttl, req.age) \in Nat
        BY <3>1, RenewDelayType
      <3>3. Larger(now + RenewDelay(req.max_ttl, req.age), now + 1) \in Nat
        BY <3>2 DEF Larger
      <3>4. QED
        BY <2>3, <3>1, <3>3 DEF NewCache, Optional, Caches
    <2>4. QED
      BY <2>1, <2>2, <2>3
  <1>2. (IF req.hold_for = None THEN None ELSE now + req.hold_for)
          \in Optional(Nat)
    BY DEF OnRequests, Optional
  <1>3. now + req.interval \in Nat /\ req.interval \in Nat
    BY DEF OnRequests
  <1>4. (IF req.max_ttl = None THEN "none" ELSE req.mode) \in Modes
    BY DEF OnRequests, Modes
  <1>5. h.generation + 1 \in Nat /\ req.keygrip \in Optional(Keygrips)
    BY DEF Holds, OnRequests
  <1>6. QED
    BY <1>1, <1>2, <1>3, <1>4, <1>5 DEF TurnOn, Holds, Optional

(* The three record_* operations keep a hold a hold.                       *)
LEMMA RecordType ==
    ASSUME NEW h \in Holds, NEW now \in Nat, NEW reason \in Errors
    PROVE  /\ RecordPingOk(h, now) \in Holds
           /\ RecordRenewal(h, now) \in Holds
           /\ RecordPingFailure(h, reason) \in Holds
  <1>1. RecordPingOk(h, now) \in Holds
    <2>1. CheckedAdd(now, h.interval) \in Optional(Nat)
      BY CheckedAddType DEF Holds
    <2>2. QED
      BY <2>1 DEF RecordPingOk, Holds
  <1>2. RenewedCache(h.cache, now) \in Optional(Caches)
    <2>1. CASE h.cache = None
      BY <2>1 DEF RenewedCache, Optional
    <2>2. CASE h.cache # None
      <3>1. h.cache \in Caches
        BY <2>2 DEF Holds, Optional
      <3>2. SaturatingSub(h.cache.max_ttl, RenewMargin(h.cache.max_ttl))
              \in Nat
        BY <3>1, RenewDelayType DEF Caches
      <3>3. CheckedAdd(now, SaturatingSub(h.cache.max_ttl,
                                          RenewMargin(h.cache.max_ttl)))
              \in Optional(Nat)
        BY <3>2, CheckedAddType
      <3>4. QED
        BY <2>2, <3>1, <3>3 DEF RenewedCache, Caches, Optional
    <2>3. QED
      BY <2>1, <2>2
  <1>3. RecordRenewal(h, now) \in Holds
    BY <1>1, <1>2 DEF RecordRenewal, Holds
  <1>4. RecordPingFailure(h, reason) \in Holds
    BY TurnOffType DEF RecordPingFailure, Holds, Optional
  <1>5. QED
    BY <1>1, <1>3, <1>4

(* turn_on is only reached by admitted requests, and Snapshot copies three *)
(* fields of the hold.                                                     *)
LEMMA SnapshotType ==
    ASSUME NEW h \in Holds
    PROVE  Snapshot(h) \in Snapshots
  BY DEF Snapshot, Snapshots, Holds

-----------------------------------------------------------------------------
(* Typing.                                                                 *)

(* A fresh daemon starts well typed, with the hold off.                    *)
LEMMA TypeInit == Init => TypeOK
  <1>1. Default \in Holds
    BY DEF Default, Holds, Optional, Modes
  <1>2. Snapshot(Default) \in Snapshots
    BY <1>1, SnapshotType
  <1>3. None \in Optional(Nat) /\ "check" \in PCs /\ 0 \in Nat
    BY DEF Optional, PCs
  <1>4. QED
    BY <1>1, <1>2, <1>3, Zenon DEF Init, TypeOK

(* A result applied or discarded leaves every variable in its type.        *)
LEMMA ApplyType ==
    ASSUME TypeOK, NEW result \in Holds, Apply(result)
    PROVE  TypeOK'
  BY DEF Apply, TypeOK, PCs

(* Every notification leaves the scheduler's variables in their types.     *)
LEMMA NotifyType ==
    ASSUME TypeOK, NotifyAll
    PROVE  pc' \in PCs /\ snap' \in Snapshots /\ until' \in Optional(Nat)
  BY DEF NotifyAll, TypeOK, PCs

(* A request handler or a signal keeps every variable in its type.         *)
LEMMA TypeHandlers == TypeOK /\ Handlers => TypeOK'
  <1> SUFFICES ASSUME TypeOK, Handlers
               PROVE  TypeOK'
    OBVIOUS
  <1>1. ASSUME NEW req \in Requests, On(req)
        PROVE  TypeOK'
    <2>1. req \in OnRequests
      BY KeepaliveAssumption
    <2>2. TurnOn(hold, req, clock) \in Holds
      BY <1>1, <2>1, TurnOnType DEF On, Admitted, TypeOK
    <2>3. QED
      BY <1>1, <2>2, NotifyType DEF On, TypeOK
  <1>2. ClearError(TurnOff(hold)) \in Holds
    BY TurnOffType DEF ClearError, TypeOK, Holds, Optional
  <1>3. CASE Off
    BY <1>2, <1>3, NotifyType DEF Off, TypeOK
  <1>4. CASE LockBegin
    BY <1>2, <1>4, NotifyType DEF LockBegin, TypeOK
  <1>5. CASE LockEnd
    BY <1>5, NotifyType DEF LockEnd, TypeOK
  <1>6. CASE Shutdown
    BY <1>6 DEF Shutdown, scheduler, TypeOK
  <1>7. CASE AckShutdown
    BY <1>7, NotifyType DEF AckShutdown, TypeOK
  <1>8. CASE Signal
    BY <1>8, NotifyType DEF Signal, TypeOK
  <1>9. QED
    BY <1>1, <1>3, <1>4, <1>5, <1>6, <1>7, <1>8 DEF Handlers

(* So does each step of the scheduler thread.                              *)
LEMMA TypeScheduler == TypeOK /\ SchedulerStep => TypeOK'
  <1> SUFFICES ASSUME TypeOK, SchedulerStep
               PROVE  TypeOK'
    OBVIOUS
  <1>1. CASE Exit
    BY <1>1 DEF Exit, shared, TypeOK, PCs
  <1>2. CASE Dispatch
    <2>1. Snapshot(hold) \in Snapshots
      BY SnapshotType DEF TypeOK
    <2>2. QED
      BY <1>2, <2>1 DEF Dispatch, shared, TypeOK, PCs
  <1>3. CASE Sleep
    <2>1. ASSUME NEW wake \in NextWake(hold, clock)
          PROVE  wake + 1 \in Nat
      <3>1. wake \in Scheduled(hold)
        BY <2>1 DEF NextWake
      <3>2. wake \in Nat
        BY <3>1 DEF Scheduled, RenewAt, TypeOK, Holds, Optional, Caches
      <3>3. QED
        BY <3>2
    <2>2. until' \in Optional(Nat)
      BY <1>3, <2>1 DEF Sleep, Optional
    <2>3. QED
      BY <1>3, <2>2 DEF Sleep, shared, TypeOK, PCs
  <1>4. CASE WakeOnTimeout
    BY <1>4 DEF WakeOnTimeout, shared, TypeOK, PCs
  <1>5. CASE Expire
    BY <1>5, TurnOffType, ApplyType DEF Expire, TypeOK
  <1>6. "ping" \in Errors /\ "renewal" \in Errors
    BY DEF Errors
  <1>7. CASE PingSucceeds
    BY <1>6, <1>7, RecordType, ApplyType DEF PingSucceeds, TypeOK
  <1>8. CASE PingFails
    BY <1>6, <1>8, RecordType, ApplyType DEF PingFails, TypeOK
  <1>9. CASE PingRecovers
    BY <1>9 DEF PingRecovers, shared, TypeOK, PCs
  <1>10. CASE RenewProceeds
    BY <1>10 DEF RenewProceeds, shared, TypeOK, PCs
  <1>11. CASE RenewAbandoned
    BY <1>11 DEF RenewAbandoned, shared, TypeOK, PCs
  <1>12. CASE RenewFails
    BY <1>6, <1>12, RecordType, ApplyType DEF RenewFails, TypeOK
  <1>13. CASE RenewSucceeds
    BY <1>6, <1>13, RecordType, ApplyType DEF RenewSucceeds, TypeOK
  <1>14. QED
    BY <1>1, <1>2, <1>3, <1>4, <1>5, <1>7, <1>8, <1>9, <1>10, <1>11,
       <1>12, <1>13 DEF SchedulerStep

(* So does every step of the daemon, a stutter included.                   *)
LEMMA TypeNext == TypeOK /\ [Next]_vars => TypeOK'
  <1> SUFFICES ASSUME TypeOK, [Next]_vars
               PROVE  TypeOK'
    OBVIOUS
  <1>1. CASE Handlers
    BY <1>1, TypeHandlers
  <1>2. CASE SchedulerStep
    BY <1>2, TypeScheduler
  <1>3. CASE WakeSpuriously
    BY <1>3 DEF WakeSpuriously, shared, TypeOK, PCs
  <1>4. CASE Tick
    BY <1>4 DEF Tick, shared, scheduler, TypeOK
  <1>5. CASE UNCHANGED vars
    BY <1>5 DEF vars, shared, scheduler, TypeOK
  <1>6. QED
    BY <1>1, <1>2, <1>3, <1>4, <1>5 DEF Next, Terminated

(* Type correctness: through every race the hold keeps the shape           *)
(* src/state.rs gives it, and no clock arithmetic leaves the naturals.     *)
THEOREM TypeCorrect == Spec => []TypeOK
  <1>1. Init => TypeOK
    BY TypeInit
  <1>2. TypeOK /\ [Next]_vars => TypeOK'
    BY TypeNext
  <1>3. QED
    BY <1>1, <1>2, PTL DEF Spec

-----------------------------------------------------------------------------
(***************************************************************************)
(* What one step can do to the hold.  Every action falls under one of four *)
(* effects, and the safety properties follow from the effects alone.       *)
(***************************************************************************)
SameOwner ==
    /\ hold'.generation = hold.generation
    /\ hold'.keygrip = hold.keygrip
    /\ hold'.mode = hold.mode

Replaced ==
    /\ hold'.enabled
    /\ hold'.last_error = None
    /\ hold'.generation = hold.generation + 1
    /\ ~locking
    /\ ~stopping
    /\ UNCHANGED <<locking, snap>>

Stopped ==
    /\ ~hold'.enabled
    /\ hold'.deadline = None
    /\ hold'.next_ping = None
    /\ hold'.cache = None
    /\ hold.enabled \/ hold'.last_error = None
    /\ SameOwner

Rescheduled ==
    /\ hold.enabled
    /\ hold'.enabled
    /\ hold'.last_error = hold.last_error
    /\ UNCHANGED locking
    /\ SameOwner

HoldEffect == UNCHANGED hold \/ Replaced \/ Stopped \/ Rescheduled

(* turn_off, with or without an error of its own.                          *)
LEMMA TurnOffFields ==
    ASSUME NEW h \in Holds
    PROVE  /\ TurnOff(h).enabled = FALSE
           /\ TurnOff(h).deadline = None
           /\ TurnOff(h).next_ping = None
           /\ TurnOff(h).cache = None
           /\ TurnOff(h).generation = h.generation
           /\ TurnOff(h).keygrip = h.keygrip
           /\ TurnOff(h).mode = h.mode
           /\ TurnOff(h).last_error = h.last_error
  BY DEF TurnOff, Holds

(* A result is applied to a current hold or changes nothing.               *)
LEMMA ApplyEffect ==
    ASSUME TypeOK, NEW result \in Holds, Apply(result),
           result.generation = hold.generation,
           result.keygrip = hold.keygrip,
           result.mode = hold.mode,
           \/ /\ result.enabled = hold.enabled
              /\ result.last_error = hold.last_error
           \/ /\ result.enabled = FALSE
              /\ result.deadline = None
              /\ result.next_ping = None
              /\ result.cache = None
    PROVE  HoldEffect
  <1>1. CASE ~Current
    BY <1>1 DEF Apply, HoldEffect
  <1>2. CASE Current
    <2>1. hold' = result /\ hold.enabled /\ locking' = locking
      BY <1>2 DEF Apply, Current
    <2>2. CASE result.enabled = hold.enabled /\ result.last_error = hold.last_error
      BY <2>1, <2>2 DEF HoldEffect, Rescheduled, SameOwner
    <2>3. CASE /\ result.enabled = FALSE
               /\ result.deadline = None
               /\ result.next_ping = None
               /\ result.cache = None
      BY <2>1, <2>3 DEF HoldEffect, Stopped, SameOwner
    <2>4. QED
      BY <2>2, <2>3
  <1>3. QED
    BY <1>1, <1>2

(* Each handler and each step of the scheduler has one of the effects.     *)
LEMMA StepEffect == TypeOK /\ [Next]_vars => HoldEffect
  <1> SUFFICES ASSUME TypeOK, [Next]_vars
               PROVE  HoldEffect
    OBVIOUS
  <1>0. hold \in Holds /\ clock \in Nat
    BY DEF TypeOK
  <1>1. ASSUME NEW req \in Requests, On(req)
        PROVE  HoldEffect
    <2>1. /\ hold'.enabled = TRUE
          /\ hold'.last_error = None
          /\ hold'.generation = hold.generation + 1
      BY <1>1 DEF On, TurnOn
    <2>2. ~locking /\ ~stopping /\ locking' = locking /\ snap' = snap
      BY <1>1 DEF On, Admitted, NotifyAll
    <2>3. QED
      BY <2>1, <2>2 DEF HoldEffect, Replaced
  <1>2. CASE Off \/ LockBegin
    <2>1. hold' = ClearError(TurnOff(hold))
      BY <1>2 DEF Off, LockBegin
    <2>2. TurnOff(hold) \in Holds
      BY <1>0, TurnOffType
    <2>3. /\ hold'.enabled = FALSE
          /\ hold'.deadline = None
          /\ hold'.next_ping = None
          /\ hold'.cache = None
          /\ hold'.last_error = None
          /\ SameOwner
      BY <1>0, <2>1, <2>2, TurnOffFields DEF ClearError, Holds, SameOwner
    <2>4. QED
      BY <2>3 DEF HoldEffect, Stopped
  <1>3. CASE LockEnd \/ Shutdown \/ AckShutdown \/ Signal
    BY <1>3 DEF LockEnd, Shutdown, AckShutdown, Signal, HoldEffect
  <1>4. CASE Exit \/ Dispatch \/ Sleep \/ WakeOnTimeout
    BY <1>4 DEF Exit, Dispatch, Sleep, WakeOnTimeout, shared, HoldEffect
  <1>5. CASE PingRecovers \/ RenewProceeds \/ RenewAbandoned
    BY <1>5 DEF PingRecovers, RenewProceeds, RenewAbandoned, shared,
                HoldEffect
  <1>6. CASE Expire
    BY <1>0, <1>6, TurnOffType, TurnOffFields, ApplyEffect DEF Expire
  <1>7. CASE PingSucceeds
    <2>1. RecordPingOk(hold, clock) \in Holds
      BY <1>0, RecordType DEF Errors
    <2>2. /\ RecordPingOk(hold, clock).enabled = hold.enabled
          /\ RecordPingOk(hold, clock).last_error = hold.last_error
          /\ RecordPingOk(hold, clock).generation = hold.generation
          /\ RecordPingOk(hold, clock).keygrip = hold.keygrip
          /\ RecordPingOk(hold, clock).mode = hold.mode
      BY <1>0 DEF RecordPingOk, Holds
    <2>3. QED
      BY <1>7, <2>1, <2>2, ApplyEffect DEF PingSucceeds
  <1>8. CASE RenewSucceeds
    <2>1. RecordPingOk(hold, clock) \in Holds
          /\ RecordRenewal(hold, clock) \in Holds
      BY <1>0, RecordType DEF Errors
    <2>2. /\ RecordRenewal(hold, clock).enabled = hold.enabled
          /\ RecordRenewal(hold, clock).last_error = hold.last_error
          /\ RecordRenewal(hold, clock).generation = hold.generation
          /\ RecordRenewal(hold, clock).keygrip = hold.keygrip
          /\ RecordRenewal(hold, clock).mode = hold.mode
      BY <1>0, <2>1 DEF RecordRenewal, RecordPingOk, Holds
    <2>3. QED
      BY <1>8, <2>1, <2>2, ApplyEffect DEF RenewSucceeds
  <1>9. ASSUME NEW reason \in Errors, Apply(RecordPingFailure(hold, reason))
        PROVE  HoldEffect
    <2>1. RecordPingFailure(hold, reason) \in Holds /\ TurnOff(hold) \in Holds
      BY <1>0, RecordType, TurnOffType
    <2>2. /\ RecordPingFailure(hold, reason).enabled = FALSE
          /\ RecordPingFailure(hold, reason).deadline = None
          /\ RecordPingFailure(hold, reason).next_ping = None
          /\ RecordPingFailure(hold, reason).cache = None
          /\ RecordPingFailure(hold, reason).generation = hold.generation
          /\ RecordPingFailure(hold, reason).keygrip = hold.keygrip
          /\ RecordPingFailure(hold, reason).mode = hold.mode
      BY <1>0, <2>1, TurnOffFields DEF RecordPingFailure, Holds
    <2>3. QED
      BY <1>9, <2>1, <2>2, ApplyEffect
  <1>10. CASE PingFails \/ RenewFails
    BY <1>9, <1>10 DEF PingFails, RenewFails, Errors
  <1>11. CASE WakeSpuriously \/ Tick \/ Terminated \/ UNCHANGED vars
    BY <1>11 DEF WakeSpuriously, Tick, Terminated, vars, shared, HoldEffect
  <1>12. QED
    BY <1>1, <1>2, <1>3, <1>4, <1>5, <1>6, <1>7, <1>8, <1>10, <1>11
    DEF Next, Handlers, SchedulerStep

-----------------------------------------------------------------------------
(* What one step can do to the scheduler's snapshot and to its sleep.      *)

InFlight == {"expire", "ping", "txn", "renew"}

(* The snapshot is taken from the hold it is dispatched for, and kept      *)
(* while that work is in flight.                                           *)
LEMMA SnapshotEffect ==
    TypeOK /\ [Next]_vars =>
        \/ snap' = Snapshot(hold) /\ hold' = hold
        \/ snap' = snap /\ (pc' \in InFlight => pc \in InFlight)
  <1> SUFFICES ASSUME TypeOK, [Next]_vars
               PROVE  \/ snap' = Snapshot(hold) /\ hold' = hold
                      \/ snap' = snap /\ (pc' \in InFlight => pc \in InFlight)
    OBVIOUS
  <1>1. CASE Handlers
    <2>1. snap' = snap /\ (pc' = pc \/ pc' = "check")
      BY <1>1 DEF Handlers, On, Off, LockBegin, LockEnd, Shutdown,
                  AckShutdown, Signal, NotifyAll, scheduler
    <2>2. QED
      BY <2>1 DEF InFlight
  <1>2. CASE Dispatch
    BY <1>2 DEF Dispatch, shared
  <1>3. CASE \/ Exit \/ Sleep \/ WakeOnTimeout \/ WakeSpuriously
             \/ RenewAbandoned
    BY <1>3 DEF Exit, Sleep, WakeOnTimeout, WakeSpuriously, RenewAbandoned,
                InFlight
  <1>4. CASE Expire \/ PingSucceeds \/ PingFails \/ RenewFails \/ RenewSucceeds
    BY <1>4 DEF Expire, PingSucceeds, PingFails, RenewFails, RenewSucceeds,
                Apply, InFlight
  <1>5. CASE PingRecovers \/ RenewProceeds
    BY <1>5 DEF PingRecovers, RenewProceeds, InFlight
  <1>6. CASE Tick \/ Terminated \/ UNCHANGED vars
    BY <1>6 DEF Tick, Terminated, vars, scheduler
  <1>7. QED
    BY <1>1, <1>2, <1>3, <1>4, <1>5, <1>6 DEF Next, SchedulerStep

(* The scheduler falls asleep only in Sleep; while it stays asleep the     *)
(* hold, the final flag and its timeout do not change.                     *)
LEMMA SleepEffect ==
    TypeOK /\ [Next]_vars /\ pc' = "wait" =>
        Sleep \/ (pc = "wait" /\ UNCHANGED <<hold, shutdown, until>>)
  <1> SUFFICES ASSUME TypeOK, [Next]_vars, pc' = "wait", ~Sleep
               PROVE  pc = "wait" /\ UNCHANGED <<hold, shutdown, until>>
    OBVIOUS
  <1>1. ASSUME NotifyAll
        PROVE  FALSE
    BY <1>1 DEF NotifyAll
  <1>2. CASE Handlers
    BY <1>1, <1>2 DEF Handlers, On, Off, LockBegin, LockEnd, Shutdown,
                      AckShutdown, Signal, scheduler
  <1>3. CASE SchedulerStep \/ WakeSpuriously
    BY <1>3 DEF SchedulerStep, Exit, Dispatch, WakeOnTimeout, WakeSpuriously,
                Expire, PingSucceeds, PingFails, PingRecovers, RenewProceeds,
                RenewAbandoned, RenewFails, RenewSucceeds, Apply
  <1>4. CASE Tick \/ Terminated \/ UNCHANGED vars
    BY <1>4 DEF Tick, Terminated, vars, shared, scheduler
  <1>5. QED
    BY <1>2, <1>3, <1>4 DEF Next

(* A non-empty schedule with nothing due has an earliest instant ahead.    *)
LEMMA NextWakeIsEarliest ==
    ASSUME NEW h \in Holds, NEW now \in Nat, h.enabled,
           \A t \in Scheduled(h) : t > now
    PROVE  /\ Scheduled(h) \subseteq Nat
           /\ Scheduled(h) # {} => NextWake(h, now) # {}
           /\ \A w \in NextWake(h, now), t \in Scheduled(h) : w \in Nat /\ w <= t
  <1>1. Scheduled(h) \subseteq Nat
    BY DEF Scheduled, RenewAt, Holds, Optional, Caches
  <1>2. NextWake(h, now) = {t \in Scheduled(h) : \A u \in Scheduled(h) : t <= u}
    BY <1>1 DEF NextWake
  <1>3. ASSUME Scheduled(h) # {}
        PROVE  \E m \in Scheduled(h) : \A u \in Scheduled(h) : m <= u
    <2>1. \A a, b \in Nat : a <= b \/ b <= a
      OBVIOUS
    <2>2. \A a, b, c \in Nat : a <= b /\ b <= c => a <= c
      OBVIOUS
    <2>3. \A t : t \in Scheduled(h) <=>
            t # None /\ (t = h.deadline \/ t = RenewAt(h) \/ t = h.next_ping)
      BY DEF Scheduled
    <2>4. QED
      BY <1>1, <1>3, <2>1, <2>2, <2>3
  <1>4. QED
    BY <1>1, <1>2, <1>3

-----------------------------------------------------------------------------
(***************************************************************************)
(* The safety invariants.                                                  *)
(***************************************************************************)
Inv ==
    /\ OffIsQuiescent
    /\ LockKeepsHoldOff
    /\ ErrorMeansOff
    /\ SnapshotFaithful
    /\ NoLostWakeup

(* The strengthened invariant holds of a fresh daemon.                     *)
LEMMA InvInit == Init => Inv
  BY DEF Init, Default, Snapshot, Inv, OffIsQuiescent, LockKeepsHoldOff,
         ErrorMeansOff, SnapshotFaithful, NoLostWakeup

(* locking rises only in LockBegin, which leaves the hold off.             *)
LEMMA LockingEffect ==
    [Next]_vars /\ locking' =>
        locking \/ ~hold'.enabled
  <1> SUFFICES ASSUME [Next]_vars, locking', ~locking
               PROVE  ~hold'.enabled
    OBVIOUS
  <1>1. LockBegin
    BY DEF Next, Handlers, SchedulerStep, On, Off, LockEnd, Shutdown,
           AckShutdown, Signal, Exit, Dispatch, Sleep, WakeOnTimeout, Expire,
           PingSucceeds, PingFails, PingRecovers, RenewProceeds,
           RenewAbandoned, RenewFails, RenewSucceeds, Apply, WakeSpuriously,
           Tick, Terminated, vars, shared
  <1>2. QED
    BY <1>1 DEF LockBegin, ClearError, TurnOff

(* It is inductive: each conjunct survives the effects a step can have     *)
(* (StepEffect, SnapshotEffect, SleepEffect, LockingEffect).               *)
LEMMA InvNext == TypeOK /\ Inv /\ [Next]_vars => Inv'
  <1> SUFFICES ASSUME TypeOK, Inv, [Next]_vars
               PROVE  Inv'
    OBVIOUS
  <1>1. HoldEffect
    BY StepEffect
  <1>2. hold \in Holds /\ hold' \in Holds /\ clock \in Nat
    BY TypeNext DEF TypeOK
  <1>3. OffIsQuiescent'
    BY <1>1 DEF HoldEffect, Replaced, Stopped, Rescheduled, Inv,
                OffIsQuiescent
  <1>4. LockKeepsHoldOff'
    BY <1>1, LockingEffect DEF HoldEffect, Replaced, Stopped, Rescheduled,
                Inv, LockKeepsHoldOff
  <1>5. ErrorMeansOff'
    BY <1>1 DEF HoldEffect, Replaced, Stopped, Rescheduled, Inv,
                ErrorMeansOff
  <1>6. SnapshotFaithful'
    <2>1. CASE snap' = Snapshot(hold) /\ hold' = hold
      BY <1>2, <2>1 DEF Snapshot, SnapshotFaithful, Holds
    <2>2. CASE snap' = snap /\ (pc' \in InFlight => pc \in InFlight)
      <3>1. snap.generation \in Nat /\ hold.generation \in Nat
        BY DEF TypeOK, Snapshots, Holds
      <3>2. \/ SameOwner
            \/ hold'.generation = hold.generation + 1
        BY <1>1 DEF HoldEffect, Replaced, Stopped, Rescheduled, SameOwner
      <3>3. CASE SameOwner
        BY <2>2, <3>1, <3>3 DEF SameOwner, Inv, SnapshotFaithful, InFlight
      <3>4. CASE hold'.generation = hold.generation + 1
        BY <2>2, <3>1, <3>4 DEF Inv, SnapshotFaithful
      <3>5. QED
        BY <3>2, <3>3, <3>4
    <2>3. QED
      BY <2>1, <2>2, SnapshotEffect
  <1>7. NoLostWakeup'
    <2> SUFFICES ASSUME pc' = "wait"
                 PROVE  /\ ~shutdown'
                        /\ hold'.enabled =>
                             \A t \in Scheduled(hold') :
                                 until' # None /\ until' <= t + 1
      BY DEF NoLostWakeup
    <2>1. CASE pc = "wait" /\ UNCHANGED <<hold, shutdown, until>>
      BY <2>1 DEF Inv, NoLostWakeup
    <2>2. CASE Sleep
      <3>1. ~shutdown /\ hold' = hold /\ shutdown' = shutdown
        BY <2>2 DEF Sleep, shared
      <3>2. ASSUME hold.enabled, NEW t \in Scheduled(hold)
            PROVE  until' # None /\ until' <= t + 1
        <4>1. \A u \in Scheduled(hold) : u > clock
          <5>1. Scheduled(hold) \subseteq Nat
            BY <1>2 DEF Scheduled, RenewAt, Holds, Optional, Caches
          <5>2. \A u \in Scheduled(hold) : ~Reached(u, clock)
            BY <2>2, <3>2 DEF Sleep, ExpireDue, RenewDue, PingDue, Scheduled
          <5>3. QED
            BY <1>2, <5>1, <5>2 DEF Reached, Scheduled
        <4>2. NextWake(hold, clock) # {}
          BY <1>2, <3>2, <4>1, NextWakeIsEarliest
        <4>3. PICK w \in NextWake(hold, clock) : until' = w + 1
          BY <2>2, <4>2 DEF Sleep
        <4>4. w \in Nat /\ t \in Nat /\ w <= t
          BY <1>2, <3>2, <4>1, NextWakeIsEarliest
        <4>5. QED
          BY <4>3, <4>4, HoldAssumption
      <3>3. QED
        BY <3>1, <3>2
    <2>3. QED
      BY <2>1, <2>2, SleepEffect
  <1>8. QED
    BY <1>3, <1>4, <1>5, <1>6, <1>7 DEF Inv

(* Hence it holds throughout every behaviour.                              *)
LEMMA Invariance == Spec => []Inv
  BY InvInit, InvNext, TypeCorrect, PTL DEF Spec

(* The scheduler never oversleeps: no schedule change and no shutdown can  *)
(* slip past its wait.                                                     *)
THEOREM NeverOversleeps == Spec => []NoLostWakeup
  <1>1. Inv => NoLostWakeup
    BY DEF Inv
  <1>2. QED
    BY <1>1, Invariance, PTL

(* While a lock is being carried out no hold is on.                        *)
THEOREM LockExcludesHold == Spec => []LockKeepsHoldOff
  <1>1. Inv => LockKeepsHoldOff
    BY DEF Inv
  <1>2. QED
    BY <1>1, Invariance, PTL

(* Nothing stays scheduled for a hold that is off.                         *)
THEOREM OffStaysQuiescent == Spec => []OffIsQuiescent
  <1>1. Inv => OffIsQuiescent
    BY DEF Inv
  <1>2. QED
    BY <1>1, Invariance, PTL

(* A snapshot of the current generation still describes the hold.          *)
THEOREM SnapshotsStayFaithful == Spec => []SnapshotFaithful
  <1>1. Inv => SnapshotFaithful
    BY DEF Inv
  <1>2. QED
    BY <1>1, Invariance, PTL

(* A hold that is on carries no error.                                     *)
THEOREM ErrorsStopTheHold == Spec => []ErrorMeansOff
  <1>1. Inv => ErrorMeansOff
    BY DEF Inv
  <1>2. QED
    BY <1>1, Invariance, PTL

(* The four together: the hold keeps its meaning whatever handlers,        *)
(* signals and late results of the scheduler do to one another.            *)
THEOREM HoldStaysSound == Spec => []HoldIsSound
  <1>1. Inv => HoldIsSound
    BY DEF Inv, HoldIsSound
  <1>2. QED
    BY <1>1, Invariance, PTL

(* An off hold comes back only by an accepted On, without a stale error.   *)
THEOREM OffIsFinalTheorem == Spec => OffIsFinal
  <1>1. TypeOK /\ [Next]_vars =>
          [~hold.enabled =>
             \/ hold'.generation = hold.generation + 1
             \/ /\ ~hold'.enabled
                /\ hold'.last_error \in {None, hold.last_error}]_vars
    BY StepEffect DEF HoldEffect, Replaced, Stopped, Rescheduled
  <1>2. QED
    BY <1>1, TypeCorrect, PTL DEF Spec, OffIsFinal

(* Once a shutdown is accepted no hold is activated.                       *)
THEOREM StoppingIsFinal == Spec => StoppingAdmitsNothing
  <1>1. TypeOK /\ [Next]_vars =>
          [stopping => hold'.generation = hold.generation]_vars
    BY StepEffect DEF HoldEffect, Replaced, Stopped, Rescheduled, SameOwner
  <1>2. QED
    BY <1>1, TypeCorrect, PTL DEF Spec, StoppingAdmitsNothing

(* Late work never touches a replacement hold.                             *)
THEOREM LateResultsDiscarded == Spec => ReplacementUntouched
  <1>1. [Next]_vars =>
          [(SchedulerStep /\ snap.generation # hold.generation) =>
             UNCHANGED hold]_vars
    BY DEF SchedulerStep, Exit, Dispatch, Sleep, WakeOnTimeout, Expire,
           PingSucceeds, PingFails, PingRecovers, RenewProceeds,
           RenewAbandoned, RenewFails, RenewSucceeds, Apply, Current, shared
  <1>2. QED
    BY <1>1, PTL DEF Spec, ReplacementUntouched

(* A ping or scheduled renewal never overtakes a passed deadline, nor a    *)
(* ping a due renewal.                                                     *)
THEOREM PrioritiesHold == Spec => PriorityRespected
  <1>1. [Next]_vars =>
          [(pc = "check" /\ pc' \in {"ping", "txn"}) =>
             /\ ~Reached(hold.deadline, clock)
             /\ pc' = "ping" => ~Reached(RenewAt(hold), clock)]_vars
    <2> SUFFICES ASSUME [Next]_vars, pc = "check", pc' \in {"ping", "txn"}
                 PROVE  /\ ~Reached(hold.deadline, clock)
                        /\ pc' = "ping" => ~Reached(RenewAt(hold), clock)
      OBVIOUS
    <2>1. Dispatch
      BY DEF Next, Handlers, SchedulerStep, On, Off, LockBegin, LockEnd,
             Shutdown, AckShutdown, Signal, NotifyAll, Exit, Sleep,
             WakeOnTimeout, Expire, PingSucceeds, PingFails, PingRecovers,
             RenewProceeds, RenewAbandoned, RenewFails, RenewSucceeds,
             Apply, WakeSpuriously, Tick, Terminated, vars, scheduler
    <2>2. QED
      BY <2>1 DEF Dispatch, RenewDue, PingDue, ExpireDue
  <1>2. QED
    BY <1>1, PTL DEF Spec, PriorityRespected

-----------------------------------------------------------------------------
(***************************************************************************)
(* The daemon implements HoldContract.                                     *)
(***************************************************************************)

(* Applying or discarding a result leaves admission and the lock alone.    *)
LEMMA ApplyContract ==
    ASSUME TypeOK, Inv, NEW result \in Holds, Apply(result),
           result.generation = hold.generation,
           \/ /\ result.enabled = hold.enabled
              /\ result.last_error = hold.last_error
           \/ /\ result.enabled = FALSE
              /\ \/ result.last_error = hold.last_error
                 \/ result.last_error \in Errors
    PROVE  [Contract!Next]_(Contract!vars)
  <1>1. stopping' = stopping /\ locking' = locking
    BY DEF Apply
  <1>2. CASE ~Current
    BY <1>1, <1>2 DEF Apply, Contract!vars
  <1>3. CASE Current
    <2>1. hold' = result /\ hold.enabled
      BY <1>3 DEF Apply, Current
    <2>2. CASE result.enabled = hold.enabled
               /\ result.last_error = hold.last_error
      BY <1>1, <2>1, <2>2 DEF Contract!vars
    <2>3. CASE result.enabled = FALSE /\ result.last_error = hold.last_error
      BY <1>1, <2>1, <2>3 DEF Contract!Next, Contract!Expire
    <2>4. CASE result.enabled = FALSE /\ result.last_error \in Errors
      BY <1>1, <2>1, <2>4 DEF Contract!Next, Contract!Fail
    <2>5. QED
      BY <2>2, <2>3, <2>4
  <1>4. QED
    BY <1>2, <1>3

(* Every step of the daemon is a step of the contract or a stutter.        *)
LEMMA ContractStep ==
    TypeOK /\ Inv /\ [Next]_vars => [Contract!Next]_(Contract!vars)
  <1> SUFFICES ASSUME TypeOK, Inv, [Next]_vars
               PROVE  [Contract!Next]_(Contract!vars)
    OBVIOUS
  <1>0. hold \in Holds /\ clock \in Nat
    BY DEF TypeOK
  <1>1. ASSUME NEW req \in Requests, On(req)
        PROVE  Contract!Activate
    <2>1. /\ hold'.enabled = TRUE
          /\ hold'.last_error = None
          /\ hold'.generation = hold.generation + 1
      BY <1>1 DEF On, TurnOn
    <2>2. ~locking /\ ~stopping /\ locking' = locking /\ stopping' = stopping
      BY <1>1 DEF On, Admitted
    <2>3. QED
      BY <2>1, <2>2 DEF Contract!Activate
  <1>2. ASSUME hold' = ClearError(TurnOff(hold))
        PROVE  /\ hold'.enabled = FALSE
               /\ hold'.last_error = None
               /\ hold'.generation = hold.generation
    BY <1>0, <1>2, TurnOffType, TurnOffFields DEF ClearError, Holds
  <1>3. CASE Off
    BY <1>2, <1>3 DEF Off, Contract!Next, Contract!Acknowledge
  <1>4. CASE LockBegin /\ hold.keygrip # None
    BY <1>2, <1>4 DEF LockBegin, Contract!Next, Contract!Lock
  <1>5. CASE LockBegin /\ hold.keygrip = None
    BY <1>2, <1>5 DEF LockBegin, TypeOK, Contract!Next, Contract!Acknowledge
  <1>6. CASE LockEnd
    BY <1>6 DEF LockEnd, Contract!Next, Contract!Unlock
  <1>7. CASE Shutdown
    BY <1>7 DEF Shutdown, Contract!Next, Contract!Close
  <1>8. CASE Signal
    BY <1>8 DEF Signal, TypeOK, Contract!Next, Contract!Close, Contract!vars
  <1>9. CASE AckShutdown
    BY <1>9 DEF AckShutdown, Contract!vars
  <1>10. CASE \/ Exit \/ Dispatch \/ Sleep \/ WakeOnTimeout
              \/ PingRecovers \/ RenewProceeds \/ RenewAbandoned
              \/ WakeSpuriously \/ Tick \/ Terminated \/ UNCHANGED vars
    <2>1. UNCHANGED <<hold, stopping, locking>>
      BY <1>10 DEF Exit, Dispatch, Sleep, WakeOnTimeout, PingRecovers,
                   RenewProceeds, RenewAbandoned, WakeSpuriously, Tick,
                   Terminated, vars, shared
    <2>2. QED
      BY <2>1 DEF Contract!vars
  <1>11. CASE Expire
    BY <1>0, <1>11, TurnOffType, TurnOffFields, ApplyContract DEF Expire
  <1>12. CASE PingSucceeds
    <2>1. RecordPingOk(hold, clock) \in Holds
      BY <1>0, RecordType DEF Errors
    <2>2. /\ RecordPingOk(hold, clock).enabled = hold.enabled
          /\ RecordPingOk(hold, clock).last_error = hold.last_error
          /\ RecordPingOk(hold, clock).generation = hold.generation
      BY <1>0 DEF RecordPingOk, Holds
    <2>3. QED
      BY <1>12, <2>1, <2>2, ApplyContract DEF PingSucceeds
  <1>13. CASE RenewSucceeds
    <2>1. RecordPingOk(hold, clock) \in Holds
          /\ RecordRenewal(hold, clock) \in Holds
      BY <1>0, RecordType DEF Errors
    <2>2. /\ RecordRenewal(hold, clock).enabled = hold.enabled
          /\ RecordRenewal(hold, clock).last_error = hold.last_error
          /\ RecordRenewal(hold, clock).generation = hold.generation
      BY <1>0, <2>1 DEF RecordRenewal, RecordPingOk, Holds
    <2>3. QED
      BY <1>13, <2>1, <2>2, ApplyContract DEF RenewSucceeds
  <1>14. ASSUME NEW reason \in Errors, Apply(RecordPingFailure(hold, reason))
         PROVE  [Contract!Next]_(Contract!vars)
    <2>1. RecordPingFailure(hold, reason) \in Holds /\ TurnOff(hold) \in Holds
      BY <1>0, RecordType, TurnOffType
    <2>2. /\ RecordPingFailure(hold, reason).enabled = FALSE
          /\ RecordPingFailure(hold, reason).last_error = reason
          /\ RecordPingFailure(hold, reason).generation = hold.generation
      BY <1>0, <2>1, TurnOffFields DEF RecordPingFailure, Holds
    <2>3. QED
      BY <1>14, <2>1, <2>2, ApplyContract
  <1>15. CASE PingFails \/ RenewFails
    BY <1>14, <1>15 DEF PingFails, RenewFails, Errors
  <1>16. QED
    BY <1>1, <1>3, <1>4, <1>5, <1>6, <1>7, <1>8, <1>9, <1>10, <1>11, <1>12,
       <1>13, <1>15
    DEF Next, Handlers, SchedulerStep, Contract!Next

(* Refinement: for every set of requests, bound and interleaving the       *)
(* daemon's hold behaves like the abstract one.                            *)
THEOREM Refinement == Spec => ImplementsContract
  <1>1. Init => Contract!Init
    BY DEF Init, Default, Contract!Init
  <1>2. TypeOK /\ Inv /\ [Next]_vars => [Contract!Next]_(Contract!vars)
    BY ContractStep
  <1>3. QED
    BY <1>1, <1>2, TypeCorrect, Invariance, PTL
    DEF Spec, ImplementsContract, Contract!Spec

-----------------------------------------------------------------------------
(***************************************************************************)
(* Session holds stay renewable while the clock has room for one more      *)
(* lifetime: CheckedAdd then never gives None.                             *)
(***************************************************************************)
HorizonAmple ==
    \A req \in Requests :
        req.max_ttl # None => MaxClock + req.max_ttl <= Horizon

(* The epoch's lifetime comes from an accepted request, also after any     *)
(* number of renewals, and a session hold's renewal is scheduled.          *)
EpochInv ==
    /\ clock <= MaxClock
    /\ hold.cache # None =>
         \E req \in Requests :
            req.max_ttl # None /\ hold.cache.max_ttl = req.max_ttl
    /\ SessionIsRenewable

(* With that room checked_add does not overflow.                           *)
LEMMA CheckedAddRoom ==
    ASSUME NEW a \in Nat, NEW b \in Nat, NEW c \in Nat,
           a <= MaxClock, b <= c, MaxClock + c <= Horizon
    PROVE  CheckedAdd(a, b) = a + b
  <1>1. Horizon \in Nat /\ MaxClock \in Nat
    BY HoldAssumption, KeepaliveAssumption
  <1>2. a + b <= Horizon
    BY <1>1
  <1>3. QED
    BY <1>2 DEF CheckedAdd

(* A step keeps the cache and its owner, drops the cache, or sets a        *)
(* renewal of the same lifetime.                                           *)
LEMMA EpochNext ==
    HorizonAmple /\ TypeOK /\ EpochInv /\ [Next]_vars => EpochInv'
  <1> SUFFICES ASSUME HorizonAmple, TypeOK, EpochInv, [Next]_vars
               PROVE  EpochInv'
    OBVIOUS
  <1>0. /\ hold \in Holds /\ clock \in Nat /\ MaxClock \in Nat
        /\ None \notin Nat /\ None \notin Caches
    BY KeepaliveAssumption, HoldAssumption DEF TypeOK
  <1>1. ASSUME UNCHANGED hold, clock' <= MaxClock
        PROVE  EpochInv'
    BY <1>1 DEF EpochInv, SessionIsRenewable, RenewAt
  <1>2. ASSUME clock' = clock, ~hold'.enabled,
               hold'.cache = None \/ hold'.cache = hold.cache
        PROVE  EpochInv'
    BY <1>2 DEF EpochInv, SessionIsRenewable
  <1>3. ASSUME NEW req \in Requests, On(req)
        PROVE  EpochInv'
    <2>1. /\ hold' = TurnOn(hold, req, clock)
          /\ clock' = clock
          /\ ActivationComplete(req)
          /\ req \in OnRequests
      BY <1>3, KeepaliveAssumption DEF On, Admitted
    <2>2. /\ hold'.cache = NewCache(req, clock)
          /\ hold'.keygrip = req.keygrip
          /\ hold'.mode = IF req.max_ttl = None THEN "none" ELSE req.mode
      BY <2>1 DEF TurnOn
    <2>3. CASE req.max_ttl = None
      BY <2>1, <2>2, <2>3 DEF NewCache, EpochInv, SessionIsRenewable
    <2>4. CASE req.max_ttl # None
      <3>1. /\ hold'.cache # None
            /\ hold'.cache.max_ttl = req.max_ttl
            /\ hold'.mode = req.mode
        <4>1. NewCache(req, clock) \in Optional(Caches)
          BY <1>0, <2>1, TurnOnType DEF Holds, TurnOn
        <4>2. NewCache(req, clock).max_ttl = req.max_ttl
          BY <2>4 DEF NewCache
        <4>3. NewCache(req, clock) # None
          <5>1. CASE req.mode = "session"
            <6>1. req.max_ttl \in Nat /\ req.age \in Nat
              BY <2>1, <2>4, <5>1 DEF OnRequests, Optional, ActivationComplete
            <6>2. RenewDelay(req.max_ttl, req.age) \in Nat
              BY <6>1, RenewDelayType
            <6>3. Larger(clock + RenewDelay(req.max_ttl, req.age), clock + 1)
                    \in Nat
              BY <1>0, <6>2 DEF Larger
            <6>4. NewCache(req, clock) \in Caches
              BY <2>4, <5>1, <6>1, <6>3 DEF NewCache, Caches, Optional
            <6>5. QED
              BY <1>0, <6>4
          <5>2. CASE req.mode # "session"
            <6>1. req.max_ttl \in Nat
              BY <2>1, <2>4 DEF OnRequests, Optional
            <6>2. NewCache(req, clock) \in Caches
              BY <2>4, <5>2, <6>1 DEF NewCache, Caches, Optional
            <6>3. QED
              BY <1>0, <6>2
          <5>3. QED
            BY <5>1, <5>2
        <4>4. QED
          BY <2>2, <2>4, <4>2, <4>3
      <3>2. ASSUME req.mode = "session"
            PROVE  hold'.keygrip # None /\ RenewAt(hold') # None
        <4>1. req.max_ttl \in Nat /\ req.age \in Nat /\ req.keygrip # None
          BY <2>1, <2>4, <3>2 DEF OnRequests, Optional, ActivationComplete
        <4>2. RenewDelay(req.max_ttl, req.age) \in Nat
          BY <4>1, RenewDelayType
        <4>3. Larger(clock + RenewDelay(req.max_ttl, req.age), clock + 1)
                \in Nat
          BY <1>0, <4>2 DEF Larger
        <4>4. NewCache(req, clock).renew_at \in Nat
          BY <2>4, <3>2, <4>3 DEF NewCache
        <4>5. QED
          BY <1>0, <2>2, <3>1, <4>1, <4>4 DEF RenewAt
      <3>3. QED
        BY <2>1, <2>4, <3>1, <3>2 DEF EpochInv, SessionIsRenewable
    <2>5. QED
      BY <2>3, <2>4
  <1>4. CASE Off \/ LockBegin
    <2>1. hold' = ClearError(TurnOff(hold)) /\ clock' = clock
      BY <1>4 DEF Off, LockBegin
    <2>2. hold'.enabled = FALSE /\ hold'.cache = None
      BY <1>0, <2>1, TurnOffType, TurnOffFields DEF ClearError, Holds
    <2>3. QED
      BY <1>2, <2>1, <2>2
  <1>5. CASE \/ LockEnd \/ Shutdown \/ AckShutdown \/ Signal \/ Exit
             \/ Dispatch \/ Sleep \/ WakeOnTimeout \/ PingRecovers
             \/ RenewProceeds \/ RenewAbandoned \/ WakeSpuriously
             \/ Terminated \/ UNCHANGED vars
    <2>1. UNCHANGED <<hold, clock>>
      BY <1>5 DEF LockEnd, Shutdown, AckShutdown, Signal, Exit, Dispatch,
                  Sleep, WakeOnTimeout, PingRecovers, RenewProceeds,
                  RenewAbandoned, WakeSpuriously, Terminated, vars, shared
    <2>2. clock' <= MaxClock
      BY <2>1 DEF EpochInv
    <2>3. QED
      BY <1>1, <2>1, <2>2
  <1>6. CASE Tick
    <2>1. hold' = hold /\ clock' <= MaxClock
      BY <1>0, <1>6 DEF Tick, shared
    <2>2. QED
      BY <1>1, <2>1
  <1>7. ASSUME NEW result \in Holds, Apply(result),
               result.enabled = FALSE, result.cache = None
        PROVE  EpochInv'
    <2>1. CASE Current
      BY <1>2, <1>7, <2>1 DEF Apply
    <2>2. CASE ~Current
      <3>1. UNCHANGED hold /\ clock' <= MaxClock
        BY <1>7, <2>2 DEF Apply, EpochInv
      <3>2. QED
        BY <1>1, <3>1
    <2>3. QED
      BY <2>1, <2>2
  <1>8. CASE Expire
    BY <1>0, <1>7, <1>8, TurnOffType, TurnOffFields DEF Expire
  <1>9. ASSUME NEW reason \in Errors, Apply(RecordPingFailure(hold, reason))
        PROVE  EpochInv'
    <2>1. RecordPingFailure(hold, reason) \in Holds /\ TurnOff(hold) \in Holds
      BY <1>0, <1>9, RecordType, TurnOffType
    <2>2. /\ RecordPingFailure(hold, reason).enabled = FALSE
          /\ RecordPingFailure(hold, reason).cache = None
      BY <1>0, <2>1, TurnOffFields DEF RecordPingFailure, Holds
    <2>3. QED
      BY <1>7, <1>9, <2>1, <2>2
  <1>10. CASE PingFails \/ RenewFails
    BY <1>9, <1>10 DEF PingFails, RenewFails, Errors
  <1>11. CASE PingSucceeds
    <2>1. CASE ~Current
      BY <1>1, <1>11, <2>1 DEF PingSucceeds, Apply, EpochInv
    <2>2. CASE Current
      <3>1. hold' = RecordPingOk(hold, clock) /\ clock' = clock
        BY <1>11, <2>2 DEF PingSucceeds, Apply
      <3>2. /\ hold'.enabled = hold.enabled
            /\ hold'.mode = hold.mode
            /\ hold'.keygrip = hold.keygrip
            /\ hold'.cache = hold.cache
        BY <1>0, <3>1 DEF RecordPingOk, Holds
      <3>3. QED
        BY <3>1, <3>2 DEF EpochInv, SessionIsRenewable, RenewAt
    <2>3. QED
      BY <2>1, <2>2
  <1>12. CASE RenewSucceeds
    <2>1. CASE ~Current
      BY <1>1, <1>12, <2>1 DEF RenewSucceeds, Apply, EpochInv
    <2>2. CASE Current
      <3>1. hold' = RecordRenewal(hold, clock) /\ clock' = clock
        BY <1>12, <2>2 DEF RenewSucceeds, Apply
      <3>2. RecordPingOk(hold, clock) \in Holds
        BY <1>0, RecordType DEF Errors
      <3>3. /\ hold'.enabled = hold.enabled
            /\ hold'.mode = hold.mode
            /\ hold'.keygrip = hold.keygrip
            /\ hold'.cache = RenewedCache(hold.cache, clock)
        BY <1>0, <3>1, <3>2 DEF RecordRenewal, RecordPingOk, Holds
      <3>4. CASE hold.cache = None
        BY <3>1, <3>3, <3>4 DEF RenewedCache, EpochInv, SessionIsRenewable
      <3>5. CASE hold.cache # None
        <4>1. hold.cache \in Caches
          BY <1>0, <3>5 DEF Holds, Optional
        <4>2. PICK req \in Requests : /\ req.max_ttl # None
                                      /\ hold.cache.max_ttl = req.max_ttl
          BY <3>5 DEF EpochInv
        <4>3. MaxClock + hold.cache.max_ttl <= Horizon /\ clock <= MaxClock
          BY <4>2 DEF HorizonAmple, EpochInv
        <4> DEFINE rest == SaturatingSub(hold.cache.max_ttl,
                                         RenewMargin(hold.cache.max_ttl))
        <4>4. rest \in Nat /\ rest <= hold.cache.max_ttl
          <5>1. hold.cache.max_ttl \in Nat
            BY <4>1 DEF Caches
          <5>2. hold.cache.max_ttl \div 10 \in Nat
            BY <5>1
          <5>3. RenewMargin(hold.cache.max_ttl) \in Nat
            BY <5>2 DEF RenewMargin, Smaller
          <5>4. QED
            BY <5>1, <5>3 DEF SaturatingSub
        <4>5. hold.cache.max_ttl \in Nat /\ Horizon \in Nat
          BY <4>1, HoldAssumption DEF Caches
        <4> HIDE DEF rest
        <4>6. CheckedAdd(clock, rest) = clock + rest
          BY <1>0, <4>3, <4>4, <4>5, CheckedAddRoom
        <4>7. /\ hold'.cache.max_ttl = hold.cache.max_ttl
              /\ hold'.cache.renew_at = clock + rest
          BY <3>3, <3>5, <4>1, <4>6 DEF RenewedCache, Caches, rest
        <4>8. hold'.cache # None
          <5>1. RenewedCache(hold.cache, clock) \in Caches
            <6>1. clock + rest \in Optional(Nat)
              BY <1>0, <4>4 DEF Optional
            <6>2. QED
              BY <3>5, <4>1, <4>6, <6>1 DEF RenewedCache, Caches, rest, Optional
          <5>2. QED
            BY <1>0, <3>3, <5>1
        <4>9. RenewAt(hold') # None
          BY <1>0, <4>4, <4>7, <4>8 DEF RenewAt
        <4>10. QED
          BY <3>1, <3>3, <4>2, <4>7, <4>8, <4>9 DEF EpochInv, SessionIsRenewable
      <3>6. QED
        BY <3>4, <3>5
    <2>3. QED
      BY <2>1, <2>2
  <1>13. QED
    BY <1>3, <1>4, <1>5, <1>6, <1>8, <1>10, <1>11, <1>12
    DEF Next, Handlers, SchedulerStep

(* With room on the clock no renewal is ever dropped from the schedule of  *)
(* a session hold.                                                         *)
THEOREM SessionStaysRenewable ==
    ASSUME HorizonAmple
    PROVE  Spec => []SessionIsRenewable
  <1>1. Init => EpochInv
    BY KeepaliveAssumption DEF Init, Default, EpochInv, SessionIsRenewable
  <1>2. TypeOK /\ EpochInv /\ [Next]_vars => EpochInv'
    BY EpochNext
  <1>3. EpochInv => SessionIsRenewable
    BY DEF EpochInv
  <1>4. QED
    BY <1>1, <1>2, <1>3, TypeCorrect, PTL DEF Spec
=============================================================================
