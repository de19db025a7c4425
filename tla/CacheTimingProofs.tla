-------------------------- MODULE CacheTimingProofs --------------------------
(***************************************************************************)
(* EntryOutlivesHold for every lifetime, plan, lag and clock jump.  The    *)
(* inductive invariant relates each instant the hold has scheduled to the  *)
(* birth and the last use of the agent's entry, which the daemon does not  *)
(* see: what the daemon schedules is early enough by at least the lag.     *)
(***************************************************************************)
EXTENDS CacheTiming, TLAPS

(* What the daemon adds stays representable.                               *)
Representable ==
    /\ MaxTime + MaxTTL <= Horizon
    /\ \A p \in Plans : MaxTime + p.interval <= Horizon

Signeds ==
    [step : {"signed"}, plan : Plans, since : Nat, policy : BOOLEAN,
     pinentry : Evidence]

Starteds ==
    [step : {"started"}, plan : Plans, since : Nat, policy : BOOLEAN,
     pinentry : Evidence, started : Optional(Int)]

Readies ==
    [step : {"ready"}, since : Nat, started : Optional(Int), plan : Plans,
     policy : BOOLEAN, warned : BOOLEAN, informed : BOOLEAN,
     age : Optional(Nat)]

Clients ==
    {Idle} \cup [step : {"locked", "cleared"}, plan : Plans]
    \cup Signeds \cup Starteds \cup Readies

Scheds ==
    {Idle} \cup [step : {"waiting", "pinged", "renewed", "failed"},
                 since : Nat, generation : Nat]

TypeInv ==
    /\ now \in Nat
    /\ now <= MaxTime
    /\ wall \in Int
    /\ entry \in Optional(Entries)
    /\ entry # None => entry.born <= now /\ entry.used <= now
    /\ client \in Clients
    /\ sched \in Scheds
    /\ hold \in Holds
    /\ hold.enabled =>
         plan \in [plan : Plans, warned : BOOLEAN, informed : BOOLEAN]

(* As Birth: a use of an entry that was cleared is yet to come.            *)
LastUse == IF entry = None THEN now ELSE entry.used

(* The signature is recent; a launched pinentry made the entry, and only   *)
(* that leads to no warning by an activation that knew all.                *)
ClientInv ==
    /\ client.step \in {"signed", "started", "ready"} =>
        /\ now <= client.since + ClientLag
        /\ LastUse >= client.since
    /\ client.step \in {"signed", "started"} =>
        /\ client.plan.mode = "session" => client.pinentry = "launched"
        /\ client.pinentry = "launched" => Birth >= client.since
    /\ client.step = "ready" =>
        /\ client.informed => client.policy
        /\ (client.informed /\ ~client.warned) => Birth >= client.since

SchedInv ==
    /\ sched.step # "idle" => sched.generation <= hold.generation
    /\ sched.step \in {"pinged", "renewed", "failed"} =>
         now <= sched.since + DaemonLag
    /\ sched.step \in {"pinged", "renewed"} => LastUse >= sched.since
    /\ sched.step = "renewed" => Birth >= sched.since

Promised ==
    hold.enabled /\ plan.informed /\ ~plan.warned /\ Roomy(plan.plan)

PingsEarly ==
    /\ hold.next_ping # None
    /\ ~Serving({"pinged", "renewed"}) =>
         hold.next_ping + DaemonLag < LastUse + DefaultTTL

RenewsEarly ==
    /\ hold.cache # None
    /\ hold.cache.max_ttl = MaxTTL
    /\ RenewAt(hold) # None
    /\ ~Serving({"renewed"}) =>
         RenewAt(hold) + DaemonLag < Birth + MaxTTL

EndsEarly ==
    /\ hold.deadline # None
    /\ hold.deadline + DaemonLag < Birth + MaxTTL

HoldInv ==
    Promised =>
        /\ hold.interval = plan.plan.interval
        /\ PingsEarly
        /\ plan.plan.mode = "session" => RenewsEarly
        /\ plan.plan.mode = "none" => EndsEarly

IInv == TypeInv /\ ClientInv /\ SchedInv /\ HoldInv

-----------------------------------------------------------------------------
(* Arithmetic of Hold.                                                     *)

(* A tenth of the maximum, or a minute, exceeds the lag.                   *)
LEMMA MarginCovers ==
    ASSUME NEW ttl \in Nat, NEW lag \in Nat,
           10 * (lag + 1) <= ttl, lag < 60000
    PROVE  /\ RenewMargin(ttl) \in Nat
           /\ lag < RenewMargin(ttl)
           /\ RenewMargin(ttl) <= ttl
  <1>1. ttl \div 10 \in Nat /\ lag + 1 <= ttl \div 10 /\ ttl \div 10 <= ttl
    OBVIOUS
  <1>2. QED
    BY <1>1 DEF RenewMargin, Smaller

(* A renewal is due at the latest a margin before the end of a lifetime    *)
(* that starts when it is scheduled.                                       *)
LEMMA DelayBound ==
    ASSUME NEW ttl \in Nat, NEW age \in Nat, NEW m \in Nat,
           m = RenewMargin(ttl), m <= ttl
    PROVE  /\ RenewDelay(ttl, age) \in Nat
           /\ RenewDelay(ttl, age) <= ttl - m
           /\ SaturatingSub(ttl, RenewMargin(ttl)) = ttl - m
  BY DEF RenewDelay, SaturatingSub

(* Scheduled x from now, at most c after the lifetime began, and done d    *)
(* late: still within a lifetime that exceeds x by more than the lag.      *)
LEMMA EarlyEnough ==
    ASSUME NEW t \in Nat, NEW since \in Nat, NEW c \in Nat, NEW d \in Nat,
           NEW b \in Nat, NEW ttl \in Nat, NEW x \in Nat, NEW lag \in Nat,
           t <= since + c, since <= b, c + d <= lag, x + lag < ttl
    PROVE  (t + x) + d < b + ttl
  OBVIOUS

(* The lag is a duration.                                                  *)
LEMMA LagType ==
    /\ Lag \in Nat
    /\ ClientLag + DaemonLag <= Lag
    /\ DaemonLag + DaemonLag <= Lag
    /\ ClientLag \in Nat
    /\ DaemonLag \in Nat
  BY TimingAssumption DEF Lag, Larger

-----------------------------------------------------------------------------
(* The start.                                                              *)

LEMMA InitInv == Init => IInv
  <1> SUFFICES ASSUME Init
               PROVE  IInv
    OBVIOUS
  <1>1. Default \in Holds /\ Default.enabled = FALSE
    BY DEF Default, Holds, Optional, Modes
  <1>2. TypeInv
    BY <1>1, TimingAssumption DEF Init, TypeInv, Optional, Clients, Scheds
  <1>3. client.step = "idle" /\ sched.step = "idle" /\ ~hold.enabled
    BY <1>1 DEF Init, Idle
  <1>4. QED
    BY <1>2, <1>3 DEF IInv, ClientInv, SchedInv, HoldInv, Promised

-----------------------------------------------------------------------------
(* Typing.                                                                 *)

(* turn_on by an admitted plan, turn_off and the records keep the hold     *)
(* well formed.                                                            *)
LEMMA RequestType ==
    ASSUME TypeInv, client.step = "ready"
    PROVE  /\ client \in Readies
           /\ Request \in OnRequests
           /\ Request.max_ttl \in {MaxTTL, None}
  <1>1. client \in Readies
    BY DEF TypeInv, Clients, Idle, Signeds, Starteds
  <1>2. /\ client.plan \in PlanSet /\ client.age \in Optional(Nat)
        /\ MaxTTL \in Nat
    BY <1>1, TimingAssumption DEF Readies
  <1>3. (IF client.policy THEN MaxTTL ELSE None) \in Optional(Nat)
    BY <1>2 DEF Optional
  <1>4. QED
    BY <1>1, <1>2, <1>3, TimingAssumption
    DEF Request, OnRequests, PlanSet, Modes, Optional

(* The hold turn_on makes of the request is well formed.                   *)
LEMMA HandoffType ==
    ASSUME TypeInv, Handoff
    PROVE  /\ hold' \in Holds
           /\ Request.max_ttl = MaxTTL => NewCache(Request, now) \in Caches
  <1>0. client.step = "ready" /\ now \in Nat /\ hold \in Holds
    BY DEF Handoff, TypeInv
  <1>1. /\ Request \in OnRequests
        /\ Request.max_ttl \in {MaxTTL, None}
        /\ MaxTTL \in Nat
        /\ MaxTTL # None
    BY <1>0, RequestType, TimingAssumption, HoldAssumption
  <1>2. ASSUME Request.max_ttl = MaxTTL
        PROVE  NewCache(Request, now) \in Caches
    <2>1. CASE Request.mode = "session"
      <3>1. Request.age \in Nat
        BY <1>1, <1>2, <2>1 DEF Handoff, Schedulable, OnRequests, Optional
      <3>2. RenewDelay(MaxTTL, Request.age) \in Nat
        <4>1. MaxTTL \div 10 \in Nat
          BY <1>1
        <4>2. RenewMargin(MaxTTL) \in Nat
          BY <1>1, <4>1 DEF RenewMargin, Smaller
        <4>3. QED
          BY <1>1, <3>1, <4>2 DEF RenewDelay, SaturatingSub
      <3>3. Larger(now + RenewDelay(MaxTTL, Request.age), now + 1) \in Nat
        BY <1>0, <3>2 DEF Larger
      <3>4. QED
        BY <1>1, <1>2, <2>1, <3>3 DEF NewCache, Caches, Optional
    <2>2. CASE Request.mode # "session"
      BY <1>1, <1>2, <2>2 DEF NewCache, Caches, Optional
    <2>3. QED
      BY <2>1, <2>2
  <1>3. NewCache(Request, now) \in Optional(Caches)
    BY <1>1, <1>2 DEF NewCache, Optional
  <1>4. (IF Request.hold_for = None THEN None ELSE now + Request.hold_for)
          \in Optional(Nat)
    BY <1>0, <1>1 DEF OnRequests, Optional
  <1>5. now + Request.interval \in Nat /\ Request.interval \in Nat
    BY <1>0, <1>1 DEF OnRequests
  <1>6. (IF Request.max_ttl = None THEN "none" ELSE Request.mode) \in Modes
    BY <1>1 DEF OnRequests, Modes
  <1>7. hold.generation + 1 \in Nat /\ Request.keygrip \in Optional(Keygrips)
    BY <1>0, <1>1 DEF Holds, OnRequests
  <1>8. TurnOn(hold, Request, now) \in Holds
    BY <1>3, <1>4, <1>5, <1>6, <1>7 DEF TurnOn, Holds, Optional
  <1>9. QED
    BY <1>2, <1>8 DEF Handoff

(* So are the holds that turn_off and the record_* operations leave.       *)
LEMMA RecordTypes ==
    ASSUME NEW h \in Holds, NEW t \in Nat
    PROVE  /\ TurnOff(h) \in Holds
           /\ RecordPingOk(h, t) \in Holds
           /\ RecordRenewal(h, t) \in Holds
           /\ \A reason \in Errors : RecordPingFailure(h, reason) \in Holds
  <1>1. TurnOff(h) \in Holds
    BY DEF TurnOff, Holds, Optional
  <1>2. RecordPingOk(h, t) \in Holds
    <2>1. CheckedAdd(t, h.interval) \in Optional(Nat)
      BY DEF CheckedAdd, Optional, Holds
    <2>2. QED
      BY <2>1 DEF RecordPingOk, Holds
  <1>3. RenewedCache(h.cache, t) \in Optional(Caches)
    <2>1. CASE h.cache = None
      BY <2>1 DEF RenewedCache, Optional
    <2>2. CASE h.cache # None
      <3>1. h.cache \in Caches
        BY <2>2 DEF Holds, Optional
      <3>2. h.cache.max_ttl \in Nat /\ h.cache.max_ttl \div 10 \in Nat
        BY <3>1 DEF Caches
      <3>3. RenewMargin(h.cache.max_ttl) \in Nat
        BY <3>2 DEF RenewMargin, Smaller
      <3>4. SaturatingSub(h.cache.max_ttl, RenewMargin(h.cache.max_ttl)) \in Nat
        BY <3>2, <3>3 DEF SaturatingSub
      <3>5. CheckedAdd(t, SaturatingSub(h.cache.max_ttl,
                                        RenewMargin(h.cache.max_ttl)))
              \in Optional(Nat)
        BY <3>4 DEF CheckedAdd, Optional
      <3>6. QED
        BY <2>2, <3>1, <3>5 DEF RenewedCache, Caches, Optional
    <2>3. QED
      BY <2>1, <2>2
  <1>4. RecordRenewal(h, t) \in Holds
    BY <1>2, <1>3 DEF RecordRenewal, Holds
  <1>5. \A reason \in Errors : RecordPingFailure(h, reason) \in Holds
    BY <1>1 DEF RecordPingFailure, Holds, Optional, Errors
  <1>6. QED
    BY <1>1, <1>2, <1>4, <1>5

(* What the records change, and what they leave.                           *)
LEMMA RecordFields ==
    ASSUME NEW h \in Holds, NEW t \in Nat
    PROVE  /\ RecordPingOk(h, t).enabled = h.enabled
           /\ RecordPingOk(h, t).interval = h.interval
           /\ RecordPingOk(h, t).deadline = h.deadline
           /\ RecordPingOk(h, t).generation = h.generation
           /\ RecordPingOk(h, t).cache = h.cache
           /\ RecordPingOk(h, t).next_ping = CheckedAdd(t, h.interval)
           /\ RecordRenewal(h, t).enabled = h.enabled
           /\ RecordRenewal(h, t).interval = h.interval
           /\ RecordRenewal(h, t).deadline = h.deadline
           /\ RecordRenewal(h, t).generation = h.generation
           /\ RecordRenewal(h, t).cache = RenewedCache(h.cache, t)
           /\ RecordRenewal(h, t).next_ping = CheckedAdd(t, h.interval)
           /\ \A reason \in Errors :
                /\ RecordPingFailure(h, reason).enabled = FALSE
                /\ RecordPingFailure(h, reason).generation = h.generation
           /\ TurnOff(h).enabled = FALSE
           /\ TurnOff(h).generation = h.generation
  <1>1. RecordPingOk(h, t) \in Holds /\ TurnOff(h) \in Holds
    BY RecordTypes
  <1>2. /\ RecordPingOk(h, t).enabled = h.enabled
        /\ RecordPingOk(h, t).interval = h.interval
        /\ RecordPingOk(h, t).deadline = h.deadline
        /\ RecordPingOk(h, t).generation = h.generation
        /\ RecordPingOk(h, t).cache = h.cache
        /\ RecordPingOk(h, t).next_ping = CheckedAdd(t, h.interval)
    BY DEF RecordPingOk, Holds
  <1>3. TurnOff(h).enabled = FALSE /\ TurnOff(h).generation = h.generation
    BY DEF TurnOff, Holds
  <1>4. \A reason \in Errors :
          /\ RecordPingFailure(h, reason).enabled = FALSE
          /\ RecordPingFailure(h, reason).generation = h.generation
    BY <1>1, <1>3 DEF RecordPingFailure, Holds
  <1>5. /\ RecordRenewal(h, t).enabled = RecordPingOk(h, t).enabled
        /\ RecordRenewal(h, t).interval = RecordPingOk(h, t).interval
        /\ RecordRenewal(h, t).deadline = RecordPingOk(h, t).deadline
        /\ RecordRenewal(h, t).generation = RecordPingOk(h, t).generation
        /\ RecordRenewal(h, t).next_ping = RecordPingOk(h, t).next_ping
        /\ RecordRenewal(h, t).cache = RenewedCache(h.cache, t)
    BY <1>1 DEF RecordRenewal, Holds
  <1>6. QED
    BY <1>2, <1>3, <1>4, <1>5

(* An entry was made and used by now; one that was cleared is yet to be.   *)
LEMMA Lives ==
    ASSUME TypeInv
    PROVE  /\ Birth \in Nat /\ Birth <= now
           /\ LastUse \in Nat /\ LastUse <= now
  BY DEF TypeInv, Birth, LastUse, Entries, Optional

(* A signature leaves an entry that is used now.                           *)
LEMMA NewEntry ==
    ASSUME TypeInv, now' = now,
           entry' = Fresh \/ (entry # None /\ entry' = Used)
    PROVE  /\ entry' \in Optional(Entries)
           /\ entry'.born <= now
           /\ entry'.used <= now
           /\ LastUse' = now
           /\ entry' = Fresh => Birth' = now
  <1>1. now \in Nat /\ entry \in Optional(Entries) /\ None \notin Entries
    BY TimingAssumption DEF TypeInv
  <1>2. Fresh \in Entries /\ Fresh.born = now /\ Fresh.used = now
    BY <1>1 DEF Fresh, Entries
  <1>3. ASSUME entry # None
        PROVE  /\ entry.born \in Nat /\ entry.born <= now
               /\ Used \in Entries
               /\ Used.born = entry.born
               /\ Used.used = now
    BY <1>1, <1>3 DEF TypeInv, Used, Entries, Optional
  <1>4. CASE entry' = Fresh
    BY <1>1, <1>2, <1>4 DEF Optional, Birth, LastUse
  <1>5. CASE entry # None /\ entry' = Used
    <2>1. entry' # None /\ LastUse' = now
      BY <1>1, <1>3, <1>5 DEF LastUse
    <2>2. entry' = Fresh => Birth' = now
      BY <1>1, <1>2, <2>1 DEF Birth
    <2>3. QED
      BY <1>1, <1>3, <1>5, <2>1, <2>2 DEF Optional
  <1>6. QED
    BY <1>4, <1>5

(* The entry only gets newer, whether it is used, made anew or cleared.    *)
LEMMA Newer ==
    ASSUME TypeInv, TypeInv', now' \in {now, now + 1},
           \/ entry' \in {entry, None}
           \/ now' = now /\ (entry' = Fresh \/ (entry # None /\ entry' = Used))
    PROVE  Birth' >= Birth /\ LastUse' >= LastUse
  <1>1. /\ Birth \in Nat /\ Birth <= now
        /\ LastUse \in Nat /\ LastUse <= now
        /\ now \in Nat /\ now' >= now
    BY Lives DEF TypeInv
  <1>2. CASE entry' = entry /\ entry # None
    BY <1>1, <1>2 DEF Birth, LastUse
  <1>3. CASE entry' = None
    BY <1>1, <1>3 DEF Birth, LastUse
  <1>4. CASE now' = now /\ (entry' = Fresh \/ (entry # None /\ entry' = Used))
    <2>1. LastUse' = now /\ (entry' = Fresh => Birth' = now)
      BY <1>4, NewEntry
    <2>2. (entry # None /\ entry' = Used) => Birth' = Birth
      <3>1. SUFFICES ASSUME entry # None, entry' = Used
                     PROVE  Birth' = Birth
        OBVIOUS
      <3>2. entry \in Entries
        BY <3>1 DEF TypeInv, Optional
      <3>3. Used.born = entry.born /\ Used \in Entries
        BY <1>1, <3>2 DEF Used, Entries
      <3>4. QED
        BY <3>1, <3>3, TimingAssumption DEF Birth
    <2>3. QED
      BY <1>1, <1>4, <2>1, <2>2
  <1>5. QED
    BY <1>2, <1>3, <1>4

(* What the client knows at each step.                                     *)
LEMMA ClientType ==
    ASSUME TypeInv
    PROVE  /\ client.step = "signed" => client \in Signeds
           /\ client.step = "started" => client \in Starteds
           /\ client.step = "ready" => client \in Readies
           /\ client.step \in {"locked", "cleared"} =>
                client \in [step : {"locked", "cleared"}, plan : Plans]
           /\ client.step \in {"signed", "started", "ready"} =>
                client.since \in Nat
  BY DEF TypeInv, Clients, Signeds, Starteds, Readies, Idle

(* So do the hold and the scheduler's work keep theirs.                    *)
LEMMA SchedType ==
    ASSUME TypeInv, sched.step # "idle"
    PROVE  /\ sched.step \in {"waiting", "pinged", "renewed", "failed"}
           /\ sched.since \in Nat
           /\ sched.generation \in Nat
  BY DEF TypeInv, Scheds, Idle

(* Every step of the client keeps the types,                               *)
LEMMA ClientTypeStep ==
    ASSUME TypeInv,
           \/ \E p \in Plans : OrdinarySigns(p) \/ StoredBegins(p)
           \/ Clear \/ StoredSigns \/ TakeStart \/ TakeActivated
           \/ Handoff \/ GiveUp
    PROVE  TypeInv'
  <1>0. hold \in Holds /\ now \in Nat /\ wall \in Int
    BY DEF TypeInv
  <1>1. ASSUME NEW p \in Plans, NEW policy \in BOOLEAN,
               NEW pinentry \in Evidence
        PROVE  Signed(p, policy, pinentry) \in Clients
    BY <1>0 DEF Signed, Clients, Signeds
  <1>2. ASSUME NEW p \in Plans, OrdinarySigns(p)
        PROVE  TypeInv'
    <2>1. entry' = Fresh \/ (entry # None /\ entry' = Used)
      BY <1>2 DEF OrdinarySigns, Alive
    <2>2. /\ entry' \in Optional(Entries)
          /\ entry'.born <= now
          /\ entry'.used <= now
      BY <1>0, <1>2, <2>1, NewEntry DEF OrdinarySigns
    <2>3. client' \in Clients
      <3>1. {"unknown", "cached", "launched"} = Evidence
        BY DEF Evidence
      <3>2. \E policy \in BOOLEAN, pinentry \in Evidence :
              client' = Signed(p, policy, pinentry)
        BY <1>2, <3>1 DEF OrdinarySigns
      <3>3. QED
        BY <1>1, <1>2, <3>2
    <2>4. QED
      BY <1>2, <2>2, <2>3 DEF OrdinarySigns, TypeInv
  <1>3. ASSUME NEW p \in Plans, StoredBegins(p)
        PROVE  TypeInv'
    BY <1>3 DEF StoredBegins, TypeInv, Clients
  <1>4. CASE Clear
    <2>1. client.plan \in Plans
      BY <1>4, ClientType DEF Clear
    <2>2. client' \in Clients
      BY <1>4, <2>1 DEF Clear, Clients
    <2>3. QED
      BY <1>4, <2>2 DEF Clear, TypeInv, Optional
  <1>5. CASE StoredSigns
    <2>1. client.plan \in Plans
      BY <1>5, ClientType DEF StoredSigns
    <2>2. client' \in Clients
      BY <1>1, <1>5, <2>1 DEF StoredSigns, Evidence
    <2>3. /\ entry' \in Optional(Entries)
          /\ entry'.born <= now
          /\ entry'.used <= now
      BY <1>0, <1>5, NewEntry DEF StoredSigns
    <2>4. QED
      BY <1>5, <2>2, <2>3 DEF StoredSigns, TypeInv
  <1>6. CASE TakeStart
    <2>1. client \in Signeds
      BY <1>6, ClientType DEF TakeStart
    <2>2. Start(client.policy, client.pinentry) \in Optional(Int)
      BY <1>0 DEF Start, Optional
    <2>3. client' \in Clients
      BY <1>6, <2>1, <2>2 DEF TakeStart, Signeds, Starteds, Clients
    <2>4. QED
      BY <1>6, <2>3 DEF TakeStart, TypeInv
  <1>7. CASE TakeActivated
    <2>1. client \in Starteds
      BY <1>7, ClientType DEF TakeActivated
    <2>2. Age(client.started) \in Optional(Nat)
      BY <1>0, <2>1 DEF Age, SaturatingSub, Optional, Starteds
    <2>3. /\ Warned(client.plan, client.policy, client.pinentry) \in BOOLEAN
          /\ Informed(client.policy, client.pinentry) \in BOOLEAN
      BY DEF Warned, Informed
    <2>4. client' \in Readies
      BY <1>7, <2>1, <2>2, <2>3 DEF TakeActivated, Starteds, Readies
    <2>5. QED
      BY <1>7, <2>4 DEF TakeActivated, TypeInv, Clients
  <1>8. CASE Handoff
    <2>1. hold' \in Holds
      BY <1>8, HandoffType
    <2>2. plan' \in [plan : Plans, warned : BOOLEAN, informed : BOOLEAN]
      BY <1>8, RequestType DEF Handoff, Readies
    <2>3. QED
      BY <1>8, <2>1, <2>2 DEF Handoff, TypeInv, Clients
  <1>9. CASE GiveUp
    BY <1>9 DEF GiveUp, TypeInv, Clients
  <1>10. QED
    BY <1>2, <1>3, <1>4, <1>5, <1>6, <1>7, <1>8, <1>9

(* every step of the scheduler,                                            *)
LEMMA SchedTypeStep ==
    ASSUME TypeInv,
           \/ Ping \/ RenewalBegins \/ Superseded \/ Renew
           \/ PingFails \/ Record \/ Expire
    PROVE  TypeInv'
  <1>0. hold \in Holds /\ hold.generation \in Nat /\ now \in Nat
    BY DEF TypeInv, Holds
  <1>1. \A step \in {"waiting", "pinged", "renewed", "failed"} :
          Working(step) \in Scheds
    BY <1>0 DEF Working, Scheds
  <1>2. CASE Ping \/ Renew
    <2>1. \/ entry' = Fresh \/ (entry # None /\ entry' = Used)
          \/ entry' \in {entry, None}
      BY <1>2 DEF Ping, Renew, Alive
    <2>2. now' = now
      BY <1>2 DEF Ping, Renew
    <2>3. /\ entry' \in Optional(Entries)
          /\ entry' # None => entry'.born <= now /\ entry'.used <= now
      BY <2>1, <2>2, NewEntry DEF TypeInv, Optional
    <2>4. sched' \in Scheds
      BY <1>1, <1>2 DEF Ping, Renew
    <2>5. UNCHANGED <<now, wall, client, hold, plan>>
      BY <1>2 DEF Ping, Renew
    <2>6. QED
      BY <2>3, <2>4, <2>5 DEF TypeInv
  <1>3. CASE RenewalBegins
    BY <1>1, <1>3 DEF RenewalBegins, TypeInv
  <1>4. CASE Superseded
    BY <1>4 DEF Superseded, TypeInv, Scheds
  <1>5. CASE PingFails \/ Expire
    <2>1. hold' \in Holds /\ hold'.enabled = FALSE
      BY <1>0, <1>5, RecordTypes, RecordFields DEF PingFails, Expire, Errors
    <2>2. QED
      BY <1>5, <2>1 DEF PingFails, Expire, TypeInv
  <1>6. CASE Record
    <2>1. hold' \in {hold, RecordPingOk(hold, now), RecordRenewal(hold, now),
                     RecordPingFailure(hold, "renewal")}
      BY <1>6 DEF Record
    <2>2. hold' \in Holds /\ (hold'.enabled => hold.enabled)
      <3>1. /\ RecordPingOk(hold, now) \in Holds
            /\ RecordRenewal(hold, now) \in Holds
            /\ RecordPingFailure(hold, "renewal") \in Holds
        BY <1>0, RecordTypes DEF Errors
      <3>2. /\ RecordPingOk(hold, now).enabled = hold.enabled
            /\ RecordRenewal(hold, now).enabled = hold.enabled
            /\ RecordPingFailure(hold, "renewal").enabled = FALSE
        BY <1>0, RecordFields DEF Errors
      <3>3. QED
        BY <1>0, <2>1, <3>1, <3>2
    <2>3. sched' \in Scheds
      BY <1>6 DEF Record, Scheds
    <2>4. QED
      BY <1>6, <2>2, <2>3 DEF Record, TypeInv
  <1>7. QED
    BY <1>2, <1>3, <1>4, <1>5, <1>6

(* and the clock's.                                                        *)
LEMMA TypeStep == TypeInv /\ [Next]_vars => TypeInv'
  <1> SUFFICES ASSUME TypeInv, [Next]_vars
               PROVE  TypeInv'
    OBVIOUS
  <1>1. CASE SetClock
    BY <1>1, TimingAssumption DEF SetClock, TypeInv
  <1>2. CASE Tick
    <2>1. now' \in Nat /\ now' <= MaxTime /\ wall' \in Int
      BY <1>2, TimingAssumption DEF Tick, TypeInv
    <2>2. entry # None => entry.born <= now' /\ entry.used <= now'
      BY <1>2 DEF Tick, TypeInv, Optional, Entries
    <2>3. QED
      BY <1>2, <2>1, <2>2 DEF Tick, TypeInv
  <1>3. CASE Over \/ UNCHANGED vars
    BY <1>3 DEF Over, vars, TypeInv
  <1>4. QED
    BY <1>1, <1>2, <1>3, ClientTypeStep, SchedTypeStep DEF Next

-----------------------------------------------------------------------------
(* The invariant survives every step.                                      *)

(* The entry only gets newer: a hold that nobody touches keeps what it was *)
(* promised, as long as the scheduler still serves it if it did.           *)
LEMMA HoldKept ==
    ASSUME TypeInv, TypeInv', HoldInv,
           UNCHANGED <<hold, plan>>,
           Birth' >= Birth, LastUse' >= LastUse,
           Serving({"renewed"}) => Serving({"renewed"})',
           Serving({"pinged", "renewed"}) => Serving({"pinged", "renewed"})'
    PROVE  HoldInv'
  <1> SUFFICES ASSUME Promised'
               PROVE  /\ hold'.interval = plan'.plan.interval
                      /\ PingsEarly'
                      /\ plan'.plan.mode = "session" => RenewsEarly'
                      /\ plan'.plan.mode = "none" => EndsEarly'
    BY DEF HoldInv
  <1>1. Promised
    BY DEF Promised, Roomy
  <1>2. hold \in Holds
    BY DEF TypeInv
  <1>3. /\ Birth \in Nat /\ LastUse \in Nat
        /\ Birth' \in Nat /\ LastUse' \in Nat
        /\ DefaultTTL \in Nat /\ MaxTTL \in Nat /\ DaemonLag \in Nat
    <2>1. Birth' \in Nat /\ LastUse' \in Nat
      BY DEF TypeInv, Birth, LastUse, Entries, Optional
    <2>2. QED
      BY <2>1, Lives, TimingAssumption
  <1>4. PingsEarly'
    <2>1. PingsEarly
      BY <1>1 DEF HoldInv
    <2>2. hold.next_ping \in Nat
      BY <1>2, <2>1 DEF PingsEarly, Holds, Optional
    <2>3. QED
      BY <1>1, <1>3, <2>1, <2>2 DEF PingsEarly
  <1>5. ASSUME plan'.plan.mode = "session"
        PROVE  RenewsEarly'
    <2>1. RenewsEarly
      BY <1>1, <1>5 DEF HoldInv
    <2>2. RenewAt(hold) \in Nat /\ RenewAt(hold)' = RenewAt(hold)
      BY <1>2, <2>1 DEF RenewsEarly, RenewAt, Holds, Optional, Caches
    <2>3. QED
      BY <1>1, <1>3, <2>1, <2>2 DEF RenewsEarly
  <1>6. ASSUME plan'.plan.mode = "none"
        PROVE  EndsEarly'
    <2>1. EndsEarly
      BY <1>1, <1>6 DEF HoldInv
    <2>2. hold.deadline \in Nat
      BY <1>2, <2>1 DEF EndsEarly, Holds, Optional
    <2>3. QED
      BY <1>1, <1>3, <2>1, <2>2 DEF EndsEarly
  <1>7. QED
    BY <1>1, <1>4, <1>5, <1>6 DEF HoldInv

(* What the client signed lives on, whatever happens to the entry.         *)
LEMMA ClientKept ==
    ASSUME TypeInv, TypeInv', ClientInv, UNCHANGED client,
           Birth' >= Birth, LastUse' >= LastUse,
           client.step \in {"signed", "started", "ready"} =>
             now' <= client.since + ClientLag
    PROVE  ClientInv'
  <1>1. /\ Birth \in Nat /\ LastUse \in Nat
        /\ Birth' \in Nat /\ LastUse' \in Nat
    <2>1. Birth' \in Nat /\ LastUse' \in Nat
      BY DEF TypeInv, Birth, LastUse, Entries, Optional
    <2>2. QED
      BY <2>1, Lives
  <1>2. client.step \in {"signed", "started", "ready"} => client.since \in Nat
    BY ClientType
  <1>3. client.step \in {"signed", "started", "ready"} =>
          LastUse' >= client.since
    BY <1>1, <1>2 DEF ClientInv
  <1>4. (/\ client.step \in {"signed", "started", "ready"}
         /\ Birth >= client.since) => Birth' >= client.since
    BY <1>1, <1>2
  <1>5. client.step \in {"signed", "started"} =>
          /\ client.plan.mode = "session" => client.pinentry = "launched"
          /\ client.pinentry = "launched" => Birth' >= client.since
    BY <1>4 DEF ClientInv
  <1>6. client.step = "ready" =>
          /\ client.informed => client.policy
          /\ (client.informed /\ ~client.warned) => Birth' >= client.since
    BY <1>4 DEF ClientInv
  <1>7. QED
    BY <1>3, <1>5, <1>6 DEF ClientInv

(* So does what the scheduler signed.                                      *)
LEMMA SchedKept ==
    ASSUME TypeInv, TypeInv', SchedInv, UNCHANGED sched,
           Birth' >= Birth, LastUse' >= LastUse,
           hold'.generation >= hold.generation,
           sched.step \in {"pinged", "renewed", "failed"} =>
             now' <= sched.since + DaemonLag
    PROVE  SchedInv'
  <1>1. /\ Birth \in Nat /\ LastUse \in Nat
        /\ Birth' \in Nat /\ LastUse' \in Nat
        /\ hold.generation \in Nat /\ hold'.generation \in Nat
    <2>1. /\ Birth' \in Nat /\ LastUse' \in Nat
          /\ hold.generation \in Nat /\ hold'.generation \in Nat
      BY DEF TypeInv, Birth, LastUse, Entries, Optional, Holds
    <2>2. QED
      BY <2>1, Lives
  <1>2. sched.step # "idle" => sched.since \in Nat /\ sched.generation \in Nat
    BY SchedType
  <1>3. QED
    BY <1>1, <1>2 DEF SchedInv

(* The client's steps up to the handoff leave the hold alone.              *)
LEMMA ClientStep ==
    ASSUME IInv, TypeInv',
           \/ \E p \in Plans : OrdinarySigns(p) \/ StoredBegins(p)
           \/ Clear \/ StoredSigns \/ TakeStart \/ TakeActivated
           \/ GiveUp \/ SetClock
    PROVE  IInv'
  <1>1. TypeInv /\ ClientInv /\ SchedInv /\ HoldInv
    BY DEF IInv
  <1>2. UNCHANGED <<now, sched, hold, plan>>
    BY DEF OrdinarySigns, StoredBegins, Clear, StoredSigns, TakeStart,
           TakeActivated, GiveUp, SetClock
  <1>3. \/ entry' \in {entry, None}
        \/ entry' = Fresh \/ (entry # None /\ entry' = Used)
    BY DEF OrdinarySigns, StoredBegins, Clear, StoredSigns, TakeStart,
           TakeActivated, GiveUp, SetClock, Alive
  <1>4. Birth' >= Birth /\ LastUse' >= LastUse
    BY <1>1, <1>2, <1>3, Newer
  <1>5. /\ now \in Nat /\ ClientLag \in Nat
        /\ hold.generation \in Nat
    BY <1>1, TimingAssumption DEF TypeInv, Holds
  <1>6. SchedInv'
    BY <1>1, <1>2, <1>4, <1>5, SchedKept DEF SchedInv
  <1>7. HoldInv'
    BY <1>1, <1>2, <1>4, HoldKept DEF Serving, Current
  <1>8. ASSUME NEW p \in Plans, NEW policy \in BOOLEAN,
               NEW pinentry \in Evidence,
               client' = Signed(p, policy, pinentry),
               LastUse' = now,
               p.mode = "session" => pinentry = "launched",
               pinentry = "launched" => Birth' = now
        PROVE  ClientInv'
    <2>1. /\ client'.step = "signed"
          /\ client'.since = now
          /\ client'.plan = p
          /\ client'.pinentry = pinentry
      BY <1>8 DEF Signed
    <2>2. QED
      BY <1>2, <1>5, <1>8, <2>1 DEF ClientInv
  <1>9. ClientInv'
    <2>1. ASSUME NEW p \in Plans, OrdinarySigns(p)
          PROVE  ClientInv'
      <3>1. /\ entry' = Fresh \/ (entry # None /\ entry' = Used)
            /\ ~Alive => entry' = Fresh
            /\ p.mode # "session"
        BY <2>1 DEF OrdinarySigns, Alive
      <3>2. LastUse' = now /\ (~Alive => Birth' = now)
        BY <1>1, <1>2, <3>1, NewEntry
      <3>3. PICK policy \in BOOLEAN, pinentry \in Evidence :
              /\ client' = Signed(p, policy, pinentry)
              /\ pinentry = "launched" => ~Alive
        BY <2>1 DEF OrdinarySigns, Evidence
      <3>4. QED
        BY <1>8, <2>1, <3>1, <3>2, <3>3
    <2>2. CASE StoredSigns
      <3>1. LastUse' = now /\ Birth' = now
        BY <1>1, <1>2, <2>2, NewEntry DEF StoredSigns
      <3>2. client.plan \in Plans
        BY <1>1, <2>2, ClientType DEF StoredSigns
      <3>3. QED
        BY <1>8, <2>2, <3>1, <3>2 DEF StoredSigns, Evidence
    <2>3. CASE TakeStart
      <3>1. /\ client.step = "signed" /\ client'.step = "started"
            /\ client'.since = client.since
            /\ client'.plan = client.plan
            /\ client'.pinentry = client.pinentry
            /\ entry' = entry
        BY <2>3 DEF TakeStart
      <3>2. Birth' = Birth /\ LastUse' = LastUse
        BY <1>2, <3>1 DEF Birth, LastUse
      <3>3. QED
        BY <1>1, <1>2, <3>1, <3>2 DEF ClientInv
    <2>4. CASE TakeActivated
      <3>1. /\ client.step = "started" /\ client'.step = "ready"
            /\ client'.since = client.since
            /\ client'.policy = client.policy
            /\ client'.warned = Warned(client.plan, client.policy,
                                       client.pinentry)
            /\ client'.informed = Informed(client.policy, client.pinentry)
            /\ entry' = entry
        BY <2>4 DEF TakeActivated
      <3>2. /\ client.plan \in PlanSet /\ client.pinentry \in Evidence
        <4>1. client \in Starteds
          BY <1>1, <3>1, ClientType
        <4>2. QED
          BY <4>1, TimingAssumption DEF Starteds
      <3>3. Birth' = Birth /\ LastUse' = LastUse
        BY <1>2, <3>1 DEF Birth, LastUse
      <3>4. (client'.informed /\ ~client'.warned) =>
              client.pinentry = "launched"
        <4>1. client.plan.mode = "none" \/ client.plan.mode = "session"
          BY <3>2 DEF PlanSet
        <4>2. client.plan.mode = "session" => client.pinentry = "launched"
          BY <1>1, <3>1 DEF ClientInv
        <4>3. QED
          BY <3>1, <3>2, <4>1, <4>2 DEF Warned, Informed, Evidence
      <3>5. client'.informed => client'.policy
        BY <3>1 DEF Informed
      <3>6. /\ client.pinentry = "launched" => Birth >= client.since
            /\ now <= client.since + ClientLag
            /\ LastUse >= client.since
        BY <1>1, <3>1 DEF ClientInv
      <3>7. QED
        BY <1>2, <3>1, <3>3, <3>4, <3>5, <3>6 DEF ClientInv
    <2>5. CASE SetClock
      <3>1. Birth' = Birth /\ LastUse' = LastUse /\ client' = client
        BY <1>2, <2>5 DEF SetClock, Birth, LastUse
      <3>2. QED
        BY <1>1, <1>2, <3>1 DEF ClientInv
    <2>6. ASSUME client'.step \in {"idle", "locked", "cleared"}
          PROVE  ClientInv'
      BY <2>6 DEF ClientInv
    <2>7. (GiveUp \/ Clear \/ \E p \in Plans : StoredBegins(p)) =>
            client'.step \in {"idle", "locked", "cleared"}
      BY DEF GiveUp, Idle, Clear, StoredBegins
    <2>8. QED
      BY <2>1, <2>2, <2>3, <2>4, <2>5, <2>6, <2>7
  <1>10. QED
    BY <1>6, <1>7, <1>9 DEF IInv

(* turn_on schedules the first ping and the renewal, or the deadline,      *)
(* before the entry the client made or used can die.                       *)
LEMMA HandoffStep ==
    ASSUME IInv, TypeInv', Handoff
    PROVE  IInv'
  <1> DEFINE req == Request
  <1>1. /\ UNCHANGED <<now, entry, sched>>
        /\ client.step = "ready"
        /\ client' = Idle
        /\ hold' = TurnOn(hold, req, now)
        /\ plan' = [plan |-> client.plan, warned |-> client.warned,
                    informed |-> client.informed]
    BY DEF Handoff
  <1>2. /\ client.since \in Nat
        /\ client.plan \in Plans
        /\ client.age \in Optional(Nat)
        /\ req \in OnRequests
    BY <1>1, RequestType DEF IInv, Readies
  <1>3. /\ req.interval = client.plan.interval
        /\ req.hold_for = client.plan.hold_for
        /\ req.mode = client.plan.mode
        /\ client.policy => req.max_ttl = MaxTTL
        /\ req.age = client.age
    BY DEF Request
  <1>4. /\ now \in Nat /\ MaxTTL \in Nat /\ DefaultTTL \in Nat
        /\ ClientLag \in Nat /\ DaemonLag \in Nat /\ hold \in Holds
        /\ None \notin Nat /\ None \notin Caches
        /\ client.plan \in PlanSet
    BY <1>2, TimingAssumption, HoldAssumption DEF IInv, TypeInv
  <1>5. /\ hold'.enabled = TRUE
        /\ hold'.interval = req.interval
        /\ hold'.deadline = IF req.hold_for = None THEN None
                                                  ELSE now + req.hold_for
        /\ hold'.next_ping = now + req.interval
        /\ hold'.generation = hold.generation + 1
        /\ hold'.cache = NewCache(req, now)
    BY <1>1 DEF TurnOn
  <1> HIDE DEF req
  <1>6. ClientInv'
    BY <1>1 DEF ClientInv, Idle
  <1>7. SchedInv'
    <2>1. Birth' = Birth /\ LastUse' = LastUse
      BY <1>1 DEF Birth, LastUse
    <2>2. hold.generation \in Nat /\ TypeInv
      BY <1>4 DEF Holds, IInv
    <2>3. sched.step # "idle" =>
            sched.generation \in Nat /\ sched.generation <= hold.generation
      BY <2>2, SchedType DEF IInv, SchedInv
    <2>4. QED
      BY <1>1, <1>5, <2>1, <2>2, <2>3 DEF IInv, SchedInv
  <1>8. ~Current' \/ sched.step = "idle"
    <2>1. sched.step # "idle" => sched.generation <= hold.generation
                                 /\ sched.generation \in Nat
      BY DEF IInv, SchedInv, TypeInv, Scheds, Idle
    <2>2. hold.generation \in Nat
      BY <1>4 DEF Holds
    <2>3. QED
      BY <1>1, <1>5, <2>1, <2>2 DEF Current
  <1>9. ~Serving({"renewed"})' /\ ~Serving({"pinged", "renewed"})'
    BY <1>1, <1>8 DEF Serving
  <1>10. client.policy => NewCache(req, now) \in Caches
    BY <1>3, HandoffType DEF IInv, req
  <1>11. ASSUME client.policy
         PROVE  /\ hold'.cache # None
                /\ hold'.cache.max_ttl = MaxTTL
                /\ RenewAt(hold') =
                     IF req.mode = "session"
                       THEN Larger(now + RenewDelay(MaxTTL, req.age), now + 1)
                       ELSE None
    <2>1. hold'.cache # None
      BY <1>4, <1>5, <1>10, <1>11
    <2>2. MaxTTL # None
      BY <1>4
    <2>3. QED
      BY <1>3, <1>5, <1>11, <2>1, <2>2 DEF NewCache, RenewAt
  <1>14. ASSUME Promised'
         PROVE  /\ hold'.interval = plan'.plan.interval
                /\ PingsEarly'
                /\ plan'.plan.mode = "session" => RenewsEarly'
                /\ plan'.plan.mode = "none" => EndsEarly'
    <2>1. client.informed /\ ~client.warned /\ Roomy(client.plan)
      BY <1>1, <1>14 DEF Promised, Roomy
    <2>2. /\ LastUse >= client.since /\ LastUse' = LastUse
          /\ Birth >= client.since /\ Birth' = Birth
          /\ now <= client.since + ClientLag
          /\ client.policy
      BY <1>1, <2>1 DEF IInv, ClientInv, Birth, LastUse
    <2>3. Birth \in Nat /\ LastUse \in Nat
      BY Lives DEF IInv
    <2>4. Lag \in Nat /\ ClientLag + DaemonLag <= Lag
      BY LagType
    <2>5. PingsEarly'
      <3>1. client.plan.interval \in Nat /\ client.plan.interval + Lag < DefaultTTL
        BY <1>4, <2>1 DEF Roomy, PlanSet
      <3>2. hold'.next_ping + DaemonLag < LastUse + DefaultTTL
        BY <1>2, <1>3, <1>4, <1>5, <2>2, <2>3, <2>4, <3>1
      <3>3. hold'.next_ping # None
        BY <1>3, <1>4, <1>5, <3>1
      <3>4. QED
        BY <1>1, <2>2, <3>2, <3>3 DEF PingsEarly
    <2>6. ASSUME plan'.plan.mode = "session"
          PROVE  RenewsEarly'
      <3>1. req.mode = "session"
        BY <1>1, <1>3, <2>6
      <3>2. 10 * (Lag + 1) <= MaxTTL /\ Lag < 60000
        BY <1>3, <2>1, <3>1 DEF Roomy
      <3> DEFINE m == RenewMargin(MaxTTL)
      <3>3. m \in Nat /\ Lag < m /\ m <= MaxTTL
        BY <1>4, <2>4, <3>2, MarginCovers
      <3>4. req.age \in Nat
        <4>1. req.age # None
          BY <1>3, <1>4, <2>2, <3>1 DEF Handoff, Schedulable, req
        <4>2. QED
          BY <1>2, <1>3, <4>1 DEF Optional
      <3>5. RenewDelay(MaxTTL, req.age) \in Nat
            /\ RenewDelay(MaxTTL, req.age) <= MaxTTL - m
        BY <1>4, <3>3, <3>4, DelayBound
      <3> HIDE DEF m
      <3>6. /\ RenewAt(hold') \in Nat
            /\ RenewAt(hold') + DaemonLag < Birth + MaxTTL
        <4>1. RenewAt(hold') = Larger(now + RenewDelay(MaxTTL, req.age), now + 1)
          BY <1>11, <2>2, <3>1
        <4>2. RenewAt(hold') = now + RenewDelay(MaxTTL, req.age)
              \/ RenewAt(hold') = now + 1
          BY <4>1 DEF Larger
        <4>3. Lag + 1 < MaxTTL
          BY <1>4, <2>4, <3>2
        <4>4. \E x \in Nat : x + Lag < MaxTTL /\ RenewAt(hold') = now + x
          BY <1>4, <2>4, <3>3, <3>5, <4>2, <4>3
        <4>5. PICK x \in Nat : x + Lag < MaxTTL /\ RenewAt(hold') = now + x
          BY <4>4
        <4>6. (now + x) + DaemonLag < Birth + MaxTTL
          BY <1>2, <1>4, <2>2, <2>3, <2>4, <4>5, EarlyEnough
        <4>7. QED
          BY <1>4, <4>5, <4>6
      <3>7. RenewAt(hold)' = RenewAt(hold')
        BY DEF RenewAt
      <3>8. QED
        BY <1>1, <1>4, <1>11, <2>2, <3>6, <3>7 DEF RenewsEarly
    <2>7. ASSUME plan'.plan.mode = "none"
          PROVE  EndsEarly'
      <3>1. client.plan.mode = "none"
        BY <1>1, <2>7
      <3>2. /\ client.plan.hold_for \in Nat
            /\ client.plan.hold_for + Lag < MaxTTL
        BY <1>4, <2>1, <3>1 DEF Roomy, PlanSet, Optional
      <3>3. hold'.deadline = now + client.plan.hold_for
        BY <1>3, <1>4, <1>5, <3>2
      <3>4. hold'.deadline \in Nat
            /\ hold'.deadline + DaemonLag < Birth + MaxTTL
        <4>1. (now + client.plan.hold_for) + DaemonLag < Birth + MaxTTL
          BY <1>2, <1>4, <2>2, <2>3, <2>4, <3>2, EarlyEnough
        <4>2. QED
          BY <1>4, <3>2, <3>3, <4>1
      <3>5. QED
        BY <1>1, <1>4, <2>2, <3>4 DEF EndsEarly
    <2>8. QED
      BY <1>1, <1>3, <1>5, <2>5, <2>6, <2>7
  <1>15. HoldInv'
    BY <1>14 DEF HoldInv
  <1>16. QED
    BY <1>6, <1>7, <1>15 DEF IInv

(* A ping uses a live entry, a renewal makes one or fails, and either      *)
(* leaves the hold as it is for now.                                       *)
LEMMA SignStep ==
    ASSUME IInv, TypeInv', Ping \/ RenewalBegins \/ Superseded \/ Renew
    PROVE  IInv'
  <1>0. TypeInv /\ ClientInv /\ SchedInv /\ HoldInv
    BY DEF IInv
  <1>1. /\ UNCHANGED <<now, client, hold, plan>>
        /\ sched.step \in {"idle", "waiting"}
        /\ \/ entry' \in {entry, None}
           \/ entry' = Fresh \/ (entry # None /\ entry' = Used)
    BY DEF Ping, RenewalBegins, Superseded, Renew, Alive
  <1>2. \/ sched'.step = "idle"
        \/ /\ sched'.since = now
           /\ sched'.generation = hold.generation
           /\ \/ sched'.step = "pinged" /\ entry' = Used /\ entry # None
              \/ sched'.step = "renewed" /\ entry' = Fresh
              \/ sched'.step \in {"waiting", "failed"}
    BY DEF Ping, RenewalBegins, Superseded, Renew, Working, Alive, Idle
  <1>3. Birth' >= Birth /\ LastUse' >= LastUse
    BY <1>0, <1>1, Newer
  <1>4. now \in Nat /\ DaemonLag \in Nat /\ hold.generation \in Nat
    BY <1>0, TimingAssumption DEF TypeInv, Holds
  <1>5. ClientInv'
    BY <1>0, <1>1, <1>3, ClientKept DEF ClientInv
  <1>6. SchedInv'
    <2>1. CASE sched'.step \in {"idle", "waiting", "failed"}
      BY <1>1, <1>2, <1>4, <2>1 DEF SchedInv
    <2>2. CASE sched'.step \in {"pinged", "renewed"}
      <3>1. /\ LastUse' = now
            /\ sched'.step = "renewed" => Birth' = now
        BY <1>0, <1>1, <1>2, <2>2, NewEntry
      <3>2. QED
        BY <1>1, <1>2, <1>4, <2>2, <3>1 DEF SchedInv
    <2>3. QED
      BY <1>2, <2>1, <2>2
  <1>7. HoldInv'
    BY <1>0, <1>1, <1>3, HoldKept DEF Serving
  <1>8. QED
    BY <1>5, <1>6, <1>7 DEF IInv

(* A hold that is off was promised nothing.                                *)
LEMMA OffStep ==
    ASSUME IInv, TypeInv', UNCHANGED <<now, entry, client>>,
           hold'.enabled = FALSE, hold'.generation = hold.generation,
           sched' \in {sched, Idle}
    PROVE  IInv'
  <1>1. Birth' = Birth /\ LastUse' = LastUse
    BY DEF Birth, LastUse
  <1>2. ClientInv'
    BY <1>1 DEF IInv, ClientInv
  <1>3. SchedInv'
    BY <1>1 DEF IInv, SchedInv, Idle
  <1>4. HoldInv'
    BY DEF HoldInv, Promised
  <1>5. QED
    BY <1>2, <1>3, <1>4 DEF IInv

(* Time passes only while nobody is late.                                  *)
LEMMA TickStep ==
    ASSUME IInv, TypeInv', Tick
    PROVE  IInv'
  <1>0. TypeInv /\ ClientInv /\ SchedInv /\ HoldInv
    BY DEF IInv
  <1>1. /\ UNCHANGED <<entry, client, sched, hold, plan>>
        /\ now' = now + 1
        /\ InTime(now + 1)
    BY DEF Tick
  <1>2. Birth' >= Birth /\ LastUse' >= LastUse
    BY <1>0, <1>1, Newer
  <1>3. ClientInv'
    BY <1>0, <1>1, <1>2, ClientKept DEF InTime
  <1>4. hold.generation \in Nat
    BY <1>0 DEF TypeInv, Holds
  <1>5. SchedInv'
    BY <1>0, <1>1, <1>2, <1>4, SchedKept DEF InTime
  <1>6. HoldInv'
    BY <1>0, <1>1, <1>2, HoldKept DEF Serving, Current
  <1>7. QED
    BY <1>3, <1>5, <1>6 DEF IInv

(* The record of a result of an earlier hold changes nothing.              *)
LEMMA LateRecordStep ==
    ASSUME IInv, TypeInv', Record, ~Current
    PROVE  IInv'
  <1>0. TypeInv /\ ClientInv /\ SchedInv /\ HoldInv
    BY DEF IInv
  <1>1. /\ UNCHANGED <<now, entry, client, hold, plan>>
        /\ sched' = Idle
    BY DEF Record
  <1>2. Birth' >= Birth /\ LastUse' >= LastUse
    BY <1>0, <1>1, Newer
  <1>3. ClientInv'
    BY <1>0, <1>1, <1>2, ClientKept DEF ClientInv
  <1>4. SchedInv'
    BY <1>1 DEF SchedInv, Idle
  <1>5. HoldInv'
    BY <1>0, <1>1, <1>2, HoldKept DEF Serving
  <1>6. QED
    BY <1>3, <1>4, <1>5 DEF IInv

(* What every record of the current hold's result leaves as it was, and    *)
(* what it schedules.                                                      *)
LEMMA RecordFacts ==
    ASSUME IInv, Record, Current, sched.step # "failed"
    PROVE  /\ UNCHANGED <<now, entry, client, plan>>
           /\ sched' = Idle
           /\ sched.step \in {"pinged", "renewed"}
           /\ hold'.enabled = hold.enabled
           /\ hold'.interval = hold.interval
           /\ hold'.deadline = hold.deadline
           /\ hold'.generation = hold.generation
           /\ hold'.next_ping = CheckedAdd(now, hold.interval)
           /\ hold'.cache = IF sched.step = "renewed"
                              THEN RenewedCache(hold.cache, now)
                              ELSE hold.cache
  <1>1. hold \in Holds /\ now \in Nat
    BY DEF IInv, TypeInv
  <1>2. CASE sched.step = "pinged"
    <2>1. hold' = RecordPingOk(hold, now) /\ sched.step # "renewed"
      BY <1>2 DEF Record
    <2>2. /\ hold'.enabled = hold.enabled
          /\ hold'.interval = hold.interval
          /\ hold'.deadline = hold.deadline
          /\ hold'.generation = hold.generation
          /\ hold'.next_ping = CheckedAdd(now, hold.interval)
          /\ hold'.cache = hold.cache
      BY <1>1, <2>1, RecordFields
    <2>3. UNCHANGED <<now, entry, client, plan>> /\ sched' = Idle
      BY DEF Record
    <2>4. QED
      BY <1>2, <2>1, <2>2, <2>3
  <1>3. CASE sched.step = "renewed"
    BY <1>1, <1>3, RecordFields DEF Record
  <1>4. sched.step \in {"pinged", "renewed"}
    BY DEF Record
  <1>5. QED
    BY <1>2, <1>3, <1>4

(* The record of a ping or a renewal schedules the next one from now, and  *)
(* the signature it reports is at most DaemonLag old.                      *)
LEMMA RecordStep ==
    ASSUME IInv, TypeInv', Representable, Record
    PROVE  IInv'
  <1>1. CASE ~Current
    BY <1>1, LateRecordStep
  <1>2. CASE Current /\ sched.step = "failed"
    <2>1. hold' = RecordPingFailure(hold, "renewal") /\ sched' = Idle
      BY <1>2 DEF Record
    <2>2. hold'.enabled = FALSE /\ hold'.generation = hold.generation
      BY <2>1, RecordFields DEF IInv, TypeInv, Errors
    <2>3. UNCHANGED <<now, entry, client>>
      BY DEF Record
    <2>4. QED
      BY <2>1, <2>2, <2>3, OffStep
  <1>3. CASE Current /\ sched.step # "failed"
    <2>1. /\ UNCHANGED <<now, entry, client, plan>>
          /\ sched' = Idle
          /\ sched.step \in {"pinged", "renewed"}
          /\ hold'.enabled = hold.enabled
          /\ hold'.interval = hold.interval
          /\ hold'.deadline = hold.deadline
          /\ hold'.generation = hold.generation
          /\ hold'.next_ping = CheckedAdd(now, hold.interval)
          /\ hold'.cache = IF sched.step = "renewed"
                             THEN RenewedCache(hold.cache, now)
                             ELSE hold.cache
      BY <1>3, RecordFacts
    <2>2. /\ now \in Nat /\ now <= MaxTime /\ hold \in Holds
          /\ hold.interval \in Nat /\ hold.cache \in Optional(Caches)
          /\ DaemonLag \in Nat /\ DefaultTTL \in Nat /\ MaxTTL \in Nat
          /\ Horizon \in Nat /\ None \notin Nat /\ None \notin Caches
          /\ MaxTime \in Nat
      BY TimingAssumption, HoldAssumption DEF IInv, TypeInv, Holds
    <2>3. /\ sched.since \in Nat
          /\ LastUse \in Nat /\ Birth \in Nat
          /\ LastUse >= sched.since
          /\ sched.step = "renewed" => Birth >= sched.since
          /\ now <= sched.since + DaemonLag
          /\ Birth' = Birth /\ LastUse' = LastUse
      <3>1. sched.since \in Nat /\ LastUse \in Nat /\ Birth \in Nat
        BY <2>1, Lives, SchedType DEF IInv
      <3>2. QED
        BY <2>1, <3>1 DEF IInv, SchedInv, Birth, LastUse
    <2>4. ClientInv' /\ SchedInv'
      BY <2>1, <2>3 DEF IInv, ClientInv, SchedInv, Idle
    <2>5. ~Serving({"renewed"})' /\ ~Serving({"pinged", "renewed"})'
      BY <2>1 DEF Serving, Idle
    <2>6. ASSUME sched.step = "renewed", hold'.cache # None
          PROVE  /\ hold.cache # None
                 /\ hold'.cache.max_ttl = hold.cache.max_ttl
                 /\ RenewAt(hold') =
                      CheckedAdd(now, SaturatingSub(hold.cache.max_ttl,
                                        RenewMargin(hold.cache.max_ttl)))
      <3>1. hold.cache # None /\ hold.cache \in Caches
        BY <2>1, <2>2, <2>6 DEF RenewedCache, Optional
      <3>2. QED
        BY <2>1, <2>6, <3>1 DEF RenewedCache, RenewAt, Caches
    <2>7. (RenewAt(hold))' = RenewAt(hold')
      BY DEF RenewAt
    <2>8. sched.step = "pinged" => RenewAt(hold') = RenewAt(hold)
      BY <2>1 DEF RenewAt
    <2>9. ASSUME Promised'
           PROVE  /\ hold'.interval = plan'.plan.interval
                  /\ PingsEarly'
                  /\ plan'.plan.mode = "session" => RenewsEarly'
                  /\ plan'.plan.mode = "none" => EndsEarly'
      <3>1. Promised /\ Roomy(plan.plan)
        BY <2>1, <2>9 DEF Promised, Roomy
      <3>2. /\ hold.interval = plan.plan.interval
            /\ plan.plan.mode = "session" => RenewsEarly
            /\ plan.plan.mode = "none" => EndsEarly
        BY <3>1 DEF IInv, HoldInv
      <3>3. Lag \in Nat /\ DaemonLag + DaemonLag <= Lag
        BY LagType
      <3>4. PingsEarly'
        <4>1. plan.plan \in Plans
          BY <3>1 DEF IInv, TypeInv, Promised
        <4>2. now + hold.interval <= Horizon
          BY <2>2, <3>2, <4>1 DEF Representable
        <4>3. hold'.next_ping = now + hold.interval
          BY <2>1, <4>2 DEF CheckedAdd
        <4>4. hold.interval + Lag < DefaultTTL
          BY <3>1, <3>2 DEF Roomy
        <4>5. (now + hold.interval) + DaemonLag < LastUse + DefaultTTL
          BY <2>2, <2>3, <3>3, <4>4, EarlyEnough
        <4>6. hold'.next_ping # None
          BY <2>2, <4>3
        <4>7. QED
          BY <2>1, <2>3, <4>3, <4>5, <4>6 DEF PingsEarly
      <3>5. ASSUME plan.plan.mode = "session"
            PROVE  RenewsEarly'
        <4>1. RenewsEarly
          BY <3>2, <3>5
        <4>2. CASE sched.step = "pinged"
          <5>1. ~Serving({"renewed"})
            BY <4>2 DEF Serving
          <5>2. hold'.cache = hold.cache
            BY <2>1, <4>2
          <5>3. QED
            BY <2>1, <2>3, <2>7, <2>8, <4>1, <4>2, <5>1, <5>2 DEF RenewsEarly
        <4>3. CASE sched.step = "renewed"
          <5> DEFINE m == RenewMargin(MaxTTL)
          <5>1. 10 * (Lag + 1) <= MaxTTL /\ Lag < 60000
            BY <3>1, <3>5 DEF Roomy
          <5>2. m \in Nat /\ Lag < m /\ m <= MaxTTL
            BY <2>2, <3>3, <5>1, MarginCovers
          <5>3. hold.cache # None /\ hold.cache.max_ttl = MaxTTL
            BY <4>1 DEF RenewsEarly
          <5>4. hold'.cache # None
            <6>1. hold'.cache = RenewedCache(hold.cache, now)
              BY <2>1, <4>3
            <6>2. hold' \in Holds
              BY DEF TypeInv
            <6>3. hold.cache \in Caches
              BY <2>2, <5>3 DEF Optional
            <6>4. CheckedAdd(now, SaturatingSub(hold.cache.max_ttl,
                     RenewMargin(hold.cache.max_ttl))) \in Optional(Nat)
              <7>1. SaturatingSub(MaxTTL, m) \in Nat
                BY <2>2, <5>2 DEF SaturatingSub
              <7>2. QED
                BY <2>2, <5>3, <7>1 DEF CheckedAdd, Optional
            <6>5. RenewedCache(hold.cache, now) \in Caches
              BY <5>3, <6>3, <6>4 DEF RenewedCache, Caches, Optional
            <6>6. QED
              BY <2>2, <6>1, <6>5
          <5>5. /\ hold'.cache.max_ttl = MaxTTL
                /\ RenewAt(hold') = CheckedAdd(now, SaturatingSub(MaxTTL, m))
            BY <2>6, <4>3, <5>3, <5>4
          <5>6. SaturatingSub(MaxTTL, m) = MaxTTL - m
            BY <2>2, <5>2 DEF SaturatingSub
          <5> HIDE DEF m
          <5>7. MaxTTL - m \in Nat /\ (MaxTTL - m) + Lag < MaxTTL
            BY <2>2, <3>3, <5>2
          <5>8. now + (MaxTTL - m) <= Horizon
            BY <2>2, <5>2 DEF Representable
          <5>9. RenewAt(hold') = now + (MaxTTL - m)
            BY <5>5, <5>6, <5>8 DEF CheckedAdd
          <5>10. (now + (MaxTTL - m)) + DaemonLag < Birth + MaxTTL
            BY <2>2, <2>3, <3>3, <4>3, <5>7, EarlyEnough
          <5>11. RenewAt(hold') # None
            BY <2>2, <5>7, <5>9
          <5>12. QED
            BY <2>1, <2>3, <2>7, <5>4, <5>5, <5>9, <5>10, <5>11 DEF RenewsEarly
        <4>4. QED
          BY <2>1, <4>2, <4>3
      <3>6. ASSUME plan.plan.mode = "none"
            PROVE  EndsEarly'
        BY <2>1, <2>3, <3>2, <3>6 DEF EndsEarly
      <3>7. QED
        BY <2>1, <2>3, <3>2, <3>4, <3>5, <3>6
    <2>10. HoldInv'
      BY <2>9 DEF HoldInv
    <2>11. QED
      BY <2>4, <2>10 DEF IInv
  <1>4. QED
    BY <1>1, <1>2, <1>3

-----------------------------------------------------------------------------
(* The property.                                                           *)

LEMMA StepInv ==
    ASSUME Representable
    PROVE  IInv /\ [Next]_vars => IInv'
  <1> SUFFICES ASSUME IInv, [Next]_vars
               PROVE  IInv'
    OBVIOUS
  <1>1. TypeInv'
    BY TypeStep DEF IInv
  <1>2. CASE \/ \E p \in Plans : OrdinarySigns(p) \/ StoredBegins(p)
             \/ Clear \/ StoredSigns \/ TakeStart \/ TakeActivated
             \/ GiveUp \/ SetClock
    BY <1>1, <1>2, ClientStep
  <1>3. CASE Handoff
    BY <1>1, <1>3, HandoffStep
  <1>4. CASE Ping \/ RenewalBegins \/ Superseded \/ Renew
    BY <1>1, <1>4, SignStep
  <1>5. CASE PingFails \/ Expire
    <2>1. /\ UNCHANGED <<now, entry, client, sched>>
          /\ hold'.enabled = FALSE
          /\ hold'.generation = hold.generation
      BY <1>5, RecordFields DEF PingFails, Expire, IInv, TypeInv, Errors
    <2>2. QED
      BY <1>1, <2>1, OffStep
  <1>6. CASE Record
    BY <1>1, <1>6, RecordStep
  <1>7. CASE Tick
    BY <1>1, <1>7, TickStep
  <1>8. CASE UNCHANGED vars
    <2>1. UNCHANGED <<now, entry, client, sched, hold, plan>>
      BY <1>8 DEF vars
    <2>2. Birth' = Birth /\ LastUse' = LastUse
      BY <2>1 DEF Birth, LastUse
    <2>3. TypeInv /\ ClientInv /\ SchedInv /\ HoldInv
      BY DEF IInv
    <2>4. ClientInv' /\ SchedInv'
      BY <2>1, <2>2, <2>3 DEF ClientInv, SchedInv
    <2>5. Birth' >= Birth /\ LastUse' >= LastUse
      BY <2>2, <2>3, Lives
    <2>6. HoldInv'
      BY <1>1, <2>1, <2>3, <2>5, HoldKept DEF Serving, Current
    <2>7. QED
      BY <1>1, <2>4, <2>6 DEF IInv
  <1>9. QED
    BY <1>2, <1>3, <1>4, <1>5, <1>6, <1>7, <1>8 DEF Next, Over

(* While the scheduler serves the hold, its own signature is recent; else  *)
(* what it is about to do is not overdue and was scheduled early enough.   *)
LEMMA InvImplies == IInv => EntryOutlivesHold
  <1> SUFFICES ASSUME IInv, Promised, OnTime(now), entry # None
               PROVE  Alive
    BY DEF EntryOutlivesHold, Promised
  <1>1. /\ PingsEarly
        /\ plan.plan.mode = "session" => RenewsEarly
        /\ plan.plan.mode = "none" => EndsEarly
        /\ hold.enabled
        /\ Roomy(plan.plan)
    BY DEF IInv, HoldInv, Promised
  <1>2. /\ LastUse = entry.used /\ Birth = entry.born
        /\ entry.born \in Nat /\ entry.used \in Nat /\ now \in Nat
        /\ DefaultTTL \in Nat /\ MaxTTL \in Nat /\ DaemonLag \in Nat
        /\ hold \in Holds /\ plan.plan \in PlanSet
        /\ Lag \in Nat /\ DaemonLag <= Lag
    <2>1. entry \in Entries /\ plan.plan \in Plans
      BY <1>1 DEF IInv, TypeInv, Optional
    <2>2. Lag \in Nat /\ DaemonLag <= Lag
      BY LagType
    <2>3. QED
      BY <2>1, <2>2, TimingAssumption DEF IInv, TypeInv, Entries, Birth, LastUse
  <1>3. now < entry.used + DefaultTTL
    <2>1. CASE Serving({"pinged", "renewed"})
      <3>1. /\ sched.step # "idle" /\ sched # Idle
        BY <2>1 DEF Serving, Idle
      <3>2. /\ sched.since \in Nat
            /\ now <= sched.since + DaemonLag
            /\ entry.used >= sched.since
        BY <1>2, <2>1, <3>1, SchedType DEF IInv, SchedInv, Serving
      <3>3. Lag < DefaultTTL
        <4>1. plan.plan.interval \in Nat
          BY <1>2 DEF PlanSet
        <4>2. QED
          BY <1>1, <1>2, <4>1 DEF Roomy
      <3>4. QED
        BY <1>2, <3>2, <3>3
    <2>2. CASE ~Serving({"pinged", "renewed"})
      <3>1. hold.next_ping \in Nat
        BY <1>1, <1>2 DEF PingsEarly, Holds, Optional
      <3>2. now <= hold.next_ping + DaemonLag
        BY <1>1, <2>2 DEF OnTime, PingsEarly
      <3>3. QED
        BY <1>1, <1>2, <2>2, <3>1, <3>2 DEF PingsEarly
    <2>3. QED
      BY <2>1, <2>2
  <1>4. now < entry.born + MaxTTL
    <2>1. CASE plan.plan.mode = "session"
      <3>1. CASE Serving({"renewed"})
        <4>1. sched.step # "idle" /\ sched # Idle /\ sched.step = "renewed"
          BY <3>1 DEF Serving, Idle
        <4>2. /\ sched.since \in Nat
              /\ now <= sched.since + DaemonLag
              /\ entry.born >= sched.since
          BY <1>2, <4>1, SchedType DEF IInv, SchedInv
        <4>3. Lag < MaxTTL
          BY <1>1, <1>2, <2>1 DEF Roomy
        <4>4. QED
          BY <1>2, <4>2, <4>3
      <3>2. CASE ~Serving({"renewed"})
        <4>1. RenewsEarly
          BY <1>1, <2>1
        <4>2. RenewAt(hold) \in Nat
          BY <1>2, <4>1 DEF RenewsEarly, RenewAt, Holds, Optional, Caches
        <4>3. now <= RenewAt(hold) + DaemonLag
          BY <1>1, <3>2, <4>1 DEF OnTime, RenewsEarly
        <4>4. QED
          BY <1>2, <3>2, <4>1, <4>2, <4>3 DEF RenewsEarly
      <3>3. QED
        BY <3>1, <3>2
    <2>2. CASE plan.plan.mode = "none"
      <3>1. EndsEarly
        BY <1>1, <2>2
      <3>2. hold.deadline \in Nat
        BY <1>2, <3>1 DEF EndsEarly, Holds, Optional
      <3>3. now <= hold.deadline + DaemonLag
        BY <1>1, <3>1 DEF OnTime, EndsEarly
      <3>4. QED
        BY <1>2, <3>1, <3>2, <3>3 DEF EndsEarly
    <2>3. QED
      BY <1>2, <2>1, <2>2 DEF PlanSet
  <1>5. QED
    BY <1>1, <1>3, <1>4 DEF Alive

(* A hold turned on without a warning by an activation that knew all, with *)
(* room for the lag in its interval and its deadline, does not outlive the *)
(* passphrase it keeps warm while its scheduler is in time: the schedule   *)
(* of turn_on, record_ping_ok and record_renewal is early enough although  *)
(* it counts from the daemon's readings.  Where a stored activation or a   *)
(* renewal cleared the entry and did not sign, there is none to outlive.   *)
THEOREM EntryOutlives ==
    ASSUME Representable
    PROVE  Spec => []EntryOutlivesHold
  <1>1. Init => IInv
    BY InitInv
  <1>2. IInv /\ [Next]_vars => IInv'
    BY StepInv
  <1>3. IInv => EntryOutlivesHold
    BY InvImplies
  <1>4. QED
    BY <1>1, <1>2, <1>3, PTL DEF Spec
-----------------------------------------------------------------------------
(***************************************************************************)
(* The countdown.                                                          *)
(***************************************************************************)

(* How long after the entry was made its creation may be read.             *)
Late == Larger(ClientLag, DaemonLag)

(* Where the countdown's end comes from: until the clock is set it shows   *)
(* the time, the client read the start of an epoch at most ClientLag after *)
(* it made the entry, and what is shown was derived from such a reading or *)
(* from that of a renewal.                                                 *)
CountInv ==
    ~adjusted =>
        /\ wall = now
        /\ (client.step \in {"started", "ready"} /\ client.started # None) =>
             client.started <= Birth + ClientLag
        /\ shown # None =>
             /\ shown \in Int
             /\ shown <= Birth + MaxTTL + Late

(* The entry only gets newer, and a reading is kept.                       *)
LEMMA CountKept ==
    ASSUME TypeInv, TypeInv', CountInv, Birth' >= Birth,
           client'.step \in {"started", "ready"} =>
             /\ client.step \in {"started", "ready"}
             /\ client'.started = client.started,
           ~adjusted' => ~adjusted /\ wall' = now',
           shown' \in {shown, None}
    PROVE  CountInv'
  <1> SUFFICES ASSUME ~adjusted'
               PROVE  CountInv'
    BY DEF CountInv
  <1>1. /\ ~adjusted /\ wall' = now'
        /\ MaxTTL \in Nat /\ ClientLag \in Nat /\ Late \in Nat
    BY TimingAssumption DEF Late, Larger
  <1>2. Birth \in Nat /\ Birth' \in Nat
    <2>1. Birth' \in Nat
      BY DEF TypeInv, Birth, Entries, Optional
    <2>2. QED
      BY <2>1, Lives
  <1>3. ASSUME client'.step \in {"started", "ready"}, client'.started # None
        PROVE  client'.started <= Birth' + ClientLag
    <2>1. /\ client.step \in {"started", "ready"}
          /\ client.started = client'.started
          /\ client.started <= Birth + ClientLag
      BY <1>1, <1>3 DEF CountInv
    <2>2. client.started \in Int
      BY <1>3, <2>1, ClientType DEF Starteds, Readies, Optional
    <2>3. QED
      BY <1>1, <1>2, <2>1, <2>2
  <1>4. ASSUME shown' # None
        PROVE  /\ shown' \in Int
               /\ shown' <= Birth' + MaxTTL + Late
    <2>1. /\ shown' = shown /\ shown \in Int
          /\ shown <= Birth + MaxTTL + Late
      BY <1>1, <1>4 DEF CountInv
    <2>2. QED
      BY <1>1, <1>2, <2>1
  <1>5. QED
    BY <1>1, <1>3, <1>4 DEF CountInv

(* The start of an epoch is read soon after the entry it is the start of   *)
(* was made; of an entry that was there before it is not known.            *)
LEMMA ReadStart ==
    ASSUME IInv, TypeInv', CountInv, TakeStart
    PROVE  CountInv'
  <1>1. /\ client.step = "signed"
        /\ client'.started = Start(client.policy, client.pinentry)
        /\ UNCHANGED <<now, wall, adjusted, entry, shown>>
        /\ Birth' = Birth
    BY DEF TakeStart, Birth
  <1>2. /\ client.since \in Nat /\ now \in Nat
        /\ Birth \in Nat /\ ClientLag \in Nat
        /\ now <= client.since + ClientLag
    <2>1. client.since \in Nat /\ Birth \in Nat
      BY <1>1, ClientType, Lives DEF IInv
    <2>2. QED
      BY <1>1, <2>1, TimingAssumption DEF IInv, TypeInv, ClientInv
  <1>3. ASSUME ~adjusted, client'.started # None
        PROVE  client'.started <= Birth' + ClientLag
    <2>1. client'.started = now /\ client.pinentry = "launched"
      BY <1>1, <1>3 DEF Start, CountInv
    <2>2. Birth >= client.since
      BY <1>1, <2>1 DEF IInv, ClientInv
    <2>3. QED
      BY <1>1, <1>2, <2>1, <2>2
  <1>4. QED
    BY <1>1, <1>3 DEF CountInv

(* on shows the epoch the client reported, if it knows one.                *)
LEMMA ShowStart ==
    ASSUME IInv, TypeInv', CountInv, Handoff
    PROVE  CountInv'
  <1>1. /\ client.step = "ready"
        /\ client'.step = "idle"
        /\ shown' = IF client.started = None THEN None
                                             ELSE client.started + MaxTTL
        /\ UNCHANGED <<now, wall, adjusted, entry>>
        /\ Birth' = Birth
    BY DEF Handoff, Idle, Birth
  <1>2. client.started \in Optional(Int) /\ Birth \in Nat
    BY <1>1, ClientType, Lives DEF IInv, Readies
  <1>3. /\ MaxTTL \in Nat /\ ClientLag \in Nat /\ Late \in Nat
        /\ ClientLag <= Late
    BY TimingAssumption DEF Late, Larger
  <1>4. ASSUME ~adjusted, shown' # None
        PROVE  /\ shown' \in Int
               /\ shown' <= Birth' + MaxTTL + Late
    <2>1. /\ client.started \in Int
          /\ shown' = client.started + MaxTTL
          /\ client.started <= Birth + ClientLag
      BY <1>1, <1>2, <1>4 DEF CountInv, Optional
    <2>2. QED
      BY <1>1, <1>2, <1>3, <2>1
  <1>5. QED
    BY <1>1, <1>4 DEF CountInv

(* A recorded renewal shows the end of the entry it made.                  *)
LEMMA ShowRenewal ==
    ASSUME IInv, TypeInv', CountInv, Record
    PROVE  CountInv'
  <1>1. UNCHANGED <<now, wall, adjusted, entry, client>> /\ Birth' = Birth
    BY DEF Record, Birth
  <1>2. CASE shown' \in {shown, None}
    BY <1>1, <1>2 DEF CountInv
  <1>3. CASE shown' \notin {shown, None}
    <2>1. sched.step = "renewed" /\ shown' = wall + MaxTTL
      BY <1>3 DEF Record
    <2>2. /\ Birth \in Nat /\ sched.since \in Nat
          /\ Birth >= sched.since
          /\ now \in Nat /\ now <= sched.since + DaemonLag
      <3>1. Birth \in Nat /\ sched.since \in Nat
        BY <2>1, Lives, SchedType DEF IInv
      <3>2. QED
        BY <2>1, <3>1 DEF IInv, TypeInv, SchedInv
    <2>3. /\ MaxTTL \in Nat /\ DaemonLag \in Nat /\ Late \in Nat
          /\ DaemonLag <= Late
      BY TimingAssumption DEF Late, Larger
    <2>4. ~adjusted => /\ shown' \in Int
                       /\ shown' <= Birth + MaxTTL + Late
      BY <2>1, <2>2, <2>3 DEF CountInv
    <2>5. QED
      BY <1>1, <2>4 DEF CountInv
  <1>4. QED
    BY <1>2, <1>3

(* Only the readings and the records decide; the rest keeps the invariant. *)
LEMMA CountStep ==
    ASSUME IInv, TypeInv', CountInv, [Next]_vars
    PROVE  CountInv'
  <1>1. TypeInv
    BY DEF IInv
  <1>2. CASE \/ \E p \in Plans : OrdinarySigns(p) \/ StoredBegins(p)
             \/ Clear \/ StoredSigns \/ TakeActivated \/ GiveUp \/ SetClock
             \/ Ping \/ RenewalBegins \/ Superseded \/ Renew \/ PingFails
             \/ Expire \/ Tick \/ Over \/ UNCHANGED vars
    <2>1. now' \in {now, now + 1} /\ shown' \in {shown, None}
      BY <1>2 DEF OrdinarySigns, StoredBegins, Clear, StoredSigns,
         TakeActivated, GiveUp, SetClock, Ping, RenewalBegins, Superseded,
         Renew, PingFails, Expire, Tick, Over, vars
    <2>2. \/ entry' \in {entry, None}
          \/ now' = now /\ (entry' = Fresh \/ (entry # None /\ entry' = Used))
      BY <1>2 DEF OrdinarySigns, StoredBegins, Clear, StoredSigns,
         TakeActivated, GiveUp, SetClock, Ping, RenewalBegins, Superseded,
         Renew, PingFails, Expire, Tick, Over, vars, Alive
    <2>3. Birth' >= Birth
      BY <1>1, <2>1, <2>2, Newer
    <2>4. client'.step \in {"started", "ready"} =>
            /\ client.step \in {"started", "ready"}
            /\ client'.started = client.started
      BY <1>2 DEF OrdinarySigns, StoredBegins, Clear, StoredSigns,
         TakeActivated, GiveUp, SetClock, Ping, RenewalBegins, Superseded,
         Renew, PingFails, Expire, Tick, Over, vars, Signed, Idle
    <2>5. ~adjusted' => ~adjusted /\ wall' = now'
      BY <1>2 DEF OrdinarySigns, StoredBegins, Clear, StoredSigns,
         TakeActivated, GiveUp, SetClock, Ping, RenewalBegins, Superseded,
         Renew, PingFails, Expire, Tick, Over, vars, CountInv
    <2>6. QED
      BY <1>1, <2>1, <2>3, <2>4, <2>5, CountKept
  <1>3. CASE TakeStart
    BY <1>3, ReadStart
  <1>4. CASE Handoff
    BY <1>4, ShowStart
  <1>5. CASE Record
    BY <1>5, ShowRenewal
  <1>6. QED
    BY <1>2, <1>3, <1>4, <1>5 DEF Next

(* The expiry that status shows is never later than the entry's end by     *)
(* more than the lag, as long as nobody sets the clock: on takes the start *)
(* of the epoch only from an activation that made the entry, and the       *)
(* record of a renewal follows its signature.                              *)
THEOREM CountdownStaysHonest ==
    ASSUME Representable
    PROVE  Spec => []CountdownHonest
  <1>1. Init => IInv /\ CountInv
    <2>1. Init => CountInv
      BY DEF Init, Idle, CountInv
    <2>2. QED
      BY <2>1, InitInv
  <1>2. IInv /\ CountInv /\ [Next]_vars => (IInv /\ CountInv)'
    <2>1. IInv /\ [Next]_vars => IInv'
      BY StepInv
    <2>2. IInv' => TypeInv'
      BY DEF IInv
    <2>3. QED
      BY <2>1, <2>2, CountStep
  <1>3. CountInv => CountdownHonest
    BY DEF CountInv, CountdownHonest, Late
  <1>4. QED
    BY <1>1, <1>2, <1>3, PTL DEF Spec
=============================================================================
