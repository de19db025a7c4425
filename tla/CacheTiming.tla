----------------------------- MODULE CacheTiming -----------------------------
(***************************************************************************)
(* The hold's schedule against the lifetime of the cache entry it keeps    *)
(* warm.  gpg-agent drops an entry DefaultTTL after its last use and at    *)
(* the latest MaxTTL after its creation.  The daemon never sees either     *)
(* instant: it counts from wall-clock readings the client took some steps  *)
(* after the signature, and from the moments it applied its own results.   *)
(* How far these lag behind is bounded by ClientLag and DaemonLag, in real *)
(* time; the wall clock may be set in between.  A stored activation clears *)
(* the entry before it signs, and may fail, be rejected or be given up     *)
(* with nothing in its place, while an earlier hold is still on; renewals  *)
(* wait for its transaction.                                               *)
(***************************************************************************)
EXTENDS Hold

CONSTANTS
    DefaultTTL, \* gpg's default-cache-ttl
    MaxTTL,     \* gpg's max-cache-ttl
    Plans,      \* what "on" may be asked for
    ClientLag,  \* from the activation's signature to the daemon's turn_on
    DaemonLag,  \* from due to signed, from signed to recorded, to expire
    Jumps,      \* by how much the wall clock may be set
    MaxTime,    \* bound: the last instant of the run
    MaxTries    \* bound: activations in the run

PlanSet ==
    [ mode : {"none", "session"}, interval : Nat, hold_for : Optional(Nat) ]

(* What gpg-agent knows of a cached passphrase: its creation and last use. *)
Entries == [born : Nat, used : Nat]

ASSUME TimingAssumption ==
    /\ DefaultTTL \in Nat
    /\ MaxTTL \in Nat
    /\ Plans \subseteq PlanSet
    /\ ClientLag \in Nat
    /\ DaemonLag \in Nat
    /\ Jumps \subseteq Int
    /\ MaxTime \in Nat
    /\ MaxTries \in Nat
    /\ "gpg" \in Keygrips
    /\ None \notin Entries

VARIABLES
    left,       \* activations left in the run
    now,        \* Instant::now()
    wall,       \* SystemTime::now()
    adjusted,   \* the wall clock has been set
    entry,      \* the agent's entry: when created, when last used; or cleared
    client,     \* the activation in progress
    sched,      \* the scheduler's work in progress
    freed,      \* when the key's transaction was last released by a client
    hold,       \* the daemon's hold
    plan,       \* what the hold was asked for, and what its activation knew
    shown       \* CacheState.expires_wall

vars == <<left, now, wall, adjusted, entry, client, sched, freed, hold, plan,
          shown>>

Idle == [step |-> "idle"]

Init ==
    /\ left = MaxTries
    /\ now = 0
    /\ wall = 0
    /\ adjusted = FALSE
    /\ entry = None
    /\ client = Idle
    /\ sched = Idle
    /\ freed = 0
    /\ hold = Default
    /\ plan = None
    /\ shown = None

(* gpg-agent still has the passphrase.                                     *)
Alive ==
    /\ entry # None
    /\ now < entry.born + MaxTTL
    /\ now < entry.used + DefaultTTL

Fresh == [born |-> now, used |-> now]

Used == [entry EXCEPT !.used = now]

-----------------------------------------------------------------------------
(* The client: src/activation.rs and "on" of src/main.rs.                  *)

(* What ordinary() reads of the agent: the cache policy, and whether a     *)
(* pinentry was launched, which only matters with the policy.  Either may  *)
(* stay unknown.                                                           *)
Evidence == {"launched", "cached", "unknown"}

Signed(p, policy, pinentry) ==
    [step |-> "signed", plan |-> p, since |-> now, policy |-> policy,
     pinentry |-> pinentry]

(* ordinary(): a signature with the live entry, or a pinentry that makes   *)
(* one.  An ordinary activation that fails changes nothing here.           *)
OrdinarySigns(p) ==
    /\ client.step = "idle"
    /\ p.mode = "none"
    /\ left > 0
    /\ left' = left - 1
    /\ entry' = IF Alive THEN Used ELSE Fresh
    /\ \/ client' = Signed(p, FALSE, "unknown")
       \/ client' = Signed(p, TRUE, "unknown")
       \/ client' = Signed(p, TRUE, IF Alive THEN "cached" ELSE "launched")
    /\ UNCHANGED <<now, wall, adjusted, sched, freed, hold, plan, shown>>

(* stored(): takes the key's transaction and loads or asks for the secret. *)
StoredBegins(p) ==
    /\ client.step = "idle"
    /\ p.mode = "session"
    /\ left > 0
    /\ left' = left - 1
    /\ client' = [step |-> "locked", plan |-> p]
    /\ UNCHANGED <<now, wall, adjusted, entry, sched, freed, hold, plan, shown>>

(* unlock_epoch: the entry goes before the secret is tried.                *)
Clear ==
    /\ client.step = "locked"
    /\ entry' = None
    /\ client' = [step |-> "cleared", plan |-> client.plan]
    /\ UNCHANGED <<left, now, wall, adjusted, sched, freed, hold, plan, shown>>

(* The secret, or the one asked for in its place, unlocks the key.         *)
StoredSigns ==
    /\ client.step = "cleared"
    /\ entry' = Fresh
    /\ client' = Signed(client.plan, TRUE, "launched")
    /\ UNCHANGED <<left, now, wall, adjusted, sched, freed, hold, plan, shown>>

(* Mutant: the epoch of an entry that was there before counts from now.    *)
StartOfAny(policy, pinentry) == IF policy THEN wall ELSE None

(* An epoch is known only for an entry this activation created.            *)
Start(policy, pinentry) ==
    IF policy /\ pinentry = "launched" THEN wall ELSE None

TakeStart ==
    /\ client.step = "signed"
    /\ client' = [step |-> "started", plan |-> client.plan,
                  since |-> client.since, policy |-> client.policy,
                  pinentry |-> client.pinentry,
                  started |-> Start(client.policy, client.pinentry)]
    /\ UNCHANGED <<left, now, wall, adjusted, entry, sched, freed, hold, plan,
                   shown>>

(* The warnings of ordinary() and stored().  Without the policy there are  *)
(* none, and a pinentry not reported on is not warned of.                  *)
Warned(p, policy, pinentry) ==
    /\ policy
    /\ \/ p.interval >= DefaultTTL
       \/ /\ p.mode = "none"
          /\ \/ p.hold_for = None
             \/ p.hold_for >= MaxTTL
             \/ pinentry = "cached"

(* Nothing that could have led to a warning was unknown.                   *)
Informed(policy, pinentry) == policy /\ pinentry # "unknown"

(* The reading sent as activated_at_ms, against the start of the epoch.    *)
Age(started) ==
    IF started = None THEN None ELSE SaturatingSub(wall, started)

TakeActivated ==
    /\ client.step = "started"
    /\ client' = [step |-> "ready", since |-> client.since,
                  started |-> client.started, plan |-> client.plan,
                  policy |-> client.policy,
                  warned |-> Warned(client.plan, client.policy,
                                    client.pinentry),
                  informed |-> Informed(client.policy, client.pinentry),
                  age |-> Age(client.started)]
    /\ UNCHANGED <<left, now, wall, adjusted, entry, sched, freed, hold, plan,
                   shown>>

(* Without the policy there is no cache plan.                              *)
Request ==
    [ interval |-> client.plan.interval,
      hold_for |-> client.plan.hold_for,
      mode     |-> client.plan.mode,
      keygrip  |-> "gpg",
      max_ttl  |-> IF client.policy THEN MaxTTL ELSE None,
      age      |-> client.age ]

(* A stored activation keeps the key's transaction until it ends.          *)
TransactionFree == client.step # "idle" => client.plan.mode # "session"

Release == freed' = IF TransactionFree THEN freed ELSE now

(* The daemon applies the On request.                                      *)
Handoff ==
    /\ client.step = "ready"
    /\ Schedulable(Request, now)
    /\ hold' = TurnOn(hold, Request, now)
    /\ plan' = [plan |-> client.plan, warned |-> client.warned,
                informed |-> client.informed]
    /\ shown' = IF client.started = None THEN None
                                         ELSE client.started + MaxTTL
    /\ client' = Idle
    /\ Release
    /\ UNCHANGED <<left, now, wall, adjusted, entry, sched>>

(* The activation fails, is rejected or is given up, at any point.         *)
GiveUp ==
    /\ client.step # "idle"
    /\ client' = Idle
    /\ Release
    /\ UNCHANGED <<left, now, wall, adjusted, entry, sched, hold, plan, shown>>

-----------------------------------------------------------------------------
(* The scheduler.  A signature and the record of it are two steps.         *)

Working(step) == [step |-> step, since |-> now, generation |-> hold.generation]

Ping ==
    /\ sched.step = "idle"
    /\ PingDue(hold, now)
    /\ Alive
    /\ entry' = Used
    /\ sched' = Working("pinged")
    /\ UNCHANGED <<left, now, wall, adjusted, client, freed, hold, plan, shown>>

(* renew_once, when due or to recover from a failed ping, waits for the    *)
(* transaction,                                                            *)
RenewalBegins ==
    /\ sched.step = "idle"
    /\ RenewDue(hold, now) \/ PingDue(hold, now)
    /\ hold.mode = "session"
    /\ sched' = Working("waiting")
    /\ UNCHANGED <<left, now, wall, adjusted, entry, client, freed, hold, plan,
                   shown>>

Current == hold.enabled /\ sched.generation = hold.generation

(* drops a hold that was replaced in the meantime,                         *)
Superseded ==
    /\ sched.step = "waiting"
    /\ TransactionFree
    /\ ~Current
    /\ sched' = Idle
    /\ UNCHANGED <<left, now, wall, adjusted, entry, client, freed, hold, plan,
                   shown>>

(* and clears and signs as one step; it may fail before or after it has    *)
(* cleared.                                                                *)
Renew ==
    /\ sched.step = "waiting"
    /\ TransactionFree
    /\ Current
    /\ \/ /\ entry' = Fresh
          /\ sched' = Working("renewed")
       \/ /\ entry' \in {entry, None}
          /\ sched' = Working("failed")
    /\ UNCHANGED <<left, now, wall, adjusted, client, freed, hold, plan, shown>>

(* Without a credential there is nothing to recover with.                  *)
PingFails ==
    /\ sched.step = "idle"
    /\ PingDue(hold, now)
    /\ hold.mode # "session"
    /\ hold' = RecordPingFailure(hold, "ping")
    /\ shown' = None
    /\ UNCHANGED <<left, now, wall, adjusted, entry, client, sched, freed, plan>>

Record ==
    /\ sched.step \in {"pinged", "renewed", "failed"}
    /\ sched' = Idle
    /\ \/ /\ ~Current
          /\ UNCHANGED <<hold, shown>>
       \/ /\ Current
          /\ sched.step = "pinged"
          /\ hold' = RecordPingOk(hold, now)
          /\ shown' = shown
       \/ /\ Current
          /\ sched.step = "renewed"
          /\ hold' = RecordRenewal(hold, now)
          /\ shown' = wall + MaxTTL
       \/ /\ Current
          /\ sched.step = "failed"
          /\ hold' = RecordPingFailure(hold, "renewal")
          /\ shown' = None
    /\ UNCHANGED <<left, now, wall, adjusted, entry, client, freed, plan>>

Expire ==
    /\ sched.step = "idle"
    /\ ExpireDue(hold, now)
    /\ hold' = TurnOff(hold)
    /\ shown' = None
    /\ UNCHANGED <<left, now, wall, adjusted, entry, client, sched, freed, plan>>

-----------------------------------------------------------------------------
(* The rest of the world.                                                  *)

(* The clock is set between the only two readings that are compared; at    *)
(* other times that would only move what the display adds to its own now.  *)
SetClock ==
    /\ client.step = "started"
    /\ ~adjusted
    /\ adjusted' = TRUE
    /\ \E d \in Jumps : wall' = wall + d
    /\ UNCHANGED <<left, now, entry, client, sched, freed, hold, plan, shown>>

Serving(steps) ==
    sched.step \in steps /\ Current

(* No instant of the hold is passed by more than the lag.  A renewal       *)
(* stands for a ping.                                                      *)
OnTime(t) ==
    hold.enabled =>
        /\ hold.deadline # None => t <= hold.deadline + DaemonLag
        /\ (RenewAt(hold) # None /\ ~Serving({"renewed"})) =>
             t <= RenewAt(hold) + DaemonLag
        /\ (hold.next_ping # None /\ ~Serving({"pinged", "renewed"})) =>
             t <= hold.next_ping + DaemonLag

(* Nobody is later than the lag allows, but for a prompt, which takes its  *)
(* time, and for the scheduler that waits for the transaction meanwhile:   *)
(* from the release on it has the lag to catch up.                         *)
InTime(t) ==
    /\ client.step \in {"signed", "started", "ready"} =>
         t <= client.since + ClientLag
    /\ sched.step \in {"pinged", "renewed", "failed"} =>
         t <= sched.since + DaemonLag
    /\ \/ OnTime(t)
       \/ hold.mode = "session" /\ ~TransactionFree
       \/ t <= freed + DaemonLag

(* Nothing is to be seen before the first activation, so time starts then. *)
Tick ==
    /\ now < MaxTime
    /\ left < MaxTries
    /\ InTime(now + 1)
    /\ now' = now + 1
    /\ wall' = wall + 1
    /\ UNCHANGED <<left, adjusted, entry, client, sched, freed, hold, plan,
                   shown>>

(* The bounded run is over.                                                *)
Over == now = MaxTime /\ UNCHANGED vars

Next ==
    \/ \E p \in Plans : OrdinarySigns(p)
    \/ \E p \in Plans : StoredBegins(p)
    \/ Clear
    \/ StoredSigns
    \/ TakeStart
    \/ TakeActivated
    \/ Handoff
    \/ GiveUp
    \/ Ping
    \/ RenewalBegins
    \/ Superseded
    \/ Renew
    \/ PingFails
    \/ Record
    \/ Expire
    \/ SetClock
    \/ Tick
    \/ Over

Spec == Init /\ [][Next]_vars

-----------------------------------------------------------------------------
(* Properties.                                                             *)

Lag == Larger(ClientLag, DaemonLag) + DaemonLag

(* The hold asks for no more than the lifetimes allow, less the lag; for   *)
(* renewals a tenth of the maximum or a minute is set aside.               *)
Roomy(p) ==
    /\ p.interval + Lag < DefaultTTL
    /\ p.mode = "session" => 10 * (Lag + 1) <= MaxTTL /\ Lag < 60000
    /\ p.mode = "none" => p.hold_for # None /\ p.hold_for + Lag < MaxTTL

(* When the entry was made; one that is yet to be made is not older.       *)
Birth == IF entry = None THEN now ELSE entry.born

(* A hold that was turned on without a warning, by an activation that knew *)
(* the policy and whether a pinentry was launched, never outlives the      *)
(* entry it keeps warm: pings come before the default TTL runs out, and    *)
(* before the hard maximum either the entry is renewed (the margin of      *)
(* renew_margin covers the lag) or the deadline has passed.  The entry may *)
(* be missing only where a stored activation or a renewal cleared it       *)
(* (activation.rs:296, daemon.rs:943) and has not signed since; and the    *)
(* scheduler must not be late, as it is while such an activation keeps it  *)
(* waiting for the transaction.                                            *)
EntryOutlivesHold ==
    ( /\ hold.enabled
      /\ plan.informed /\ ~plan.warned
      /\ Roomy(plan.plan)
      /\ OnTime(now) )
    => Alive \/ entry = None

(* The expiry "status" shows is never later than the entry's hard maximum  *)
(* by more than the lag, and for an entry that was cleared never later     *)
(* than that of one made now: an epoch keyhold did not see begin is not    *)
(* shown, and a renewal moves it.                                          *)
CountdownHonest ==
    (shown # None /\ ~adjusted) =>
        shown <= Birth + MaxTTL + Larger(ClientLag, DaemonLag)
=============================================================================
