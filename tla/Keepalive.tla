------------------------------ MODULE Keepalive ------------------------------
(***************************************************************************)
(* The daemon's shared state (src/daemon.rs: Shared), the request handlers *)
(* that run on connection threads, the signal thread, and the keepalive    *)
(* scheduler, interleaved at every release of the state mutex.             *)
(*                                                                         *)
(* The scheduler holds the mutex only while it picks an action or applies  *)
(* a result: gpg and the Secret Service run outside it, against a snapshot *)
(* of the hold.  Their outcome is a free choice here, and any number of    *)
(* handler steps and ticks may come between launch and result.             *)
(***************************************************************************)
EXTENDS Hold

CONSTANTS
    Requests,       \* the On requests clients may send
    MaxClock,       \* bound: the last instant of the run
    MaxGeneration   \* bound: activations in the run

ASSUME KeepaliveAssumption ==
    /\ Requests \subseteq OnRequests
    /\ MaxClock \in Nat
    /\ MaxGeneration \in Nat

VARIABLES
    clock,      \* Instant::now()
    hold,       \* Shared.hold
    stopping,   \* Shared.stopping: a shutdown has linearized
    shutdown,   \* Shared.shutdown: the scheduler may exit
    locking,    \* Shared.locking: a lock handler is between its mutex sections
    acking,     \* a Shutdown handler has closed admission, its ACK is unsent
    pc,         \* where the scheduler thread is
    snap,       \* its HoldSnapshot
    until       \* when its condvar wait times out, None when it has no timeout

shared    == <<hold, stopping, shutdown, locking, acking>>
scheduler == <<pc, snap, until>>
vars      == <<clock, shared, scheduler>>

Snapshots ==
    [ generation : Nat, keygrip : Optional(Keygrips), mode : Modes ]

Snapshot(h) ==
    [ generation |-> h.generation, keygrip |-> h.keygrip, mode |-> h.mode ]

Init ==
    /\ clock = 0
    /\ hold = Default
    /\ stopping = FALSE
    /\ shutdown = FALSE
    /\ locking = FALSE
    /\ acking = FALSE
    /\ pc = "check"
    /\ snap = Snapshot(Default)
    /\ until = None

-----------------------------------------------------------------------------
(* Handlers.  Each runs under the mutex; notify_all takes the scheduler    *)
(* out of its condvar wait.  A notification nobody waits for is lost.      *)

(* Mutant: the handler forgets to notify the condvar.                      *)
ForgetToNotify == UNCHANGED scheduler

NotifyAll ==
    /\ pc' = IF pc = "wait" THEN "check" ELSE pc
    /\ UNCHANGED <<snap, until>>

(* Mutant: a session hold is accepted without a resolved key.              *)
EpochComplete(req) ==
    req.mode = "session" => req.max_ttl # None /\ req.age # None

(* activation_cache: session renewal needs a key and a complete epoch.     *)
ActivationComplete(req) ==
    req.mode = "session" =>
        /\ req.keygrip # None
        /\ req.max_ttl # None
        /\ req.age # None

Admitted(req) ==
    /\ ~stopping
    /\ ~locking
    /\ req.interval > 0
    /\ ActivationComplete(req)
    /\ Schedulable(req, clock)

(* Request::On.  A request that is not admitted changes nothing.           *)
On(req) ==
    /\ Admitted(req)
    /\ hold.generation < MaxGeneration
    /\ hold' = TurnOn(hold, req, clock)
    /\ NotifyAll
    /\ UNCHANGED <<clock, stopping, shutdown, locking, acking>>

(* Request::Off acknowledges the last error.                               *)
Off ==
    /\ ~stopping
    /\ hold' = ClearError(TurnOff(hold))
    /\ NotifyAll
    /\ UNCHANGED <<clock, stopping, shutdown, locking, acking>>

(* Request::Lock, first mutex section: the hold goes off even when there   *)
(* is no key to lock, and only then is the request refused.                *)
LockBegin ==
    /\ ~stopping
    /\ ~locking
    /\ hold' = ClearError(TurnOff(hold))
    /\ locking' = (hold.keygrip # None)
    /\ NotifyAll
    /\ UNCHANGED <<clock, stopping, shutdown, acking>>

(* LockOperation's drop, once the clear has succeeded or failed.           *)
LockEnd ==
    /\ locking
    /\ locking' = FALSE
    /\ NotifyAll
    /\ UNCHANGED <<clock, hold, stopping, shutdown, acking>>

(* Request::Shutdown closes admission; a second one is answered without    *)
(* effect.                                                                 *)
Shutdown ==
    /\ ~stopping
    /\ stopping' = TRUE
    /\ acking' = TRUE
    /\ UNCHANGED <<clock, hold, shutdown, locking, scheduler>>

(* Mutant: the final flag is set without waking the scheduler.             *)
AckWithoutNotify ==
    /\ acking
    /\ acking' = FALSE
    /\ shutdown' = TRUE
    /\ UNCHANGED <<clock, hold, stopping, locking, scheduler>>

(* Its handler has written the acknowledgement, or failed to.              *)
AckShutdown ==
    /\ acking
    /\ acking' = FALSE
    /\ shutdown' = TRUE
    /\ NotifyAll
    /\ UNCHANGED <<clock, hold, stopping, locking>>

(* SIGINT or SIGTERM, once: the signal thread ends after the first.        *)
Signal ==
    /\ ~shutdown
    /\ stopping' = TRUE
    /\ shutdown' = TRUE
    /\ NotifyAll
    /\ UNCHANGED <<clock, hold, locking, acking>>

Handlers ==
    \/ \E req \in Requests : On(req)
    \/ Off
    \/ LockBegin
    \/ LockEnd
    \/ Shutdown
    \/ AckShutdown
    \/ Signal

-----------------------------------------------------------------------------
(* The scheduler.                                                          *)

Exit ==
    /\ pc = "check"
    /\ shutdown
    /\ pc' = "done"
    /\ UNCHANGED <<clock, shared, snap, until>>

(* Take the due action and a snapshot in one mutex section.                *)
Dispatch ==
    /\ pc = "check"
    /\ ~shutdown
    /\ \/ ExpireDue(hold, clock) /\ pc' = "expire"
       \/ RenewDue(hold, clock) /\ pc' = "txn"
       \/ PingDue(hold, clock) /\ pc' = "ping"
    /\ snap' = Snapshot(hold)
    /\ UNCHANGED <<clock, shared, until>>

(* Nothing is due: wait until one millisecond past the next wake-up.       *)
Sleep ==
    /\ pc = "check"
    /\ ~shutdown
    /\ ~ExpireDue(hold, clock)
    /\ ~RenewDue(hold, clock)
    /\ ~PingDue(hold, clock)
    /\ pc' = "wait"
    /\ \/ /\ NextWake(hold, clock) = {}
          /\ until' = None
       \/ \E wake \in NextWake(hold, clock) : until' = wake + 1
    /\ UNCHANGED <<clock, shared, snap>>

WakeOnTimeout ==
    /\ pc = "wait"
    /\ until # None
    /\ clock >= until
    /\ pc' = "check"
    /\ UNCHANGED <<clock, shared, snap, until>>

(* A condvar may also wake its waiter for no reason.                       *)
WakeSpuriously ==
    /\ pc = "wait"
    /\ pc' = "check"
    /\ UNCHANGED <<clock, shared, snap, until>>

(* Mutant: the enabled check is missing.                                   *)
CurrentEvenIfOff == hold.generation = snap.generation

(* Mutant: the generation check is missing.                                *)
CurrentIfOn == hold.enabled

(* The test every result passes before it may touch the hold.              *)
Current == hold.generation = snap.generation /\ hold.enabled

(* Apply a result under the mutex, or discard it.                          *)
Apply(result) ==
    /\ hold' = IF Current THEN result ELSE hold
    /\ pc' = "check"
    /\ UNCHANGED <<clock, stopping, shutdown, locking, acking, snap, until>>

Expire ==
    /\ pc = "expire"
    /\ Apply(TurnOff(hold))

PingSucceeds ==
    /\ pc = "ping"
    /\ Apply(RecordPingOk(hold, clock))

PingFails ==
    /\ pc = "ping"
    /\ snap.mode # "session"
    /\ Apply(RecordPingFailure(hold, "ping"))

(* A failed ping of a session hold gets one recovery.                      *)
PingRecovers ==
    /\ pc = "ping"
    /\ snap.mode = "session"
    /\ pc' = "txn"
    /\ UNCHANGED <<clock, shared, snap, until>>

(* renew_once, from the wait for the key's transaction to the re-read of   *)
(* the hold under the mutex.  How long another process holds the           *)
(* transaction is not modelled here, only that it may be long.             *)
StillRenewable ==
    /\ hold.enabled
    /\ hold.generation = snap.generation
    /\ hold.mode = "session"
    /\ hold.keygrip = snap.keygrip

RenewProceeds ==
    /\ pc = "txn"
    /\ snap.keygrip # None
    /\ StillRenewable
    /\ pc' = "renew"
    /\ UNCHANGED <<clock, shared, snap, until>>

RenewAbandoned ==
    /\ pc = "txn"
    /\ snap.keygrip # None
    /\ ~StillRenewable
    /\ pc' = "check"
    /\ UNCHANGED <<clock, shared, snap, until>>

(* No transaction, no credential, no clear, no sign, or a bad passphrase.  *)
RenewFails ==
    /\ pc \in {"txn", "renew"}
    /\ Apply(RecordPingFailure(hold, "renewal"))

RenewSucceeds ==
    /\ pc = "renew"
    /\ Apply(RecordRenewal(hold, clock))

SchedulerStep ==
    \/ Exit
    \/ Dispatch
    \/ Sleep
    \/ WakeOnTimeout
    \/ Expire
    \/ PingSucceeds
    \/ PingFails
    \/ PingRecovers
    \/ RenewProceeds
    \/ RenewAbandoned
    \/ RenewFails
    \/ RenewSucceeds

-----------------------------------------------------------------------------
Tick ==
    /\ clock < MaxClock
    /\ clock' = clock + 1
    /\ UNCHANGED <<shared, scheduler>>

(* The run is over: the scheduler has returned and no handler is left.     *)
Terminated ==
    /\ pc = "done"
    /\ ~acking
    /\ ~locking
    /\ UNCHANGED vars

Next ==
    \/ Handlers
    \/ SchedulerStep
    \/ WakeSpuriously
    \/ Tick
    \/ Terminated

(***************************************************************************)
(* The scheduler is one thread, so weak fairness of its step is weak       *)
(* fairness of the thread: gpg runs under a 30 s timeout, and the model    *)
(* assumes that whoever holds the key's transaction ends it.  A Shutdown   *)
(* handler writes its ACK under a write timeout.  Requests and spurious    *)
(* wake-ups have no fairness.                                              *)
(***************************************************************************)
Fairness ==
    /\ WF_vars(SchedulerStep)
    /\ WF_vars(AckShutdown)
    /\ WF_vars(Tick)

Spec == Init /\ [][Next]_vars

FairSpec == Spec /\ Fairness

-----------------------------------------------------------------------------
(* Properties.                                                             *)

PCs == {"check", "wait", "expire", "ping", "txn", "renew", "done"}

(* Every variable stays in its type; in particular the hold record keeps   *)
(* the shape src/state.rs gives it through every race.                     *)
TypeOK ==
    /\ clock \in Nat
    /\ hold \in Holds
    /\ stopping \in BOOLEAN
    /\ shutdown \in BOOLEAN
    /\ locking \in BOOLEAN
    /\ acking \in BOOLEAN
    /\ pc \in PCs
    /\ snap \in Snapshots
    /\ until \in Optional(Nat)

(* A hold that is off has nothing scheduled and no cache epoch, whatever   *)
(* result arrives after it went off (apply_ping_result and                 *)
(* apply_renewal_result racing Off, Lock or a failure).                    *)
OffIsQuiescent ==
    ~hold.enabled =>
        hold.deadline = None /\ hold.next_ping = None /\ hold.cache = None

(* While a lock handler works between its two mutex sections the hold is   *)
(* off: no activation slips in and no late result brings it back.          *)
LockKeepsHoldOff == locking => ~hold.enabled

(* A hold that is on carries no error: every failure stops it, and neither *)
(* a replacement nor a late failure leaves an error on a live hold.        *)
ErrorMeansOff == hold.last_error # None => ~hold.enabled

(* Work in flight was captured from a hold that existed, and a snapshot of *)
(* the current generation still names the hold's own key and mode: the     *)
(* generation test of renew_once covers its other three.                   *)
SnapshotFaithful ==
    /\ snap.generation <= hold.generation
    /\ (/\ pc \in {"expire", "ping", "txn", "renew"}
        /\ snap.generation = hold.generation) =>
         snap.keygrip = hold.keygrip /\ snap.mode = hold.mode

(* Whatever handlers, signals and late results do to one another, the hold *)
(* keeps its meaning: off is quiescent and stays off during a lock, on has *)
(* no error, and work in flight that is still current is about this hold.  *)
HoldIsSound ==
    /\ OffIsQuiescent
    /\ LockKeepsHoldOff
    /\ ErrorMeansOff
    /\ SnapshotFaithful

(* The scheduler never sleeps past work: while it waits, it has not been   *)
(* told to exit, and its timeout comes at most a millisecond after each    *)
(* instant the hold has scheduled.  A handler that changes the schedule    *)
(* without waking the scheduler breaks it.                                 *)
NoLostWakeup ==
    pc = "wait" =>
        /\ ~shutdown
        /\ hold.enabled =>
             \A t \in Scheduled(hold) : until # None /\ until <= t + 1

(* A session hold that is on can always be renewed: it has the key and a   *)
(* scheduled renewal (activation_cache's comment), also after replacement  *)
(* by a hold of another mode and after a renewal rescheduled it.           *)
SessionIsRenewable ==
    (hold.enabled /\ hold.mode = "session") =>
        /\ hold.keygrip # None
        /\ hold.cache # None
        /\ RenewAt(hold) # None

(* A result of work launched for an earlier hold never touches the hold    *)
(* that replaced it (the generation test of the apply_* functions).        *)
ReplacementUntouched ==
    [][(SchedulerStep /\ snap.generation # hold.generation) =>
         UNCHANGED hold]_vars

(* Once the hold is off, only an accepted On turns it on again, and no     *)
(* late failure writes an error over the one Off or Lock acknowledged.     *)
OffIsFinal ==
    [][~hold.enabled =>
         \/ hold'.generation = hold.generation + 1
         \/ /\ ~hold'.enabled
            /\ hold'.last_error \in {None, hold.last_error}]_vars

(* A ping starts only when neither an expiry nor a renewal is due, and a   *)
(* scheduled renewal only when the deadline has not passed (due_action's   *)
(* order), at the instant the scheduler looks.                             *)
PriorityRespected ==
    [][(pc = "check" /\ pc' \in {"ping", "txn"}) =>
         /\ ~Reached(hold.deadline, clock)
         /\ pc' = "ping" => ~Reached(RenewAt(hold), clock)]_vars

(* Once a shutdown is accepted no hold is activated or replaced, although  *)
(* the scheduler may still be working for the last one.                    *)
StoppingAdmitsNothing ==
    [][stopping => hold'.generation = hold.generation]_vars

(* Work that is due before the end of the run is done, or a shutdown       *)
(* preempts it: an expired hold goes off, a due ping or renewal runs and   *)
(* is rescheduled or stops the hold.                                       *)
WorkIsDue ==
    /\ hold.enabled
    /\ \E t \in Scheduled(hold) : t <= clock /\ t < MaxClock

DueWorkIsDone == WorkIsDue ~> (~WorkIsDue \/ shutdown)

(* An accepted shutdown always ends the scheduler, whatever it was doing.  *)
ShutdownEndsScheduler == stopping ~> (pc = "done")

(* due_action's comment in src/state.rs: "an expiring hold must not        *)
(* recreate cache entries".  Read at the last point where the code looks   *)
(* at the hold before it recreates the entry, renew_once's re-read.  The   *)
(* code does not keep to it: the re-read does not look at the deadline.    *)
ExpiredHoldIsNotRenewed ==
    [][(pc = "txn" /\ pc' = "renew") => ~Reached(hold.deadline, clock)]_vars

-----------------------------------------------------------------------------
(* The abstract hold, read off the daemon's state.                         *)
Contract == INSTANCE HoldContract WITH
    on     <- hold.enabled,
    epoch  <- hold.generation,
    error  <- hold.last_error,
    open   <- ~stopping,
    locked <- locking

(* With its unlocked windows and late results the daemon still behaves     *)
(* like the contract: every step of any thread changes the hold as one of  *)
(* the contract's actions does, or not at all.                             *)
ImplementsContract == Contract!Spec

=============================================================================
