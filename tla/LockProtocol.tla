----------------------------- MODULE LockProtocol -----------------------------
(***************************************************************************)
(* `keyhold lock` against everything that can unlock the key it clears:    *)
(* foreground activations (src/activation.rs and the client half of        *)
(* src/main.rs), the scheduler's renewals and recoveries, and              *)
(* `credential clear`.  They meet at two advisory file locks, at the       *)
(* daemon's state mutex, in gpg-agent's cache and in the Secret Service.   *)
(*                                                                         *)
(* Who holds a file lock is a function of where each process is, because   *)
(* the code releases its locks on every return path and the kernel         *)
(* releases those of a dead process.  Time is left to module Keepalive:    *)
(* here a ping, a renewal or an expiry may fall due whenever a hold is on. *)
(***************************************************************************)
EXTENDS Naturals, FiniteSets

CONSTANTS
    None,
    Clients,    \* bound: one `keyhold on` process each
    Keys,       \* keygrips
    Unreliable  \* clients that may be killed or give up on their response

ASSUME LockProtocolAssumption ==
    /\ Unreliable \subseteq Clients
    /\ None \notin Keys
    /\ None \notin {"good", "bad", "ok", "error", "none", "session"}

VARIABLES
    hold,       \* Shared.hold: on, generation, key, mode
    locking,    \* Shared.locking
    lock,       \* the lock handler: pc, key and whether --clear was asked
    sched,      \* the scheduler thread: pc, HoldSnapshot and loaded secret
    client,     \* each activation: pc, kind, key, secret, round, reply
    inbox,      \* clients whose On request is delivered and not yet applied
    clearing,   \* `credential clear` is under the store barrier
    cache,      \* gpg-agent: whether a key's passphrase entry is present
    cred,       \* Secret Service: the stored credential of each key
    sealed,     \* history: the last successful lock, until an activation
                \* is admitted after it
    forgotten   \* history: `credential clear` has run

daemon  == <<hold, locking, lock, sched>>
outside == <<cache, cred>>
history == <<sealed, forgotten>>
vars    == <<daemon, client, inbox, clearing, outside, history>>

Secrets == {"good", "bad"}

NoLock == [pc |-> "idle", key |-> None, clear |-> FALSE]

NoWork == [ pc |-> "idle", generation |-> 0, key |-> None, mode |-> "none",
            secret |-> None ]

Init ==
    /\ hold = [on |-> FALSE, generation |-> 0, key |-> None, mode |-> "none"]
    /\ locking = FALSE
    /\ lock = NoLock
    /\ sched = NoWork
    /\ client = [c \in Clients |->
                   [ pc |-> "idle", kind |-> "ordinary", key |-> None,
                     secret |-> None, round |-> "fresh", reply |-> None ]]
    /\ inbox = {}
    /\ clearing = FALSE
    /\ cache \in [Keys -> {"hot", "cold"}]
    /\ cred \in [Keys -> Secrets \cup {None}]
    /\ sealed = None
    /\ forgotten = FALSE

-----------------------------------------------------------------------------
(* The file locks.                                                         *)

(* activation.lock, shared: from admission to the end of `on`.             *)
Guarding(c) == client[c].pc \notin {"idle", "done"}

(* activation.lock, exclusive: the lock handler past its drain.            *)
Draining ==
    lock.pc \in {"global", "key", "delete", "clear", "clear_failed"}

(* credential-<keygrip>.lock, exclusive.  A stored activation keeps it     *)
(* through the handoff and its rollback.                                   *)
ClientInTransaction(c) ==
    \/ client[c].pc \in {"load", "prompt", "clear", "sign", "drop", "save"}
    \/ client[c].kind = "stored" /\ client[c].pc \in {"send", "await", "rollback"}

(* Mutant: the lock handler takes the key's lock before it drains.         *)
LockInTransactionEarly ==
    lock.pc \in {"drain", "delete", "clear", "clear_failed"}

LockInTransaction == lock.pc \in {"delete", "clear", "clear_failed"}

RenewalInTransaction ==
    sched.pc \in {"recheck", "load", "clear", "sign", "reject"}

KeyLockFree(k) ==
    /\ \A c \in Clients : ClientInTransaction(c) => client[c].key # k
    /\ LockInTransaction => lock.key # k
    /\ RenewalInTransaction => sched.key # k

(* credential-store.lock: shared by every transaction from before it waits *)
(* for its key, exclusive for clear_all.                                   *)
StoreShared ==
    \/ \E c \in Clients : client[c].pc = "key" \/ ClientInTransaction(c)
    \/ lock.pc = "key" \/ LockInTransaction
    \/ sched.pc = "key" \/ RenewalInTransaction

-----------------------------------------------------------------------------
(* Activation clients.                                                     *)

Goto(c, pc) == client' = [client EXCEPT ![c].pc = pc]

(* The process ends, with an error or not: the guard, the transaction and  *)
(* the secret go with it.                                                  *)
End(c) ==
    client' = [client EXCEPT ![c].pc = "done", ![c].secret = None,
                             ![c].round = "fresh", ![c].reply = None]

(* guard_activation: try_lock_shared, refused while a lock drains.         *)
StartActivation(c, kind, k) ==
    /\ client[c].pc = "idle"
    /\ ~Draining
    /\ client' = [client EXCEPT ![c].pc = "admit", ![c].kind = kind,
                                ![c].key = k]
    /\ UNCHANGED <<daemon, inbox, clearing, outside, history>>

(* The Ping admission check: lock_in_progress refuses the activation.      *)
Admit(c) ==
    /\ client[c].pc = "admit"
    /\ IF locking
         THEN End(c) /\ UNCHANGED sealed
         ELSE /\ Goto(c, IF client[c].kind = "stored" THEN "global" ELSE "use")
              /\ sealed' = None
    /\ UNCHANGED <<daemon, inbox, clearing, outside, forgotten>>

(* ordinary: a foreground sign with the user's pinentry.                   *)
UseForeground(c) ==
    /\ client[c].pc = "use"
    /\ \/ /\ cache' = [cache EXCEPT ![client[c].key] = "hot"]
          /\ Goto(c, "send")
       \/ End(c) /\ UNCHANGED cache
    /\ UNCHANGED <<daemon, inbox, clearing, cred, history>>

(* stored: lock_transaction, first the store's lock, then the key's.       *)
AcquireStore(c) ==
    /\ client[c].pc = "global"
    /\ ~clearing
    /\ Goto(c, "key")
    /\ UNCHANGED <<daemon, inbox, clearing, outside, history>>

AcquireKey(c) ==
    /\ client[c].pc = "key"
    /\ KeyLockFree(client[c].key)
    /\ Goto(c, "load")
    /\ UNCHANGED <<daemon, inbox, clearing, outside, history>>

Load(c) ==
    /\ client[c].pc = "load"
    /\ LET found == cred[client[c].key]
       IN  \/ found # None /\ client' = [client EXCEPT ![c].pc = "clear",
                                ![c].secret = found, ![c].round = "stored"]
           \/ found = None /\ client' = [client EXCEPT ![c].pc = "prompt",
                                ![c].round = "fresh"]
           \/ End(c)
    /\ UNCHANGED <<daemon, inbox, clearing, outside, history>>

(* The user types the passphrase, mistypes it, or cancels.                 *)
TypePassphrase(c) ==
    /\ client[c].pc = "prompt"
    /\ \/ \E typed \in Secrets :
            client' = [client EXCEPT ![c].pc = "clear", ![c].secret = typed]
       \/ End(c)
    /\ UNCHANGED <<daemon, inbox, clearing, outside, history>>

(* unlock_epoch: clear the entry, then sign with the secret.               *)
ClearEntry(c) ==
    /\ client[c].pc = "clear"
    /\ \/ /\ cache' = [cache EXCEPT ![client[c].key] = "cold"]
          /\ Goto(c, "sign")
       \/ End(c) /\ UNCHANGED cache
    /\ UNCHANGED <<daemon, inbox, clearing, cred, history>>

(* gpg-agent answers from a hot entry without looking at the secret.       *)
SignAccepts(k, secret) == cache[k] = "hot" \/ secret = "good"

SignSucceeds(c) ==
    /\ client[c].pc = "sign"
    /\ SignAccepts(client[c].key, client[c].secret)
    /\ cache' = [cache EXCEPT ![client[c].key] = "hot"]
    /\ Goto(c, CASE client[c].round = "stored" -> "send"
                 [] client[c].round = "fresh" -> "save"
                 [] client[c].round = "replacement" -> "drop")
    /\ UNCHANGED <<daemon, inbox, clearing, cred, history>>

(* A stored secret that gpg rejects earns one replacement prompt; any      *)
(* other failure ends the activation.                                      *)
SignFails(c) ==
    /\ client[c].pc = "sign"
    /\ \/ /\ client[c].round = "stored"
          /\ ~SignAccepts(client[c].key, client[c].secret)
          /\ client' = [client EXCEPT ![c].pc = "prompt",
                                      ![c].round = "replacement"]
       \/ End(c)
    /\ UNCHANGED <<daemon, inbox, clearing, outside, history>>

(* The rejected credential goes only after the fresh one is validated.     *)
DropRejected(c) ==
    /\ client[c].pc = "drop"
    /\ \/ /\ cred' = [cred EXCEPT ![client[c].key] = None]
          /\ Goto(c, "save")
       \/ End(c) /\ UNCHANGED cred
    /\ UNCHANGED <<daemon, inbox, clearing, cache, history>>

Save(c) ==
    /\ client[c].pc = "save"
    /\ \/ /\ cred' = [cred EXCEPT ![client[c].key] = client[c].secret]
          /\ Goto(c, "send")
       \/ End(c) /\ UNCHANGED cred
    /\ UNCHANGED <<daemon, inbox, clearing, cache, history>>

Mutated(c) == client[c].kind = "stored" /\ client[c].round # "stored"

(* Only a credential this activation has stored is taken back.             *)
Undo(c) == IF Mutated(c) THEN Goto(c, "rollback") ELSE End(c)

(* The On request is delivered, or connecting to the daemon fails.         *)
Send(c) ==
    /\ client[c].pc = "send"
    /\ \/ inbox' = inbox \cup {c} /\ Goto(c, "await")
       \/ Undo(c) /\ UNCHANGED inbox
    /\ UNCHANGED <<daemon, clearing, outside, history>>

Receive(c) ==
    /\ client[c].pc = "await"
    /\ \/ client[c].reply = "ok" /\ End(c)
       \/ client[c].reply = "error" /\ Undo(c)
    /\ UNCHANGED <<daemon, inbox, clearing, outside, history>>

(* Mutant: an ambiguous handoff is rolled back like a rejected one.        *)
GiveUpAndUndo(c) ==
    /\ c \in Unreliable
    /\ client[c].pc = "await"
    /\ Undo(c)
    /\ UNCHANGED <<daemon, inbox, clearing, outside, history>>

(* No usable response: the request may have been applied, so a credential  *)
(* this activation stored is kept.                                         *)
GiveUp(c) ==
    /\ c \in Unreliable
    /\ client[c].pc = "await"
    /\ End(c)
    /\ UNCHANGED <<daemon, inbox, clearing, outside, history>>

Rollback(c) ==
    /\ client[c].pc = "rollback"
    /\ \/ cred' = [cred EXCEPT ![client[c].key] = None]
       \/ UNCHANGED cred
    /\ End(c)
    /\ UNCHANGED <<daemon, inbox, clearing, cache, history>>

(* A killed client leaves its file locks to the kernel, and the request it *)
(* has already written to the daemon.                                      *)
Die(c) ==
    /\ c \in Unreliable
    /\ Guarding(c)
    /\ End(c)
    /\ UNCHANGED <<daemon, inbox, clearing, outside, history>>

ClientStep(c) ==
    \/ Admit(c)
    \/ UseForeground(c)
    \/ AcquireStore(c)
    \/ AcquireKey(c)
    \/ Load(c)
    \/ TypePassphrase(c)
    \/ ClearEntry(c)
    \/ SignSucceeds(c)
    \/ SignFails(c)
    \/ DropRejected(c)
    \/ Save(c)
    \/ Send(c)
    \/ Receive(c)
    \/ Rollback(c)

-----------------------------------------------------------------------------
(* The daemon: the On and Off handlers, and expiry.                        *)

(* A client that is gone never sees its response.                          *)
Reply(c, r) ==
    client' = [client EXCEPT ![c].reply =
                  IF client[c].pc = "await" THEN r ELSE None]

HandleOn(c) ==
    /\ c \in inbox
    /\ inbox' = inbox \ {c}
    /\ \/ /\ ~locking
          /\ hold' = [ on |-> TRUE, generation |-> hold.generation + 1,
                       key |-> client[c].key,
                       mode |-> IF client[c].kind = "stored" THEN "session"
                                                             ELSE "none" ]
          /\ Reply(c, "ok")
       \/ /\ locking
          /\ Reply(c, "error")
          /\ UNCHANGED hold
    /\ UNCHANGED <<locking, lock, sched, clearing, outside, history>>

(* Off, the deadline, or the failure of a current ping or renewal.         *)
TurnOff == hold' = [hold EXCEPT !.on = FALSE]

OffOrExpire ==
    /\ hold.on
    /\ TurnOff
    /\ UNCHANGED <<locking, lock, sched, client, inbox, clearing, outside,
                   history>>

-----------------------------------------------------------------------------
(* The lock handler (lock_key).                                            *)

BeginLock(clear) ==
    /\ ~locking
    /\ TurnOff
    /\ hold.key # None
    /\ locking' = TRUE
    /\ lock' = [pc |-> "drain", key |-> hold.key, clear |-> clear]
    /\ UNCHANGED <<sched, client, inbox, clearing, outside, history>>

LockGoto(pc) == lock' = [lock EXCEPT !.pc = pc]

(* activation.lock, exclusive: every activation has ended.                 *)
DrainActivations ==
    /\ lock.pc = "drain"
    /\ \A c \in Clients : ~Guarding(c)
    /\ LockGoto("global")
    /\ UNCHANGED <<hold, locking, sched, client, inbox, clearing, outside,
                   history>>

LockStore ==
    /\ lock.pc = "global"
    /\ ~clearing
    /\ LockGoto("key")
    /\ UNCHANGED <<hold, locking, sched, client, inbox, clearing, outside,
                   history>>

LockKey ==
    /\ lock.pc = "key"
    /\ KeyLockFree(lock.key)
    /\ LockGoto("delete")
    /\ UNCHANGED <<hold, locking, sched, client, inbox, clearing, outside,
                   history>>

(* A failed deletion fails the lock, but the cache is cleared all the      *)
(* same: pc "clear" still reports, pc "clear_failed" does not.             *)
DeleteCredential ==
    /\ lock.pc = "delete"
    /\ \/ ~lock.clear /\ UNCHANGED cred /\ LockGoto("clear")
       \/ /\ lock.clear
          /\ cred' = [cred EXCEPT ![lock.key] = None]
          /\ LockGoto("clear")
       \/ /\ lock.clear
          /\ UNCHANGED cred
          /\ LockGoto("clear_failed")
    /\ UNCHANGED <<hold, locking, sched, client, inbox, clearing, cache,
                   history>>

(* The handler leaves with its file locks dropped; a success is sealed.    *)
ClearManagedCache ==
    /\ lock.pc \in {"clear", "clear_failed"}
    /\ \/ /\ cache' = [cache EXCEPT ![lock.key] = "cold"]
          /\ sealed' = IF lock.pc = "clear"
                         THEN [key |-> lock.key, clear |-> lock.clear]
                         ELSE sealed
       \/ UNCHANGED <<cache, sealed>>
    /\ LockGoto("release")
    /\ UNCHANGED <<hold, locking, sched, client, inbox, clearing, cred,
                   forgotten>>

(* open_lock, flock or lock_transaction reports an error.                  *)
LockErrs ==
    /\ lock.pc \in {"drain", "global", "key"}
    /\ LockGoto("release")
    /\ UNCHANGED <<hold, locking, sched, client, inbox, clearing, outside,
                   history>>

EndLock ==
    /\ lock.pc = "release"
    /\ lock' = NoLock
    /\ locking' = FALSE
    /\ UNCHANGED <<hold, sched, client, inbox, clearing, outside, history>>

LockStep ==
    \/ DrainActivations
    \/ LockStore
    \/ LockKey
    \/ DeleteCredential
    \/ ClearManagedCache
    \/ EndLock

-----------------------------------------------------------------------------
(* The scheduler thread: pings, and renew_once.                            *)

SchedGoto(pc) == sched' = [sched EXCEPT !.pc = pc]

Current == hold.on /\ hold.generation = sched.generation

Dispatch ==
    /\ sched.pc = "idle"
    /\ hold.on
    /\ \E due \in {"ping", "global"} :
         /\ due = "global" => hold.mode = "session"
         /\ sched' = [ pc |-> due, generation |-> hold.generation,
                       key |-> hold.key, mode |-> hold.mode,
                       secret |-> None ]
    /\ UNCHANGED <<hold, locking, lock, client, inbox, clearing, outside,
                   history>>

(* A background ping never opens pinentry: it needs the entry.             *)
PingSucceeds ==
    /\ sched.pc = "ping"
    /\ cache[sched.key] = "hot"
    /\ sched' = NoWork
    /\ UNCHANGED <<hold, locking, lock, client, inbox, clearing, outside,
                   history>>

(* A failed ping of a session hold gets one recovery.                      *)
PingFails ==
    /\ sched.pc = "ping"
    /\ SchedGoto(IF sched.mode = "session" THEN "global" ELSE "failed")
    /\ UNCHANGED <<hold, locking, lock, client, inbox, clearing, outside,
                   history>>

RenewStore ==
    /\ sched.pc = "global"
    /\ ~clearing
    /\ SchedGoto("key")
    /\ UNCHANGED <<hold, locking, lock, client, inbox, clearing, outside,
                   history>>

RenewKey ==
    /\ sched.pc = "key"
    /\ KeyLockFree(sched.key)
    /\ SchedGoto("recheck")
    /\ UNCHANGED <<hold, locking, lock, client, inbox, clearing, outside,
                   history>>

StillRenewable ==
    /\ Current
    /\ hold.mode = "session"
    /\ hold.key = sched.key

(* Mutant: a renewal that waited for the key goes on as it was planned.    *)
NoRecheck ==
    /\ sched.pc = "recheck"
    /\ SchedGoto("load")
    /\ UNCHANGED <<hold, locking, lock, client, inbox, clearing, outside,
                   history>>

Recheck ==
    /\ sched.pc = "recheck"
    /\ IF StillRenewable THEN SchedGoto("load") ELSE sched' = NoWork
    /\ UNCHANGED <<hold, locking, lock, client, inbox, clearing, outside,
                   history>>

RenewLoad ==
    /\ sched.pc = "load"
    /\ LET found == cred[sched.key]
       IN  sched' = [sched EXCEPT
                       !.pc = IF found = None THEN "failed" ELSE "clear",
                       !.secret = found]
    /\ UNCHANGED <<hold, locking, lock, client, inbox, clearing, outside,
                   history>>

RenewClear ==
    /\ sched.pc = "clear"
    /\ cache' = [cache EXCEPT ![sched.key] = "cold"]
    /\ SchedGoto("sign")
    /\ UNCHANGED <<hold, locking, lock, client, inbox, clearing, cred,
                   history>>

(* A bad passphrase condemns the stored credential.                        *)
RenewSign ==
    /\ sched.pc = "sign"
    /\ \/ /\ SignAccepts(sched.key, sched.secret)
          /\ cache' = [cache EXCEPT ![sched.key] = "hot"]
          /\ sched' = NoWork
       \/ /\ ~SignAccepts(sched.key, sched.secret)
          /\ SchedGoto("reject")
          /\ UNCHANGED cache
    /\ UNCHANGED <<hold, locking, lock, client, inbox, clearing, cred,
                   history>>

RenewReject ==
    /\ sched.pc = "reject"
    /\ \/ cred' = [cred EXCEPT ![sched.key] = None]
       \/ UNCHANGED cred
    /\ SchedGoto("failed")
    /\ UNCHANGED <<hold, locking, lock, client, inbox, clearing, cache,
                   history>>

(* The store, the agent or gpg reports any other error.                    *)
RenewErrs ==
    /\ sched.pc \in {"global", "key", "load", "clear", "sign"}
    /\ SchedGoto("failed")
    /\ UNCHANGED <<hold, locking, lock, client, inbox, clearing, outside,
                   history>>

(* apply_ping_result and apply_renewal_result with an error.  A success    *)
(* only moves the schedule, which is not part of this model.               *)
ApplyFailure ==
    /\ sched.pc = "failed"
    /\ sched' = NoWork
    /\ IF Current THEN TurnOff ELSE UNCHANGED hold
    /\ UNCHANGED <<locking, lock, client, inbox, clearing, outside, history>>

SchedulerStep ==
    \/ PingSucceeds
    \/ PingFails
    \/ RenewStore
    \/ RenewKey
    \/ Recheck
    \/ RenewLoad
    \/ RenewClear
    \/ RenewSign
    \/ RenewReject
    \/ ApplyFailure

-----------------------------------------------------------------------------
(* `keyhold credential clear`, once: the barrier waits for every           *)
(* transaction, then every credential goes or the Secret Service fails.    *)

BeginCredentialClear ==
    /\ ~forgotten
    /\ ~clearing
    /\ ~StoreShared
    /\ clearing' = TRUE
    /\ UNCHANGED <<daemon, client, inbox, outside, history>>

EndCredentialClear ==
    /\ clearing
    /\ clearing' = FALSE
    /\ forgotten' = TRUE
    /\ \/ cred' = [k \in Keys |-> None]
       \/ UNCHANGED cred
    /\ UNCHANGED <<daemon, client, inbox, cache, sealed>>

(* gpg-agent drops an entry at its time limit or when it is restarted.     *)
AgentForgets(k) ==
    /\ cache[k] = "hot"
    /\ cache' = [cache EXCEPT ![k] = "cold"]
    /\ UNCHANGED <<daemon, client, inbox, clearing, cred, history>>

-----------------------------------------------------------------------------
(* Every activation is over and nothing is left for the daemon to do.      *)
Terminated ==
    /\ \A c \in Clients : client[c].pc = "done"
    /\ UNCHANGED vars

Next ==
    \/ \E c \in Clients, k \in Keys, kind \in {"ordinary", "stored"} :
         StartActivation(c, kind, k)
    \/ \E c \in Clients : ClientStep(c)
    \/ \E c \in Clients : GiveUp(c)
    \/ \E c \in Clients : Die(c)
    \/ \E c \in Clients : HandleOn(c)
    \/ OffOrExpire
    \/ \E clear \in BOOLEAN : BeginLock(clear)
    \/ LockStep
    \/ LockErrs
    \/ Dispatch
    \/ SchedulerStep
    \/ RenewErrs
    \/ BeginCredentialClear
    \/ EndCredentialClear
    \/ \E k \in Keys : AgentForgets(k)
    \/ Terminated

Spec == Init /\ [][Next]_vars

(***************************************************************************)
(* Every process takes its next step when it can: gpg and the agent run    *)
(* under timeouts, and the user is assumed to answer a prompt or a         *)
(* pinentry some time.  A key's lock that is released again and again goes *)
(* to an activation waiting for it some time: flock(2) queues its waiters, *)
(* and renewals are minutes apart.  Nobody is obliged to start anything.   *)
(***************************************************************************)
Fairness ==
    /\ \A c \in Clients :
         /\ WF_vars(ClientStep(c))
         /\ SF_vars(AcquireKey(c))
         /\ WF_vars(HandleOn(c))
    /\ WF_vars(LockStep)
    /\ WF_vars(SchedulerStep)
    /\ WF_vars(EndCredentialClear)

FairSpec == Spec /\ Fairness

-----------------------------------------------------------------------------
(* Properties.                                                             *)

ClientPCs ==
    { "idle", "admit", "use", "global", "key", "load", "prompt", "clear",
      "sign", "drop", "save", "send", "await", "rollback", "done" }

LockPCs ==
    { "idle", "drain", "global", "key", "delete", "clear", "clear_failed",
      "release" }

SchedPCs ==
    { "idle", "ping", "global", "key", "recheck", "load", "clear", "sign",
      "reject", "failed" }

HoldModes == {"none", "session"}

(* Every variable stays in its type.                                       *)
TypeOK ==
    /\ hold \in [ on : BOOLEAN, generation : Nat, key : Keys \cup {None},
                  mode : HoldModes ]
    /\ locking \in BOOLEAN
    /\ lock \in [ pc : LockPCs, key : Keys \cup {None}, clear : BOOLEAN ]
    /\ sched \in [ pc : SchedPCs, generation : Nat, key : Keys \cup {None},
                   mode : HoldModes, secret : Secrets \cup {None} ]
    /\ client \in [ Clients ->
                      [ pc : ClientPCs, kind : {"ordinary", "stored"},
                        key : Keys \cup {None}, secret : Secrets \cup {None},
                        round : {"stored", "fresh", "replacement"},
                        reply : {"ok", "error", None} ] ]
    /\ inbox \subseteq Clients
    /\ clearing \in BOOLEAN
    /\ cache \in [Keys -> {"hot", "cold"}]
    /\ cred \in [Keys -> Secrets \cup {None}]
    /\ sealed \in [key : Keys, clear : BOOLEAN] \cup {None}
    /\ forgotten \in BOOLEAN

(* What a successful lock promises (README "Lock the managed key"), from   *)
(* the moment it has cleared the cache until an activation is admitted     *)
(* after it: the hold is off, the managed key's cache entry is absent and, *)
(* with --clear, so is its credential.  Renewals already running, renewals *)
(* queued behind the lock, and activations already under way are the ones  *)
(* that could break it.                                                    *)
LockSuccessLasts ==
    sealed # None =>
        /\ ~hold.on
        /\ cache[sealed.key] = "cold"
        /\ sealed.clear => cred[sealed.key] = None

(* A good credential is taken only by the user, who clears them or locks   *)
(* with --clear, and by the activation that stored it, once its request is *)
(* known to have been refused or never delivered.  So the credential of a  *)
(* session hold survives later activations that roll back, renewals, and   *)
(* its own activation losing the response.                                 *)
GoodCredentialIsKept ==
    [][\A k \in Keys :
         (cred[k] = "good" /\ cred'[k] # "good") =>
            \/ clearing
            \/ lock.pc = "delete" /\ lock.clear /\ lock.key = k
            \/ \E c \in Clients :
                 /\ client[c].pc = "rollback"
                 /\ client[c].key = k
                 /\ client[c].secret = "good"
                 /\ c \notin inbox
                 /\ client[c].reply # "ok"]_vars

(* The passphrase is validated against the exact selected key before it is *)
(* stored (SECURITY.md): no store operation puts a wrong one in.  The code *)
(* keeps to it only while nothing else fills the cache between the clear   *)
(* and the sign of unlock_epoch.                                           *)
OnlyValidatedIsStored ==
    [][\A k \in Keys : cred'[k] = "bad" => cred[k] = "bad"]_vars

(* A lock that has begun ends, behind any activation, renewal or           *)
(* credential clear: the file locks are always taken in an order that      *)
(* cannot close a cycle.                                                   *)
LockEnds == locking ~> ~locking

(* An activation that has begun ends, whatever it waits for.               *)
ActivationEnds == \A c \in Clients : Guarding(c) ~> ~Guarding(c)

(* Locks and activations, which wait for each other's file locks, all end, *)
(* although clients may be killed at any step.                             *)
NobodyWaitsForEver == LockEnds /\ ActivationEnds
=============================================================================
