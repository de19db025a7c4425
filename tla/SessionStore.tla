---------------------------- MODULE SessionStore ----------------------------
(***************************************************************************)
(* The items of the Secret Service's session collection, and everybody who *)
(* puts them there and takes them away: stored activations up to their     *)
(* handoff and rollback, `keyhold credential clear`, and the cleanup of a  *)
(* daemon that shuts down (src/credential.rs, src/activation.rs,           *)
(* src/main.rs, src/daemon.rs).  Deletion goes item by item and may fail   *)
(* in between.  The lock and renewal of a running hold are LockProtocol's. *)
(***************************************************************************)
EXTENDS Option, Naturals, FiniteSets

CONSTANTS
    Clients,    \* bound: stored activations in the run
    Clearer,    \* the process of `keyhold credential clear`
    Daemon,
    Keygrips,   \* of the signing keys
    Stores,     \* what the session collection may hold at the start
    Configs,    \* policies in the file as the daemon starts and as it ends
    Faults      \* bound: deletions and stores that fail, clients killed

Secrets == {"right", "wrong"}

(* Two items of one keygrip differ in attributes that only one of them     *)
(* has, so storing replaces an item only if it is a plain one.             *)
Items == [grip : Keygrips, form : {"plain", "other"}, secret : Secrets]

(* The two switches of the configuration that act at the daemon's end.     *)
Policies == [clear_secret : BOOLEAN, lock_key : BOOLEAN]

ASSUME SessionStoreAssumption ==
    /\ Stores \subseteq SUBSET Items
    /\ Configs \subseteq Policies \X (Policies \cup {None})
    /\ Faults \in Nat
    /\ Clearer # Daemon
    /\ {Clearer, Daemon} \cap Clients = {}
    /\ None \notin Keygrips /\ None \notin Policies

Processes == Clients \cup {Clearer, Daemon}

VARIABLES
    items,      \* keyhold's items in the session collection
    warm,       \* keygrips whose passphrase the agent has
    client,     \* each activation: where it is and what it knows
    clearer,    \* where `credential clear` is
    daemon,     \* where the daemon is
    sweep,      \* items each process has found and still has to delete
    held,       \* Hold.keygrip of the daemon, kept when the hold ends
    start,      \* the policies at the daemon's start
    disk,       \* the policies in the file at its end, None if unreadable
    faults      \* failures left in the run

daemonVars == <<daemon, held, start, disk>>
vars == <<items, warm, client, clearer, sweep, daemonVars, faults>>

Idle == [step |-> "idle", grip |-> None, secret |-> None, from |-> "prompt"]

Init ==
    /\ items \in Stores
    /\ warm \in SUBSET Keygrips
    /\ client = [c \in Clients |-> Idle]
    /\ clearer = "idle"
    /\ daemon = "serving"
    /\ sweep = [p \in Processes |-> {}]
    /\ held \in Keygrips \cup {None}
    /\ \E conf \in Configs : start = conf[1] /\ disk = conf[2]
    /\ faults = Faults

-----------------------------------------------------------------------------
(* The lock files: a transaction is a shared lock on the store and an      *)
(* exclusive one on the key; the barrier is an exclusive lock on the store.*)
(* The kernel drops a process's locks with the process.                    *)

(* Mutant: the lock is a file's existence, which outlives the process.     *)
FileExists(c) == client[c].step \notin {"idle", "global", "key", "done"}

InTransaction(c) ==
    client[c].step \notin {"idle", "global", "key", "done", "dead"}

Barrier == clearer = "sweep" \/ daemon = "sweep"

StoreIdle ==
    /\ ~Barrier
    /\ \A c \in Clients : ~InTransaction(c) /\ client[c].step # "key"

KeyFree(g) == \A c \in Clients : InTransaction(c) => client[c].grip # g

-----------------------------------------------------------------------------
(* Operations on the collection.                                           *)

Found(g) == {i \in items : i.grip = g}

(* create_item(replace) replaces what has exactly the same attributes.     *)
Stored(g, secret) ==
    {i \in items : i.grip # g \/ i.form # "plain"}
      \cup {[grip |-> g, form |-> "plain", secret |-> secret]}

Search(p, found) == sweep' = [sweep EXCEPT ![p] = found]

Delete(p) ==
    \E i \in sweep[p] :
      /\ items' = items \ {i}
      /\ Search(p, sweep[p] \ {i})

Fault == faults > 0 /\ faults' = faults - 1

(* One deletion failed: the rest is not tried.                             *)
DeleteFails(p) == sweep[p] # {} /\ Fault /\ Search(p, {})

-----------------------------------------------------------------------------
(* stored() and unlock_epoch() of an activation.                           *)

Goto(c, step) == client' = [client EXCEPT ![c].step = step]

(* What it knew goes with the activation.                                  *)
End(c, step) == client' = [client EXCEPT ![c] = [Idle EXCEPT !.step = step]]

(* What a step of an activation leaves alone.                              *)
Quiet == UNCHANGED <<clearer, daemonVars>>
Quieter == Quiet /\ UNCHANGED <<items, warm, sweep, faults>>

(* ensure_running found this daemon; guard_activation and the probe of the *)
(* target touch nothing modelled here.                                     *)
Begin(c, g) ==
    /\ client[c].step = "idle"
    /\ daemon = "serving"
    /\ client' = [client EXCEPT ![c].step = "global", ![c].grip = g]
    /\ Quieter

LockGlobal(c) ==
    /\ client[c].step = "global"
    /\ ~Barrier
    /\ Goto(c, "key")
    /\ Quieter

LockKey(c) ==
    /\ client[c].step = "key"
    /\ KeyFree(client[c].grip)
    /\ Goto(c, "load")
    /\ Quieter

(* load takes the first item found, in no particular order; without one    *)
(* the passphrase is typed.  A failure ends the activation.                *)
Load(c) ==
    /\ client[c].step = "load"
    /\ \/ /\ Found(client[c].grip) = {}
          /\ Goto(c, "prompt")
       \/ \E i \in Found(client[c].grip) :
            client' = [client EXCEPT ![c].secret = i.secret,
                                     ![c].from = "store", ![c].step = "clear"]
       \/ End(c, "done")
    /\ Quieter

(* The first or, after a rejection, the second prompt.                     *)
Type(c, secret) ==
    /\ client[c].step = "prompt"
    /\ client' = [client EXCEPT ![c].secret = secret, ![c].step = "clear"]
    /\ Quieter

PromptFails(c) ==
    /\ client[c].step = "prompt"
    /\ End(c, "done")
    /\ Quieter

ClearEntry(c) ==
    /\ client[c].step = "clear"
    /\ warm' = warm \ {client[c].grip}
    /\ Goto(c, "sign")
    /\ Quiet /\ UNCHANGED <<items, sweep, faults>>

(* A replacement is saved once every item of its keygrip is deleted, a     *)
(* first passphrase straight away, since there is none.                    *)
SignSucceeds(c) ==
    /\ client[c].step = "sign"
    /\ client[c].secret = "right"
    /\ warm' = warm \cup {client[c].grip}
    /\ \/ client[c].from = "store" /\ Goto(c, "handoff") /\ UNCHANGED sweep
       \/ client[c].from = "prompt" /\ Goto(c, "save") /\ UNCHANGED sweep
       \/ /\ client[c].from = "replacement"
          /\ Goto(c, "drop")
          /\ Search(c, Found(client[c].grip))
    /\ Quiet /\ UNCHANGED <<items, faults>>

(* Mutant: the rejected items go before their replacement is there.        *)
RejectedIsDropped(c) ==
    /\ client[c].step = "sign"
    /\ client[c].secret = "wrong"
    /\ IF client[c].from = "store"
         THEN /\ client' = [client EXCEPT ![c].from = "replacement",
                              ![c].secret = None, ![c].step = "prompt"]
              /\ items' = items \ Found(client[c].grip)
         ELSE End(c, "done") /\ UNCHANGED items
    /\ Quiet /\ UNCHANGED <<warm, sweep, faults>>

(* A stored secret that is rejected gets one prompt, a typed one none.     *)
SignRejected(c) ==
    /\ client[c].step = "sign"
    /\ client[c].secret = "wrong"
    /\ IF client[c].from = "store"
         THEN client' = [client EXCEPT ![c].from = "replacement",
                           ![c].secret = None, ![c].step = "prompt"]
         ELSE End(c, "done")
    /\ Quieter

(* The agent or gpg fails for another reason.                              *)
Unwell(c) ==
    /\ client[c].step \in {"clear", "sign"}
    /\ End(c, "done")
    /\ Quieter

(* Mutant: the items replaced are not deleted first.                       *)
NothingDropped(c) ==
    /\ client[c].step = "drop"
    /\ Search(c, {})
    /\ Goto(c, "save")
    /\ Quiet /\ UNCHANGED <<items, warm, faults>>

DropOne(c) ==
    /\ client[c].step = "drop"
    /\ Delete(c)
    /\ Quiet /\ UNCHANGED <<warm, client, faults>>

Dropped(c) ==
    /\ client[c].step = "drop"
    /\ sweep[c] = {}
    /\ Goto(c, "save")
    /\ Quieter

DropFails(c) ==
    /\ client[c].step = "drop"
    /\ DeleteFails(c)
    /\ End(c, "done")
    /\ Quiet /\ UNCHANGED <<items, warm>>

Save(c) ==
    /\ client[c].step = "save"
    /\ items' = Stored(client[c].grip, client[c].secret)
    /\ Goto(c, "handoff")
    /\ Quiet /\ UNCHANGED <<warm, sweep, faults>>

SaveFails(c) ==
    /\ client[c].step = "save"
    /\ Fault
    /\ End(c, "done")
    /\ Quiet /\ UNCHANGED <<items, warm, sweep>>

-----------------------------------------------------------------------------
(* The handoff, and finish_activation_handoff().                           *)

(* credential_mutated of the activation that was prepared.                 *)
Mutated(c) == client[c].from # "store"

(* The listener is open until the accept thread has returned.              *)
Listening == daemon \in {"serving", "stopping"}

(* The daemon applies the request, whether or not its response arrives.    *)
Accepted(c) ==
    /\ client[c].step = "handoff"
    /\ daemon = "serving"
    /\ held' = client[c].grip
    /\ End(c, "done")
    /\ UNCHANGED <<items, warm, clearer, sweep, daemon, start, disk, faults>>

(* Connected, not applied, and no answer: it may have been applied.        *)
Unanswered(c) ==
    /\ client[c].step = "handoff"
    /\ Listening
    /\ End(c, "done")
    /\ Quieter

(* No connection, or an error for an answer: only what this activation     *)
(* stored is undone.                                                       *)
Rejected(c) ==
    /\ client[c].step = "handoff"
    /\ IF Mutated(c)
         THEN Goto(c, "rollback") /\ Search(c, Found(client[c].grip))
         ELSE End(c, "done") /\ UNCHANGED sweep
    /\ Quiet /\ UNCHANGED <<items, warm, faults>>

RollBackOne(c) ==
    /\ client[c].step = "rollback"
    /\ Delete(c)
    /\ Quiet /\ UNCHANGED <<warm, client, faults>>

RolledBack(c) ==
    /\ client[c].step = "rollback"
    /\ sweep[c] = {}
    /\ End(c, "done")
    /\ Quieter

RollbackFails(c) ==
    /\ client[c].step = "rollback"
    /\ DeleteFails(c)
    /\ End(c, "done")
    /\ Quiet /\ UNCHANGED <<items, warm>>

(* The process is killed.                                                  *)
Dies(c) ==
    /\ client[c].step \notin {"idle", "done", "dead"}
    /\ Fault
    /\ End(c, "dead")
    /\ Search(c, {})
    /\ Quiet /\ UNCHANGED <<items, warm>>

-----------------------------------------------------------------------------
(* clear_all(), by `credential clear` and by the daemon.                   *)

ClearAll ==
    /\ clearer = "idle"
    /\ StoreIdle
    /\ clearer' = "sweep"
    /\ Search(Clearer, items)
    /\ UNCHANGED <<items, warm, client, daemonVars, faults>>

ClearOne ==
    /\ clearer = "sweep"
    /\ Delete(Clearer)
    /\ UNCHANGED <<warm, client, clearer, daemonVars, faults>>

(* Mutant: a failed deletion is passed over.                               *)
ClearPassesOver ==
    /\ clearer = "sweep"
    /\ sweep[Clearer] # {}
    /\ Fault
    /\ \E i \in sweep[Clearer] : Search(Clearer, sweep[Clearer] \ {i})
    /\ UNCHANGED <<items, warm, client, clearer, daemonVars>>

ClearFails ==
    /\ clearer = "sweep"
    /\ DeleteFails(Clearer)
    /\ clearer' = "failed"
    /\ UNCHANGED <<items, warm, client, daemonVars>>

Cleared ==
    /\ clearer = "sweep"
    /\ sweep[Clearer] = {}
    /\ clearer' = "cleared"
    /\ UNCHANGED <<items, warm, client, sweep, daemonVars, faults>>

-----------------------------------------------------------------------------
(* The daemon's end.                                                       *)

DaemonGoto(step) == daemon' = step /\ UNCHANGED <<held, start, disk>>

(* A shutdown request or a signal.                                         *)
Stop ==
    /\ daemon = "serving"
    /\ DaemonGoto("stopping")
    /\ UNCHANGED <<items, warm, client, clearer, sweep, faults>>

(* The accept thread has returned and the handlers are drained.            *)
Drain ==
    /\ daemon = "stopping"
    /\ DaemonGoto("cleanup")
    /\ UNCHANGED <<items, warm, client, clearer, sweep, faults>>

(* Mutant: without a readable file no policy applies.                      *)
PolicyOfDisk ==
    IF disk = None THEN [clear_secret |-> FALSE, lock_key |-> FALSE] ELSE disk

(* The file as it is now, or else what it was at the start.                *)
Policy == IF disk = None THEN start ELSE disk

CleanSecrets ==
    /\ daemon = "cleanup"
    /\ \/ /\ Policy.clear_secret /\ StoreIdle
          /\ DaemonGoto("sweep")
          /\ Search(Daemon, items)
       \/ /\ ~Policy.clear_secret
          /\ DaemonGoto("lock")
          /\ UNCHANGED sweep
    /\ UNCHANGED <<items, warm, client, clearer, faults>>

CleanOne ==
    /\ daemon = "sweep"
    /\ Delete(Daemon)
    /\ UNCHANGED <<warm, client, clearer, daemonVars, faults>>

(* A failure is reported and does not end the cleanup.                     *)
CleanFails ==
    /\ daemon = "sweep"
    /\ DeleteFails(Daemon)
    /\ DaemonGoto("lock")
    /\ UNCHANGED <<items, warm, client, clearer>>

Cleaned ==
    /\ daemon = "sweep"
    /\ sweep[Daemon] = {}
    /\ DaemonGoto("lock")
    /\ UNCHANGED <<items, warm, client, clearer, sweep, faults>>

(* clear_passphrase of the key retained, which may fail; the socket goes.  *)
LockKeyAtEnd ==
    /\ daemon = "lock"
    /\ warm' \in {warm, IF Policy.lock_key THEN warm \ {held} ELSE warm}
    /\ DaemonGoto("gone")
    /\ UNCHANGED <<items, client, clearer, sweep, faults>>

-----------------------------------------------------------------------------
Activation(c) ==
    \/ \E g \in Keygrips : Begin(c, g)
    \/ LockGlobal(c) \/ LockKey(c)
    \/ Load(c)
    \/ \E s \in Secrets : Type(c, s)
    \/ PromptFails(c)
    \/ ClearEntry(c) \/ SignSucceeds(c) \/ SignRejected(c) \/ Unwell(c)
    \/ DropOne(c) \/ Dropped(c) \/ DropFails(c)
    \/ Save(c) \/ SaveFails(c)
    \/ Accepted(c) \/ Unanswered(c) \/ Rejected(c)
    \/ RollBackOne(c) \/ RolledBack(c) \/ RollbackFails(c)
    \/ Dies(c)

Clearing == ClearAll \/ ClearOne \/ ClearFails \/ Cleared

Ending ==
    Drain \/ CleanSecrets \/ CleanOne \/ CleanFails \/ Cleaned \/ LockKeyAtEnd

Next ==
    \/ \E c \in Clients : Activation(c)
    \/ Clearing
    \/ Stop
    \/ Ending

(* Processes run and a person answers the prompt.                          *)
Fairness ==
    /\ \A c \in Clients : WF_vars(Activation(c) /\ client[c].step # "idle")
    /\ WF_vars(Clearing /\ clearer # "idle")
    /\ WF_vars(Ending)

Spec == Init /\ [][Next]_vars /\ Fairness

-----------------------------------------------------------------------------
(* Properties.                                                             *)

(* What an activation stored is all there is to be loaded for its key      *)
(* until it ends: what gpg rejected is gone, whatever attributes it had,   *)
(* and no process stores, clears or rolls back in between.                 *)
ValidatedIsWhatLoads ==
    \A c \in Clients :
      (client[c].step = "handoff" /\ Mutated(c)) =>
        {i.secret : i \in Found(client[c].grip)} = {"right"}

(* An activation takes an item away only with a passphrase in hand that gpg *)
(* accepted, and then leaves the key unlocked; it takes the cached         *)
(* passphrase only with one in hand to try (activation.rs:234-251 obtains  *)
(* it first).  So an outage of the service or a first prompt given up      *)
(* costs nothing, and a rejected replacement no item.  More is not         *)
(* promised: a stale secret costs the cached passphrase even if the second *)
(* prompt is given up, and items replaced are gone if the save then fails. *)
NothingLostWithoutSecret ==
    [][ LET Owns(c, g, secrets) == /\ InTransaction(c)
                                   /\ client[c].grip = g
                                   /\ client[c].secret \in secrets
        IN  /\ \A i \in items \ items' :
                 \/ Barrier
                 \/ \E c \in Clients : Owns(c, i.grip, {"right"})
                      /\ (i.grip \in warm' \/ daemon = "gone")
            /\ \A g \in warm \ warm' :
                 \/ daemon = "lock"
                 \/ \E c \in Clients : Owns(c, g, Secrets) ]_vars

(* `credential clear` reports success only when nothing is left, although  *)
(* it deletes item by item, a deletion may fail, and activations store.    *)
ClearedMeansEmpty == [][Cleared => items = {}]_vars

(* A daemon whose policies clear the secrets, by the file at its end or,   *)
(* if that is unreadable, by the file at its start, leaves none behind if  *)
(* nothing fails: an activation under way when the daemon stopped ends     *)
(* before the sweep, or is turned away after it and rolls back.            *)
TeardownLeavesNothing ==
    ( /\ daemon = "gone"
      /\ IF disk = None THEN start.clear_secret ELSE disk.clear_secret
      /\ faults = Faults
      /\ \A c \in Clients : ~InTransaction(c) ) => items = {}

(* The cleanup waits for activations under way, also for those at a prompt *)
(* and those that were killed, and ends.                                   *)
TeardownEnds == daemon = "stopping" ~> daemon = "gone"
=============================================================================
