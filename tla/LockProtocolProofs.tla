-------------------------- MODULE LockProtocolProofs --------------------------
(***************************************************************************)
(* Theorems about LockProtocol, for any number of activations and keys:    *)
(* the types, the exclusion of the key's transactions, what becomes of a   *)
(* stored credential, and what a successful lock promises.                 *)
(***************************************************************************)
EXTENDS LockProtocol, TLAPS

-----------------------------------------------------------------------------
(***************************************************************************)
(* Types.                                                                  *)
(***************************************************************************)

(* Whatever is under way has a key.                                        *)
KeysKnown ==
    /\ hold.on => hold.key \in Keys
    /\ lock.pc # "idle" => lock.key \in Keys
    /\ sched.pc # "idle" => sched.key \in Keys
    /\ \A c \in Clients : client[c].pc # "idle" => client[c].key \in Keys
    /\ \A c \in inbox : client[c].pc # "idle"

(* The actions of one client, as one disjunction.                          *)
ClientAction(c) ==
    \/ \E k \in Keys, kind \in {"ordinary", "stored"} :
         StartActivation(c, kind, k)
    \/ ClientStep(c)
    \/ GiveUp(c)
    \/ Die(c)

Types == TypeOK /\ KeysKnown

ClientRecords ==
    [ pc : ClientPCs, kind : {"ordinary", "stored"}, key : Keys \cup {None},
      secret : Secrets \cup {None}, round : {"stored", "fresh", "replacement"},
      reply : {"ok", "error", None} ]

(* What End, Goto and the start of an activation leave of a client.        *)
LEMMA EndFacts ==
    ASSUME TypeOK, NEW c \in Clients, End(c)
    PROVE  /\ client' \in [Clients -> ClientRecords]
           /\ client'[c].pc = "done"
           /\ client'[c].reply = None
           /\ client'[c].key = client[c].key
           /\ client'[c].kind = client[c].kind
           /\ \A d \in Clients \ {c} : client'[d] = client[d]
  <1>1. client \in [Clients -> ClientRecords] /\ client[c] \in ClientRecords
    BY DEF TypeOK, ClientRecords
  <1> DEFINE ended == [client[c] EXCEPT !.pc = "done", !.secret = None,
                                        !.round = "fresh", !.reply = None]
  <1>2. /\ ended \in ClientRecords
        /\ ended.pc = "done"
        /\ ended.reply = None
        /\ ended.key = client[c].key
        /\ ended.kind = client[c].kind
    BY <1>1 DEF ClientRecords, ClientPCs
  <1>3. client' = [client EXCEPT ![c] = ended]
    BY <1>1 DEF End
  <1> HIDE DEF ended
  <1>4. QED
    BY <1>1, <1>2, <1>3

LEMMA GotoFacts ==
    ASSUME TypeOK, NEW c \in Clients, NEW pc \in ClientPCs, Goto(c, pc)
    PROVE  /\ client' \in [Clients -> ClientRecords]
           /\ client'[c].pc = pc
           /\ client'[c].reply = client[c].reply
           /\ client'[c].key = client[c].key
           /\ client'[c].kind = client[c].kind
           /\ client'[c].secret = client[c].secret
           /\ client'[c].round = client[c].round
           /\ \A d \in Clients \ {c} : client'[d] = client[d]
  BY DEF TypeOK, Goto, ClientRecords

LEMMA StartFacts ==
    ASSUME TypeOK, NEW c \in Clients, NEW k \in Keys,
           NEW kind \in {"ordinary", "stored"}, StartActivation(c, kind, k)
    PROVE  /\ client' \in [Clients -> ClientRecords]
           /\ client'[c].pc = "admit"
           /\ client'[c].reply = client[c].reply
           /\ \A d \in Clients \ {c} : client'[d] = client[d]
  <1>1. client \in [Clients -> ClientRecords] /\ client[c] \in ClientRecords
    BY DEF TypeOK, ClientRecords
  <1> DEFINE started == [client[c] EXCEPT !.pc = "admit", !.kind = kind,
                                          !.key = k]
  <1>2. /\ started \in ClientRecords
        /\ started.pc = "admit"
        /\ started.reply = client[c].reply
    BY <1>1 DEF ClientRecords, ClientPCs
  <1>3. client' = [client EXCEPT ![c] = started]
    BY <1>1 DEF StartActivation
  <1> HIDE DEF started
  <1>4. QED
    BY <1>1, <1>2, <1>3

(* One client moves, and neither starts nor changes its key.               *)
LEMMA MoveTypes ==
    ASSUME Types, NEW c \in Clients, client' \in [Clients -> ClientRecords],
           \A d \in Clients \ {c} : client'[d] = client[d],
           client[c].pc # "idle", client'[c].key = client[c].key,
           inbox' \subseteq inbox \cup {c}, client'[c].pc # "idle",
           cache' \in [Keys -> {"hot", "cold"}],
           cred' \in [Keys -> Secrets \cup {None}],
           UNCHANGED <<daemon, clearing>>,
           sealed' \in {sealed, None}, forgotten' = forgotten
    PROVE  Types'
  BY DEF Types, TypeOK, KeysKnown, ClientRecords, daemon

(* What a client's step may do beside moving it.                           *)
LEMMA BesideClient ==
    ASSUME Types, NEW c \in Clients, ClientStep(c) \/ GiveUp(c) \/ Die(c)
    PROVE  /\ client[c].pc # "idle"
           /\ inbox' \subseteq inbox \cup {c}
           /\ cache' \in [Keys -> {"hot", "cold"}]
           /\ cred' \in [Keys -> Secrets \cup {None}]
           /\ UNCHANGED <<daemon, clearing>>
           /\ sealed' \in {sealed, None} /\ forgotten' = forgotten
  <1>1. /\ cache \in [Keys -> {"hot", "cold"}]
        /\ cred \in [Keys -> Secrets \cup {None}]
        /\ client[c].secret \in Secrets \cup {None}
    BY DEF Types, TypeOK
  <1>2. CASE UseForeground(c) \/ ClearEntry(c) \/ SignSucceeds(c)
    BY <1>1, <1>2 DEF UseForeground, ClearEntry, SignSucceeds, daemon, history
  <1>3. CASE DropRejected(c) \/ Save(c) \/ Rollback(c)
    BY <1>1, <1>3 DEF DropRejected, Save, Rollback, daemon, history
  <1>4. CASE Admit(c) \/ AcquireStore(c) \/ AcquireKey(c) \/ Load(c)
             \/ TypePassphrase(c) \/ SignFails(c)
    BY <1>1, <1>4 DEF Admit, AcquireStore, AcquireKey, Load, TypePassphrase,
                      SignFails, daemon, outside, history
  <1>5. CASE Send(c) \/ Receive(c) \/ GiveUp(c) \/ Die(c)
    BY <1>1, <1>5
    DEF Send, Receive, GiveUp, Die, Guarding, daemon, outside, history
  <1>6. QED
    BY <1>2, <1>3, <1>4, <1>5 DEF ClientStep

(* A client's step moves that client.                                      *)
LEMMA ClientTypes ==
    ASSUME Types, NEW c \in Clients, ClientAction(c)
    PROVE  Types'
  <1>0. /\ TypeOK /\ client \in [Clients -> ClientRecords]
        /\ client[c] \in ClientRecords
    BY DEF Types, TypeOK, ClientRecords
  <1>1. CASE \E k \in Keys, kind \in {"ordinary", "stored"} :
               StartActivation(c, kind, k)
    <2>1. PICK k \in Keys, kind \in {"ordinary", "stored"} :
            StartActivation(c, kind, k)
      BY <1>1
    <2>2. /\ client' \in [Clients -> ClientRecords]
          /\ \A d \in Clients \ {c} : client'[d] = client[d]
          /\ client'[c].pc = "admit"
      BY <1>0, <2>1, StartFacts
    <2>3. client'[c].key = k
      BY <1>0, <2>1 DEF StartActivation, ClientRecords
    <2>4. UNCHANGED <<daemon, inbox, clearing, outside, history>>
      BY <2>1 DEF StartActivation
    <2>5. QED
      BY <1>0, <2>2, <2>3, <2>4
      DEF Types, TypeOK, KeysKnown, ClientRecords, daemon, outside, history
  <1>2. ASSUME ClientStep(c) \/ GiveUp(c) \/ Die(c),
               client' \in [Clients -> ClientRecords],
               \A d \in Clients \ {c} : client'[d] = client[d],
               client'[c].key = client[c].key,
               client'[c].pc # "idle"
        PROVE  Types'
    BY <1>2, BesideClient, MoveTypes
  <1>3. CASE End(c) /\ (ClientStep(c) \/ GiveUp(c) \/ Die(c))
    BY <1>0, <1>2, <1>3, EndFacts
  <1>4. CASE /\ ClientStep(c)
             /\ \E pc \in ClientPCs \ {"idle"} : Goto(c, pc)
    <2>1. PICK pc \in ClientPCs \ {"idle"} : Goto(c, pc)
      BY <1>4
    <2>2. QED
      BY <1>0, <1>2, <1>4, <2>1, GotoFacts
  <1>5. CASE (Load(c) \/ TypePassphrase(c) \/ SignFails(c)) /\ ~End(c)
    <2>1. CASE Load(c)
      <3>1. cred[client[c].key] \in Secrets \cup {None}
            /\ client[c].pc = "load"
        BY <2>1 DEF Types, TypeOK, KeysKnown, Load
      <3>2. /\ client' \in [Clients -> ClientRecords]
            /\ \A d \in Clients \ {c} : client'[d] = client[d]
            /\ client'[c].key = client[c].key
            /\ client'[c].pc # "idle"
        BY <1>0, <1>5, <2>1, <3>1 DEF Load, ClientRecords, ClientPCs
      <3>3. QED
        BY <1>2, <2>1, <3>2 DEF ClientStep
    <2>2. CASE TypePassphrase(c)
      <3>1. /\ client' \in [Clients -> ClientRecords]
            /\ \A d \in Clients \ {c} : client'[d] = client[d]
            /\ client'[c].key = client[c].key
            /\ client'[c].pc # "idle"
        BY <1>0, <1>5, <2>2 DEF TypePassphrase, ClientRecords, ClientPCs
      <3>2. QED
        BY <1>2, <2>2, <3>1 DEF ClientStep
    <2>3. CASE SignFails(c)
      <3>1. /\ client' \in [Clients -> ClientRecords]
            /\ \A d \in Clients \ {c} : client'[d] = client[d]
            /\ client'[c].key = client[c].key
            /\ client'[c].pc # "idle"
        BY <1>0, <1>5, <2>3 DEF SignFails, ClientRecords, ClientPCs
      <3>2. QED
        BY <1>2, <2>3, <3>1 DEF ClientStep
    <2>4. QED
      BY <1>5, <2>1, <2>2, <2>3
  <1>6. SignSucceeds(c) => \E pc \in ClientPCs \ {"idle"} : Goto(c, pc)
    <2>1. client[c].round \in {"stored", "fresh", "replacement"}
      BY <1>0 DEF ClientRecords
    <2>2. QED
      BY <2>1 DEF SignSucceeds, ClientPCs
  <1>7. (ClientStep(c) /\ ~(Load(c) \/ TypePassphrase(c) \/ SignFails(c))) =>
          End(c) \/ \E pc \in ClientPCs \ {"idle"} : Goto(c, pc)
    BY <1>6 DEF ClientStep, Admit, UseForeground, AcquireStore, AcquireKey,
                ClearEntry, DropRejected, Save, Send, Receive, Undo, Rollback,
                ClientPCs
  <1>8. QED
    BY <1>1, <1>3, <1>4, <1>5, <1>7
    DEF ClientAction, ClientStep, GiveUp, Die

(* The other processes: the daemon's threads, credential clear, the agent. *)
LockAction ==
    \/ \E clear \in BOOLEAN : BeginLock(clear)
    \/ LockStep
    \/ LockErrs

SchedulerAction == Dispatch \/ SchedulerStep \/ RenewErrs

LEMMA LockTypes ==
    ASSUME Types, LockAction
    PROVE  Types'
  <1> USE DEF Types, TypeOK, KeysKnown, LockPCs
  <1>1. CASE \E clear \in BOOLEAN : BeginLock(clear)
    <2>1. PICK clear \in BOOLEAN : BeginLock(clear)
      BY <1>1
    <2>2. hold.key \in Keys /\ hold' = [hold EXCEPT !.on = FALSE]
      BY <2>1 DEF BeginLock, TurnOff
    <2>3. hold' \in [ on : BOOLEAN, generation : Nat, key : Keys \cup {None},
                      mode : HoldModes ] /\ hold'.on = FALSE
      BY <2>2
    <2>4. lock' = [pc |-> "drain", key |-> hold.key, clear |-> clear]
          /\ locking' = TRUE
      BY <2>1 DEF BeginLock
    <2>5. UNCHANGED <<sched, client, inbox, clearing, outside, history>>
      BY <2>1 DEF BeginLock
    <2>6. QED
      BY <2>2, <2>3, <2>4, <2>5 DEF outside, history
  <1>2. CASE DrainActivations \/ LockStore \/ LockKey \/ LockErrs
    BY <1>2 DEF DrainActivations, LockStore, LockKey, LockErrs, LockGoto,
                outside, history
  <1>3. CASE DeleteCredential
    BY <1>3 DEF DeleteCredential, LockGoto, history
  <1>4. CASE ClearManagedCache
    BY <1>4 DEF ClearManagedCache, LockGoto
  <1>5. CASE EndLock
    BY <1>5 DEF EndLock, NoLock, outside, history
  <1>6. QED
    BY <1>1, <1>2, <1>3, <1>4, <1>5 DEF LockAction, LockStep

LEMMA SchedulerTypes ==
    ASSUME Types, SchedulerAction
    PROVE  Types'
  <1> USE DEF Types, TypeOK, KeysKnown, SchedPCs, HoldModes, NoWork
  <1>1. CASE Dispatch
    BY <1>1 DEF Dispatch, outside, history
  <1>2. CASE PingSucceeds \/ PingFails \/ RenewStore \/ RenewKey \/ Recheck
             \/ RenewErrs
    BY <1>2 DEF PingSucceeds, PingFails, RenewStore, RenewKey, Recheck,
                RenewErrs, SchedGoto, outside, history
  <1>3. CASE RenewLoad
    BY <1>3 DEF RenewLoad, outside, history
  <1>4. CASE RenewClear \/ RenewSign \/ RenewReject
    BY <1>4 DEF RenewClear, RenewSign, RenewReject, SchedGoto, history
  <1>5. CASE ApplyFailure
    BY <1>5 DEF ApplyFailure, TurnOff, outside, history
  <1>6. QED
    BY <1>1, <1>2, <1>3, <1>4, <1>5 DEF SchedulerAction, SchedulerStep

LEMMA OtherTypes ==
    ASSUME Types,
           \/ \E c \in Clients : HandleOn(c)
           \/ OffOrExpire \/ BeginCredentialClear \/ EndCredentialClear
           \/ \E k \in Keys : AgentForgets(k)
           \/ UNCHANGED vars
    PROVE  Types'
  <1> USE DEF Types, TypeOK, KeysKnown, HoldModes
  <1>1. ASSUME NEW c \in Clients, HandleOn(c)
        PROVE  Types'
    <2>1. client' \in [Clients -> ClientRecords]
      BY <1>1 DEF HandleOn, Reply, ClientRecords
    <2>2. \A d \in Clients : /\ client'[d].key = client[d].key
                             /\ client'[d].pc = client[d].pc
      BY <1>1 DEF HandleOn, Reply
    <2>3. hold' \in [ on : BOOLEAN, generation : Nat, key : Keys \cup {None},
                      mode : HoldModes ]
      <3>1. client[c].key \in Keys
        BY <1>1 DEF HandleOn
      <3>2. CASE hold' = hold
        BY <3>2
      <3>3. CASE hold' # hold
        <4>1. hold' = [ on |-> TRUE, generation |-> hold.generation + 1,
                        key |-> client[c].key,
                        mode |-> IF client[c].kind = "stored"
                                   THEN "session" ELSE "none" ]
          BY <1>1, <3>3 DEF HandleOn
        <4>2. hold.generation + 1 \in Nat
          OBVIOUS
        <4>3. QED
          BY <3>1, <4>1, <4>2
      <3>4. QED
        BY <3>2, <3>3
    <2>4. hold'.on => hold'.key \in Keys
      BY <1>1 DEF HandleOn
    <2>5. UNCHANGED <<locking, lock, sched, clearing, outside, history>>
          /\ inbox' = inbox \ {c}
      BY <1>1 DEF HandleOn
    <2>6. QED
      BY <2>1, <2>2, <2>3, <2>4, <2>5 DEF ClientRecords, outside, history
  <1>2. CASE OffOrExpire
    BY <1>2 DEF OffOrExpire, TurnOff, outside, history
  <1>3. CASE BeginCredentialClear
    BY <1>3 DEF BeginCredentialClear, daemon, outside, history
  <1>4. CASE EndCredentialClear
    <2>1. cred' \in [Keys -> Secrets \cup {None}]
      BY <1>4 DEF EndCredentialClear
    <2>2. /\ UNCHANGED <<hold, locking, lock, sched, client, inbox, cache,
                          sealed>>
          /\ clearing' \in BOOLEAN /\ forgotten' \in BOOLEAN
      BY <1>4 DEF EndCredentialClear, daemon
    <2>3. QED
      BY <2>1, <2>2
  <1>5. CASE \E k \in Keys : AgentForgets(k)
    BY <1>5 DEF AgentForgets, daemon, history
  <1>6. CASE UNCHANGED vars
    BY <1>6 DEF vars, daemon, outside, history
  <1>7. QED
    BY <1>1, <1>2, <1>3, <1>4, <1>5, <1>6

(* The cases of Next, with each process's actions together.                *)
LEMMA NextCases ==
    ASSUME [Next]_vars
    PROVE  \/ \E c \in Clients : ClientAction(c)
           \/ LockAction
           \/ SchedulerAction
           \/ \E c \in Clients : HandleOn(c)
           \/ OffOrExpire \/ BeginCredentialClear \/ EndCredentialClear
           \/ \E k \in Keys : AgentForgets(k)
           \/ UNCHANGED vars
  BY DEF Next, ClientAction, LockAction, SchedulerAction, Terminated

LEMMA TypesNext ==
    ASSUME Types, [Next]_vars
    PROVE  Types'
  BY NextCases, ClientTypes, LockTypes, SchedulerTypes, OtherTypes

LEMMA TypesInit == Init => Types
  <1> SUFFICES ASSUME Init
               PROVE  Types
    OBVIOUS
  <1>1. client \in [Clients -> ClientRecords]
    BY DEF Init, ClientRecords, ClientPCs
  <1>2. \A c \in Clients : client[c].pc = "idle"
    BY DEF Init
  <1>3. /\ hold \in [ on : BOOLEAN, generation : Nat,
                      key : Keys \cup {None}, mode : HoldModes ]
        /\ lock \in [ pc : LockPCs, key : Keys \cup {None},
                      clear : BOOLEAN ]
        /\ sched \in [ pc : SchedPCs, generation : Nat,
                       key : Keys \cup {None}, mode : HoldModes,
                       secret : Secrets \cup {None} ]
    BY DEF Init, NoLock, NoWork, LockPCs, SchedPCs, HoldModes
  <1>4. /\ locking \in BOOLEAN /\ inbox \subseteq Clients
        /\ clearing \in BOOLEAN /\ cache \in [Keys -> {"hot", "cold"}]
        /\ cred \in [Keys -> Secrets \cup {None}]
        /\ sealed \in [key : Keys, clear : BOOLEAN] \cup {None}
        /\ forgotten \in BOOLEAN
    BY DEF Init
  <1>5. KeysKnown
    BY <1>2 DEF Init, KeysKnown, NoLock, NoWork
  <1>6. QED
    BY <1>1, <1>3, <1>4, <1>5 DEF Types, TypeOK, ClientRecords

(* Every variable stays in its type, and who works on a key knows it.      *)
THEOREM ProtocolTypeCorrect == Spec => []TypeOK
  <1>1. Types => TypeOK
    BY DEF Types
  <1>2. QED
    BY <1>1, TypesInit, TypesNext, PTL DEF Spec

-----------------------------------------------------------------------------
(***************************************************************************)
(* The exclusion of transactions.                                          *)
(***************************************************************************)

(* An activation that signs in the foreground has no transaction.          *)
KindsKnown ==
    \A c \in Clients : client[c].pc = "use" => client[c].kind # "stored"

(* One transaction per key, and none under the store's barrier.            *)
Exclusive ==
    /\ \A c, d \in Clients :
         /\ ClientInTransaction(c) /\ ClientInTransaction(d)
         /\ client[c].key = client[d].key
         => c = d
    /\ \A c \in Clients :
         /\ ClientInTransaction(c) /\ LockInTransaction
         => lock.key # client[c].key
    /\ \A c \in Clients :
         /\ ClientInTransaction(c) /\ RenewalInTransaction
         => sched.key # client[c].key
    /\ LockInTransaction /\ RenewalInTransaction => lock.key # sched.key
    /\ clearing => ~StoreShared

Sharing(c) == client[c].pc = "key" \/ ClientInTransaction(c)

(* A client comes into a transaction only from its wait for the key, and   *)
(* to that only without a barrier.                                         *)
LEMMA ClientEffect ==
    ASSUME Types, KindsKnown, NEW c \in Clients, ClientAction(c)
    PROVE  /\ UNCHANGED <<daemon, clearing, forgotten>>
           /\ \A d \in Clients \ {c} : client'[d] = client[d]
           /\ client'[c].pc = "use" => client'[c].kind # "stored"
           /\ ClientInTransaction(c)' =>
                /\ client'[c].key = client[c].key
                /\ ClientInTransaction(c) \/ KeyLockFree(client[c].key)
           /\ Sharing(c)' => Sharing(c) \/ ~clearing
  <1> USE DEF Sharing, ClientInTransaction, KindsKnown
  <1>0. TypeOK /\ client \in [Clients -> ClientRecords]
    BY DEF Types, TypeOK, ClientRecords
  <1>1. CASE \E k \in Keys, kind \in {"ordinary", "stored"} :
               StartActivation(c, kind, k)
    <2>1. PICK k \in Keys, kind \in {"ordinary", "stored"} :
            StartActivation(c, kind, k)
      BY <1>1
    <2>2. /\ client'[c].pc = "admit"
          /\ \A d \in Clients \ {c} : client'[d] = client[d]
      BY <1>0, <2>1, StartFacts
    <2>3. UNCHANGED <<daemon, clearing, forgotten>>
      BY <2>1 DEF StartActivation, history
    <2>4. QED
      BY <2>2, <2>3
  <1>2. CASE End(c) /\ UNCHANGED <<daemon, clearing, forgotten>>
    BY <1>0, <1>2, EndFacts
  <1>3. CASE Admit(c) /\ ~End(c)
    BY <1>0, <1>3, GotoFacts DEF Admit, daemon, outside, ClientPCs
  <1>4. CASE UseForeground(c) /\ ~End(c)
    BY <1>0, <1>4, GotoFacts DEF UseForeground, daemon, history, ClientPCs
  <1>5. CASE AcquireStore(c)
    BY <1>0, <1>5, GotoFacts DEF AcquireStore, daemon, history, ClientPCs
  <1>6. CASE AcquireKey(c)
    BY <1>0, <1>6, GotoFacts DEF AcquireKey, daemon, history, ClientPCs
  <1>7. CASE Load(c) /\ ~End(c)
    BY <1>0, <1>7 DEF Load, daemon, history, ClientRecords
  <1>8. CASE TypePassphrase(c) /\ ~End(c)
    BY <1>0, <1>8 DEF TypePassphrase, daemon, history, ClientRecords
  <1>9. CASE ClearEntry(c) /\ ~End(c)
    BY <1>0, <1>9, GotoFacts DEF ClearEntry, daemon, history, ClientPCs
  <1>10. CASE SignSucceeds(c)
    <2>1. PICK pc \in {"send", "save", "drop"} : Goto(c, pc)
      <3>1. client[c].round \in {"stored", "fresh", "replacement"}
        BY <1>0 DEF ClientRecords
      <3>2. QED
        BY <1>10, <3>1 DEF SignSucceeds
    <2>2. UNCHANGED <<daemon, clearing, forgotten>> /\ client[c].pc = "sign"
      BY <1>10 DEF SignSucceeds, daemon, history
    <2>3. QED
      BY <1>0, <2>1, <2>2, GotoFacts DEF ClientPCs
  <1>11. CASE SignFails(c) /\ ~End(c)
    BY <1>0, <1>11 DEF SignFails, daemon, history, ClientRecords
  <1>12. CASE DropRejected(c) /\ ~End(c)
    BY <1>0, <1>12, GotoFacts DEF DropRejected, daemon, history, ClientPCs
  <1>13. CASE Save(c) /\ ~End(c)
    BY <1>0, <1>13, GotoFacts DEF Save, daemon, history, ClientPCs
  <1>14. CASE (Send(c) \/ Receive(c)) /\ ~End(c)
    BY <1>0, <1>14, GotoFacts
    DEF Send, Receive, Undo, Mutated, daemon, history, ClientPCs
  <1>15. ClientAction(c) /\ End(c) => UNCHANGED <<daemon, clearing, forgotten>>
    BY DEF ClientAction, ClientStep, StartActivation, Admit, UseForeground,
           AcquireStore, AcquireKey, Load, TypePassphrase, ClearEntry,
           SignSucceeds, SignFails, DropRejected, Save, Send, Receive,
           Rollback, GiveUp, Die, daemon, history
  <1>16. Rollback(c) \/ GiveUp(c) \/ Die(c) => End(c)
    BY DEF Rollback, GiveUp, Die
  <1> HIDE DEF Sharing, ClientInTransaction, KindsKnown
  <1>17. CASE End(c)
    BY <1>2, <1>15, <1>17
  <1>18. CASE ~End(c)
    BY <1>1, <1>3, <1>4, <1>5, <1>6, <1>7, <1>8, <1>9, <1>10, <1>11, <1>12,
       <1>13, <1>14, <1>16, <1>18
    DEF ClientAction, ClientStep
  <1>19. QED
    BY <1>17, <1>18

Protocol == Types /\ KindsKnown /\ Exclusive

LEMMA ClientExclusion ==
    ASSUME Protocol, NEW c \in Clients, ClientAction(c)
    PROVE  KindsKnown' /\ Exclusive'
  <1>1. Types /\ KindsKnown /\ Exclusive
    BY DEF Protocol
  <1>2. /\ UNCHANGED <<lock, sched, clearing>>
        /\ \A d \in Clients \ {c} : client'[d] = client[d]
        /\ client'[c].pc = "use" => client'[c].kind # "stored"
        /\ ClientInTransaction(c)' =>
             /\ client'[c].key = client[c].key
             /\ ClientInTransaction(c) \/ KeyLockFree(client[c].key)
        /\ Sharing(c)' => Sharing(c) \/ ~clearing
    BY <1>1, ClientEffect DEF daemon
  <1>3. \A d \in Clients \ {c} :
          /\ ClientInTransaction(d)' <=> ClientInTransaction(d)
          /\ client'[d].key = client[d].key
          /\ client'[d].pc = client[d].pc
          /\ client'[d].kind = client[d].kind
    BY <1>2 DEF ClientInTransaction
  <1>4. (LockInTransaction' <=> LockInTransaction)
        /\ (RenewalInTransaction' <=> RenewalInTransaction)
    BY <1>2 DEF LockInTransaction, RenewalInTransaction
  <1>5. KindsKnown'
    BY <1>1, <1>2, <1>3 DEF KindsKnown
  <1>6. clearing => ~StoreShared'
    BY <1>1, <1>2, <1>3, <1>4 DEF Exclusive, StoreShared, Sharing
  <1>7. QED
    BY <1>1, <1>2, <1>3, <1>4, <1>5, <1>6 DEF Exclusive, KeyLockFree

LEMMA LockExclusion ==
    ASSUME Protocol, LockAction
    PROVE  KindsKnown' /\ Exclusive'
  <1> DEFINE sharing == lock.pc = "key" \/ LockInTransaction
  <1>1. /\ UNCHANGED <<client, sched, clearing>>
        /\ LockInTransaction' =>
             /\ lock'.key = lock.key
             /\ LockInTransaction \/ KeyLockFree(lock.key)
        /\ sharing' => sharing \/ ~clearing
    <2> USE DEF LockInTransaction
    <2>0. lock \in [pc : LockPCs, key : Keys \cup {None}, clear : BOOLEAN]
      BY DEF Protocol, Types, TypeOK
    <2>1. CASE \E clear \in BOOLEAN : BeginLock(clear)
      BY <2>1 DEF BeginLock
    <2>2. CASE DrainActivations \/ LockStore \/ LockKey \/ LockErrs
      BY <2>0, <2>2
      DEF DrainActivations, LockStore, LockKey, LockErrs, LockGoto
    <2>3. CASE DeleteCredential \/ ClearManagedCache
      BY <2>0, <2>3 DEF DeleteCredential, ClearManagedCache, LockGoto
    <2>4. CASE EndLock
      BY <2>4 DEF EndLock, NoLock
    <2>5. QED
      BY <2>1, <2>2, <2>3, <2>4 DEF LockAction, LockStep
  <1>2. \A c \in Clients : ClientInTransaction(c)' <=> ClientInTransaction(c)
    BY <1>1 DEF ClientInTransaction
  <1>3. RenewalInTransaction' <=> RenewalInTransaction
    BY <1>1 DEF RenewalInTransaction
  <1>4. clearing => ~StoreShared'
    BY <1>1, <1>2, <1>3 DEF Protocol, Exclusive, StoreShared
  <1>5. QED
    BY <1>1, <1>2, <1>3, <1>4 DEF Protocol, KindsKnown, Exclusive, KeyLockFree

LEMMA SchedulerExclusion ==
    ASSUME Protocol, SchedulerAction
    PROVE  KindsKnown' /\ Exclusive'
  <1> DEFINE sharing == sched.pc = "key" \/ RenewalInTransaction
  <1>1. /\ UNCHANGED <<client, lock, clearing>>
        /\ RenewalInTransaction' =>
             /\ sched'.key = sched.key
             /\ RenewalInTransaction \/ KeyLockFree(sched.key)
        /\ sharing' => sharing \/ ~clearing
    <2> USE DEF RenewalInTransaction
    <2>0. sched \in [ pc : SchedPCs, generation : Nat,
                      key : Keys \cup {None}, mode : HoldModes,
                      secret : Secrets \cup {None} ]
      BY DEF Protocol, Types, TypeOK
    <2>1. CASE Dispatch
      BY <2>1 DEF Dispatch
    <2>2. CASE PingSucceeds \/ PingFails \/ RenewStore \/ RenewKey \/ Recheck
               \/ RenewErrs
      BY <2>0, <2>2 DEF PingSucceeds, PingFails, RenewStore, RenewKey,
                        Recheck, RenewErrs, SchedGoto, NoWork
    <2>3. CASE RenewLoad
      BY <2>0, <2>3 DEF RenewLoad
    <2>4. CASE RenewClear \/ RenewSign \/ RenewReject \/ ApplyFailure
      BY <2>0, <2>4 DEF RenewClear, RenewSign, RenewReject, ApplyFailure,
                        SchedGoto, NoWork
    <2>5. QED
      BY <2>1, <2>2, <2>3, <2>4 DEF SchedulerAction, SchedulerStep
  <1>2. \A c \in Clients : ClientInTransaction(c)' <=> ClientInTransaction(c)
    BY <1>1 DEF ClientInTransaction
  <1>3. LockInTransaction' <=> LockInTransaction
    BY <1>1 DEF LockInTransaction
  <1>4. clearing => ~StoreShared'
    BY <1>1, <1>2, <1>3 DEF Protocol, Exclusive, StoreShared
  <1>5. QED
    BY <1>1, <1>2, <1>3, <1>4 DEF Protocol, KindsKnown, Exclusive, KeyLockFree

(* The reply is all the handler of an On request changes of its client.    *)
LEMMA ReplyFacts ==
    ASSUME TypeOK, NEW c \in Clients, HandleOn(c)
    PROVE  \A d \in Clients :
             /\ client'[d].pc = client[d].pc
             /\ client'[d].kind = client[d].kind
             /\ client'[d].key = client[d].key
             /\ client'[d].secret = client[d].secret
             /\ client'[d].round = client[d].round
             /\ d # c => client'[d].reply = client[d].reply
             /\ client[d].pc # "await" /\ d = c => client'[d].reply = None
  BY DEF HandleOn, Reply, TypeOK

LEMMA OtherExclusion ==
    ASSUME Protocol,
           \/ \E c \in Clients : HandleOn(c)
           \/ OffOrExpire \/ BeginCredentialClear \/ EndCredentialClear
           \/ \E k \in Keys : AgentForgets(k)
           \/ UNCHANGED vars
    PROVE  KindsKnown' /\ Exclusive'
  <1>1. /\ UNCHANGED <<lock, sched>>
        /\ clearing' => clearing \/ ~StoreShared
    BY DEF HandleOn, OffOrExpire, BeginCredentialClear, EndCredentialClear,
           AgentForgets, vars, daemon
  <1>2. \A c \in Clients :
          /\ client'[c].pc = client[c].pc
          /\ client'[c].kind = client[c].kind
          /\ client'[c].key = client[c].key
    <2>1. CASE \E c \in Clients : HandleOn(c)
      BY <2>1, ReplyFacts DEF Protocol, Types
    <2>2. CASE client' = client
      BY <2>2
    <2>3. QED
      BY <2>1, <2>2 DEF OffOrExpire, BeginCredentialClear,
                        EndCredentialClear, AgentForgets, vars
  <1>3. \A c \in Clients : ClientInTransaction(c)' <=> ClientInTransaction(c)
    BY <1>2 DEF ClientInTransaction
  <1>4. (LockInTransaction' <=> LockInTransaction)
        /\ (RenewalInTransaction' <=> RenewalInTransaction)
    BY <1>1 DEF LockInTransaction, RenewalInTransaction
  <1>5. StoreShared' <=> StoreShared
    BY <1>1, <1>2, <1>3, <1>4 DEF StoreShared
  <1>6. QED
    BY <1>1, <1>2, <1>3, <1>4, <1>5 DEF Protocol, KindsKnown, Exclusive

LEMMA ProtocolInit == Init => Protocol
  <1> SUFFICES ASSUME Init
               PROVE  Protocol
    OBVIOUS
  <1>1. \A c \in Clients : client[c].pc = "idle"
    BY DEF Init
  <1>2. /\ \A c \in Clients : ~ClientInTransaction(c)
        /\ ~LockInTransaction /\ ~RenewalInTransaction /\ ~clearing
    BY <1>1 DEF Init, ClientInTransaction, LockInTransaction,
                RenewalInTransaction, NoLock, NoWork
  <1>3. QED
    BY <1>1, <1>2, TypesInit DEF Protocol, KindsKnown, Exclusive

LEMMA ProtocolNext ==
    ASSUME Protocol, [Next]_vars
    PROVE  Protocol'
  <1>1. Types'
    BY TypesNext DEF Protocol
  <1>2. KindsKnown' /\ Exclusive'
    BY NextCases, ClientExclusion, LockExclusion, SchedulerExclusion,
       OtherExclusion
  <1>3. QED
    BY <1>1, <1>2 DEF Protocol

-----------------------------------------------------------------------------
(***************************************************************************)
(* The stored credentials.                                                 *)
(***************************************************************************)

(* An On request is answered once, its client rolls back only what it has  *)
(* stored, and only without a success for an answer.                       *)
Answered ==
    \A c \in Clients :
      /\ client[c].pc \notin {"await", "rollback"} => client[c].reply = None
      /\ c \in inbox => \/ client[c].pc = "done"
                        \/ client[c].pc = "await" /\ client[c].reply = None
      /\ client[c].pc = "rollback" => client[c].reply # "ok" /\ Mutated(c)

(* What a client in a transaction knows of its key's credential.           *)
KnownTo(c) ==
    /\ (client[c].pc \in {"clear", "sign"} /\ client[c].round = "stored") =>
         cred[client[c].key] = client[c].secret
    /\ ( /\ client[c].pc \in {"prompt", "clear", "sign", "drop", "save"}
         /\ client[c].round # "stored" ) => cred[client[c].key] # "good"
    /\ client[c].pc \in {"prompt", "drop", "save"} =>
         client[c].round # "stored"
    /\ (client[c].pc \in {"send", "await", "rollback"} /\ Mutated(c)) =>
         cred[client[c].key] = client[c].secret

KnownToRenewal ==
    /\ sched.pc \in {"clear", "sign"} => cred[sched.key] = sched.secret
    /\ sched.pc = "reject" => cred[sched.key] # "good"

Known == KnownToRenewal /\ \A c \in Clients : KnownTo(c)

(* A client's step changes no credential but that of its own transaction.  *)
LEMMA ClientCredentials ==
    ASSUME Protocol, Answered, NEW c \in Clients, ClientAction(c)
    PROVE  \/ cred' = cred
           \/ /\ ClientInTransaction(c)
              /\ \A k \in Keys \ {client[c].key} : cred'[k] = cred[k]
  <1>1. CASE DropRejected(c) \/ Save(c) \/ Rollback(c)
    <2>1. ClientInTransaction(c)
      BY <1>1 DEF DropRejected, Save, Rollback, ClientInTransaction, Answered,
                  Mutated
    <2>2. \A k \in Keys \ {client[c].key} : cred'[k] = cred[k]
      BY <1>1 DEF DropRejected, Save, Rollback, Protocol, Types, TypeOK
    <2>3. QED
      BY <2>1, <2>2
  <1>2. CASE ~(DropRejected(c) \/ Save(c) \/ Rollback(c))
    BY <1>2 DEF ClientAction, ClientStep, StartActivation, Admit,
                UseForeground, AcquireStore, AcquireKey, Load, TypePassphrase,
                ClearEntry, SignSucceeds, SignFails, Send, Receive, GiveUp,
                Die, outside
  <1>3. QED
    BY <1>1, <1>2

(* Who is in a transaction keeps what it knows, as nobody else touches the *)
(* credential of its key.                                                  *)
LEMMA KnownKept ==
    ASSUME NEW c \in Clients, KnownTo(c),
           client'[c].pc = client[c].pc, client'[c].kind = client[c].kind,
           client'[c].key = client[c].key, client'[c].round = client[c].round,
           client'[c].secret = client[c].secret,
           ClientInTransaction(c) => cred'[client[c].key] = cred[client[c].key]
    PROVE  KnownTo(c)'
  BY DEF KnownTo, ClientInTransaction, Mutated

LEMMA RenewalKept ==
    ASSUME KnownToRenewal, sched' = sched,
           RenewalInTransaction => cred'[sched.key] = cred[sched.key]
    PROVE  KnownToRenewal'
  BY DEF KnownToRenewal, RenewalInTransaction

(* An activation that ends, or has not begun, knows nothing.               *)
LEMMA NothingKnown ==
    ASSUME NEW c \in Clients,
           client'[c].pc \in {"admit", "use", "global", "key", "load", "done"}
    PROVE  KnownTo(c)'
  BY DEF KnownTo

(* The client's own step: what it loads is what is stored, and a stored    *)
(* secret that is rejected, or one that is replaced, is not a good one.    *)
LEMMA OwnKnowledge ==
    ASSUME Protocol, Answered, NEW c \in Clients, KnownTo(c), ClientAction(c)
    PROVE  KnownTo(c)'
  <1>0. /\ TypeOK /\ KindsKnown /\ client \in [Clients -> ClientRecords]
        /\ client[c] \in ClientRecords
        /\ client[c].pc # "idle" => client[c].key \in Keys
        /\ cred \in [Keys -> Secrets \cup {None}]
    BY DEF Protocol, Types, TypeOK, ClientRecords, KeysKnown
  <1>1. CASE \E k \in Keys, kind \in {"ordinary", "stored"} :
               StartActivation(c, kind, k)
    BY <1>0, <1>1, StartFacts, NothingKnown
  <1>2. CASE End(c)
    BY <1>0, <1>2, EndFacts, NothingKnown
  <1>3. CASE (Admit(c) \/ AcquireStore(c) \/ AcquireKey(c)) /\ ~End(c)
    BY <1>0, <1>3, GotoFacts, NothingKnown
    DEF Admit, AcquireStore, AcquireKey, ClientPCs
  <1>4. CASE UseForeground(c) /\ ~End(c)
    BY <1>0, <1>4, GotoFacts
    DEF UseForeground, ClientPCs, KnownTo, Mutated, KindsKnown
  <1>5. CASE Load(c) /\ ~End(c)
    <2>1. cred' = cred /\ client'[c].key = client[c].key
      BY <1>0, <1>5 DEF Load, outside, ClientRecords
    <2>2. CASE client'[c].pc = "clear"
      <3>1. client'[c].secret = cred[client[c].key]
            /\ client'[c].round = "stored"
        BY <1>0, <1>5, <2>2 DEF Load, ClientRecords
      <3>2. QED
        BY <2>1, <2>2, <3>1 DEF KnownTo
    <2>3. CASE client'[c].pc # "clear"
      <3>1. client'[c].pc = "prompt" /\ cred[client[c].key] = None
            /\ client'[c].round = "fresh"
        BY <1>0, <1>5, <2>3 DEF Load, ClientRecords
      <3>2. QED
        BY <2>1, <3>1, LockProtocolAssumption DEF KnownTo
    <2>4. QED
      BY <2>2, <2>3
  <1>6. CASE TypePassphrase(c) /\ ~End(c)
    BY <1>0, <1>6 DEF TypePassphrase, KnownTo, outside, ClientRecords
  <1>7. CASE ClearEntry(c) /\ ~End(c)
    BY <1>0, <1>7, GotoFacts DEF ClearEntry, KnownTo, ClientPCs
  <1>8. CASE SignSucceeds(c)
    <2>1. client[c].round \in {"stored", "fresh", "replacement"}
      BY <1>0 DEF ClientRecords
    <2>2. /\ client[c].pc = "sign" /\ cred' = cred
          /\ Goto(c, IF client[c].round = "stored" THEN "send"
                     ELSE IF client[c].round = "fresh" THEN "save"
                     ELSE "drop")
      BY <1>8, <2>1 DEF SignSucceeds
    <2>3. QED
      BY <1>0, <2>1, <2>2, GotoFacts DEF KnownTo, Mutated, ClientPCs
  <1>9. CASE SignFails(c) /\ ~End(c)
    <2>1. /\ client[c].pc = "sign" /\ client[c].round = "stored"
          /\ client[c].secret # "good"
          /\ client' = [client EXCEPT ![c].pc = "prompt",
                                      ![c].round = "replacement"]
          /\ cred' = cred
      BY <1>9 DEF SignFails, SignAccepts, outside
    <2>2. /\ client'[c].pc = "prompt" /\ client'[c].round = "replacement"
          /\ client'[c].key = client[c].key
      BY <1>0, <2>1 DEF ClientRecords
    <2>3. QED
      BY <2>1, <2>2 DEF KnownTo
  <1>10. CASE DropRejected(c) /\ ~End(c)
    <2>1. /\ cred'[client[c].key] = None /\ client[c].pc = "drop"
          /\ Goto(c, "save")
      BY <1>0, <1>10 DEF DropRejected
    <2>2. QED
      BY <1>0, <2>1, GotoFacts, LockProtocolAssumption DEF KnownTo, ClientPCs
  <1>11. CASE Save(c) /\ ~End(c)
    <2>1. cred'[client[c].key] = client[c].secret /\ Goto(c, "send")
      BY <1>0, <1>11 DEF Save
    <2>2. QED
      BY <1>0, <2>1, GotoFacts DEF KnownTo, ClientPCs
  <1>12. CASE (Send(c) \/ Receive(c)) /\ ~End(c)
    <2>1. PICK pc \in {"await", "rollback"} : Goto(c, pc)
      BY <1>12 DEF Send, Receive, Undo
    <2>2. cred' = cred /\ client[c].pc \in {"send", "await"}
      BY <1>12 DEF Send, Receive, outside
    <2>3. QED
      BY <1>0, <2>1, <2>2, GotoFacts DEF KnownTo, Mutated, ClientPCs
  <1>13. Rollback(c) \/ GiveUp(c) \/ Die(c) => End(c)
    BY DEF Rollback, GiveUp, Die
  <1>14. QED
    BY <1>1, <1>2, <1>3, <1>4, <1>5, <1>6, <1>7, <1>8, <1>9, <1>10, <1>11,
       <1>12, <1>13
    DEF ClientAction, ClientStep

(* The On request of a client is in the inbox only while it waits.         *)
LEMMA ClientAnswered ==
    ASSUME Protocol, Answered, NEW c \in Clients, ClientAction(c)
    PROVE  Answered'
  <1> DEFINE Fine(d) ==
        /\ client[d].pc \notin {"await", "rollback"} => client[d].reply = None
        /\ d \in inbox => \/ client[d].pc = "done"
                          \/ client[d].pc = "await" /\ client[d].reply = None
        /\ client[d].pc = "rollback" => client[d].reply # "ok" /\ Mutated(d)
  <1>0. /\ TypeOK /\ client \in [Clients -> ClientRecords] /\ Fine(c)
        /\ client[c] \in ClientRecords
        /\ \A d \in Clients \ {c} : client'[d] = client[d] /\ Fine(d)
    BY ClientEffect DEF Protocol, Types, TypeOK, ClientRecords, Answered
  <1>1. inbox' \subseteq inbox \cup {c}
    BY DEF ClientAction, ClientStep, StartActivation, Admit, UseForeground,
           AcquireStore, AcquireKey, Load, TypePassphrase, ClearEntry,
           SignSucceeds, SignFails, DropRejected, Save, Send, Receive,
           Rollback, GiveUp, Die
  <1>2. \A d \in Clients \ {c} : Fine(d)'
    BY <1>0, <1>1 DEF Mutated
  <1>3. CASE \E k \in Keys, kind \in {"ordinary", "stored"} :
               StartActivation(c, kind, k)
    <2>1. PICK k \in Keys, kind \in {"ordinary", "stored"} :
            StartActivation(c, kind, k)
      BY <1>3
    <2>2. /\ client'[c].pc = "admit"
          /\ client'[c].reply = client[c].reply
      BY <1>0, <2>1, StartFacts
    <2>3. client[c].pc = "idle" /\ inbox' = inbox
      BY <2>1 DEF StartActivation
    <2>4. QED
      BY <1>0, <1>2, <2>2, <2>3 DEF Answered
  <1>4. CASE End(c)
    BY <1>0, <1>2, <1>4, EndFacts DEF Answered
  <1>5. CASE (Send(c) \/ Receive(c)) /\ ~End(c)
    <2>1. CASE Send(c) /\ Goto(c, "await")
      BY <1>0, <1>2, <2>1, GotoFacts DEF Send, Answered, ClientPCs
    <2>2. CASE Undo(c) /\ Goto(c, "rollback")
      <3>1. Mutated(c) /\ inbox' = inbox /\ c \notin inbox
            /\ client[c].reply # "ok"
        BY <1>0, <1>5, <2>2, LockProtocolAssumption
        DEF Undo, Send, Receive, Goto, ClientRecords
      <3>2. Mutated(c)'
        BY <1>0, <2>2, <3>1, GotoFacts DEF Mutated, ClientPCs
      <3>3. QED
        BY <1>0, <1>2, <2>2, <3>1, <3>2, GotoFacts DEF Answered, ClientPCs
    <2>3. QED
      BY <1>5, <2>1, <2>2 DEF Send, Receive, Undo
  <1>6. CASE ~End(c) /\ ClientStep(c) /\ ~Send(c) /\ ~Receive(c)
    <2>1. /\ client[c].pc \notin {"idle", "await", "rollback", "done"}
          /\ client'[c].pc \notin {"await", "rollback"}
          /\ client'[c].reply = client[c].reply
          /\ inbox' = inbox
      BY <1>0, <1>6
      DEF ClientStep, Admit, UseForeground, AcquireStore, AcquireKey, Load,
          TypePassphrase, ClearEntry, SignSucceeds, SignFails, DropRejected,
          Save, Rollback, Goto, ClientRecords
    <2>2. QED
      BY <1>0, <1>2, <2>1 DEF Answered
  <1>7. GiveUp(c) \/ Die(c) => End(c)
    BY DEF GiveUp, Die
  <1>8. QED
    BY <1>3, <1>4, <1>5, <1>6, <1>7 DEF ClientAction, ClientStep

Credentials == Protocol /\ Answered /\ Known

LEMMA ClientKnown ==
    ASSUME Credentials, NEW c \in Clients, ClientAction(c)
    PROVE  Answered' /\ Known'
  <1>1. Protocol /\ Answered /\ Known /\ Exclusive /\ Types
    BY DEF Credentials, Protocol
  <1>2. /\ UNCHANGED sched
        /\ \A d \in Clients \ {c} : client'[d] = client[d]
    BY <1>1, ClientEffect DEF Protocol, daemon
  <1>3. \/ cred' = cred
        \/ /\ ClientInTransaction(c)
           /\ \A k \in Keys \ {client[c].key} : cred'[k] = cred[k]
    BY <1>1, ClientCredentials
  <1>4. ASSUME NEW d \in Clients \ {c}
        PROVE  KnownTo(d)'
    <2>1. ClientInTransaction(d) => client[d].key \in Keys
      BY <1>1 DEF Types, KeysKnown, ClientInTransaction
    <2>2. ClientInTransaction(d) =>
            cred'[client[d].key] = cred[client[d].key]
      BY <1>1, <1>3, <2>1 DEF Exclusive
    <2>3. QED
      BY <1>1, <1>2, <2>2, KnownKept DEF Known
  <1>5. KnownToRenewal'
    <2>1. RenewalInTransaction => sched.key \in Keys
      BY <1>1 DEF Types, KeysKnown, RenewalInTransaction
    <2>2. RenewalInTransaction => cred'[sched.key] = cred[sched.key]
      BY <1>1, <1>3, <2>1 DEF Exclusive
    <2>3. QED
      BY <1>1, <1>2, <2>2, RenewalKept DEF Known
  <1>6. KnownTo(c)'
    BY <1>1, OwnKnowledge DEF Known
  <1>7. QED
    BY <1>1, <1>4, <1>5, <1>6, ClientAnswered DEF Known

LEMMA LockKnown ==
    ASSUME Credentials, LockAction
    PROVE  Answered' /\ Known'
  <1>1. Protocol /\ Answered /\ Known /\ Exclusive /\ Types /\ TypeOK
    BY DEF Credentials, Protocol, Types
  <1>2. UNCHANGED <<client, inbox, sched>>
    BY DEF LockAction, LockStep, BeginLock, DrainActivations, LockStore,
           LockKey, DeleteCredential, ClearManagedCache, EndLock, LockErrs
  <1>3. \/ cred' = cred
        \/ /\ LockInTransaction
           /\ \A k \in Keys \ {lock.key} : cred'[k] = cred[k]
    BY <1>1 DEF LockAction, LockStep, BeginLock, DrainActivations, LockStore,
                LockKey, DeleteCredential, ClearManagedCache, EndLock,
                LockErrs, LockInTransaction, TypeOK, outside
  <1>4. ASSUME NEW d \in Clients
        PROVE  KnownTo(d)'
    <2>1. ClientInTransaction(d) => client[d].key \in Keys
      BY <1>1 DEF Types, KeysKnown, ClientInTransaction
    <2>2. ClientInTransaction(d) =>
            cred'[client[d].key] = cred[client[d].key]
      BY <1>1, <1>3, <2>1 DEF Exclusive
    <2>3. QED
      BY <1>1, <1>2, <2>2, KnownKept DEF Known
  <1>5. KnownToRenewal'
    <2>1. RenewalInTransaction => sched.key \in Keys
      BY <1>1 DEF Types, KeysKnown, RenewalInTransaction
    <2>2. RenewalInTransaction => cred'[sched.key] = cred[sched.key]
      BY <1>1, <1>3, <2>1 DEF Exclusive
    <2>3. QED
      BY <1>1, <1>2, <2>2, RenewalKept DEF Known
  <1>6. Answered'
    BY <1>1, <1>2 DEF Answered, Mutated
  <1>7. QED
    BY <1>4, <1>5, <1>6 DEF Known

LEMMA SchedulerKnown ==
    ASSUME Credentials, SchedulerAction
    PROVE  Answered' /\ Known'
  <1>1. Protocol /\ Answered /\ Known /\ Exclusive /\ Types /\ TypeOK
    BY DEF Credentials, Protocol, Types
  <1>2. UNCHANGED <<client, inbox>>
    BY DEF SchedulerAction, SchedulerStep, Dispatch, PingSucceeds, PingFails,
           RenewStore, RenewKey, Recheck, RenewLoad, RenewClear, RenewSign,
           RenewReject, RenewErrs, ApplyFailure
  <1>3. \/ cred' = cred
        \/ /\ RenewalInTransaction /\ sched'.pc = "failed"
           /\ \A k \in Keys \ {sched.key} : cred'[k] = cred[k]
    BY <1>1 DEF SchedulerAction, SchedulerStep, Dispatch, PingSucceeds,
                PingFails, RenewStore, RenewKey, Recheck, RenewLoad,
                RenewClear, RenewSign, RenewReject, RenewErrs, ApplyFailure,
                RenewalInTransaction, SchedGoto, TypeOK, outside
  <1>4. ASSUME NEW d \in Clients
        PROVE  KnownTo(d)'
    <2>1. ClientInTransaction(d) => client[d].key \in Keys
      BY <1>1 DEF Types, KeysKnown, ClientInTransaction
    <2>2. ClientInTransaction(d) =>
            cred'[client[d].key] = cred[client[d].key]
      BY <1>1, <1>3, <2>1 DEF Exclusive
    <2>3. QED
      BY <1>1, <1>2, <2>2, KnownKept DEF Known
  <1>5. KnownToRenewal'
    <2>1. sched \in [ pc : SchedPCs, generation : Nat,
                      key : Keys \cup {None}, mode : HoldModes,
                      secret : Secrets \cup {None} ]
      BY <1>1 DEF TypeOK
    <2>2. CASE RenewLoad \/ RenewClear \/ RenewSign \/ RenewReject
      <3>1. CASE RenewLoad
        <4>1. /\ sched'.pc \in {"failed", "clear"}
              /\ sched'.key = sched.key
              /\ sched'.secret = cred[sched.key]
              /\ cred' = cred
          BY <2>1, <3>1 DEF RenewLoad, outside
        <4>2. QED
          BY <4>1 DEF KnownToRenewal
      <3>2. CASE RenewClear
        <4>1. /\ sched.pc = "clear" /\ sched'.pc = "sign"
              /\ sched'.key = sched.key
              /\ sched'.secret = sched.secret
              /\ cred' = cred
          BY <2>1, <3>2 DEF RenewClear, SchedGoto
        <4>2. QED
          BY <1>1, <4>1 DEF Known, KnownToRenewal
      <3>3. CASE RenewSign
        <4>1. /\ sched.pc = "sign" /\ cred' = cred
              /\ \/ sched'.pc = "idle"
                 \/ /\ sched'.pc = "reject" /\ sched'.key = sched.key
                    /\ sched.secret # "good"
          BY <2>1, <3>3 DEF RenewSign, SchedGoto, NoWork, SignAccepts
        <4>2. QED
          BY <1>1, <4>1 DEF Known, KnownToRenewal
      <3>4. CASE RenewReject
        BY <2>1, <3>4 DEF RenewReject, SchedGoto, KnownToRenewal
      <3>5. QED
        BY <2>2, <3>1, <3>2, <3>3, <3>4
    <2>3. CASE ~(RenewLoad \/ RenewClear \/ RenewSign \/ RenewReject)
      BY <2>1, <2>3
      DEF SchedulerAction, SchedulerStep, Dispatch, PingSucceeds, PingFails,
          RenewStore, RenewKey, Recheck, RenewErrs, ApplyFailure, SchedGoto,
          NoWork, KnownToRenewal
    <2>4. QED
      BY <2>2, <2>3
  <1>6. Answered'
    BY <1>1, <1>2 DEF Answered, Mutated
  <1>7. QED
    BY <1>4, <1>5, <1>6 DEF Known

LEMMA OtherKnown ==
    ASSUME Credentials,
           \/ \E c \in Clients : HandleOn(c)
           \/ OffOrExpire \/ BeginCredentialClear \/ EndCredentialClear
           \/ \E k \in Keys : AgentForgets(k)
           \/ UNCHANGED vars
    PROVE  Answered' /\ Known'
  <1>1. Protocol /\ Answered /\ Known /\ Exclusive /\ Types /\ TypeOK
    BY DEF Credentials, Protocol, Types
  <1>2. ASSUME NEW c \in Clients, HandleOn(c)
        PROVE  Answered' /\ Known'
    <2>1. UNCHANGED <<sched, cred>> /\ inbox' = inbox \ {c}
      BY <1>2 DEF HandleOn, outside
    <2>2. \A d \in Clients :
             /\ client'[d].pc = client[d].pc
             /\ client'[d].kind = client[d].kind
             /\ client'[d].key = client[d].key
             /\ client'[d].secret = client[d].secret
             /\ client'[d].round = client[d].round
             /\ d # c => client'[d].reply = client[d].reply
             /\ client[d].pc # "await" /\ d = c => client'[d].reply = None
      BY <1>1, <1>2, ReplyFacts
    <2>3. Known'
      <3>1. KnownToRenewal'
        BY <1>1, <2>1 DEF Known, KnownToRenewal
      <3>2. \A d \in Clients : KnownTo(d)'
        BY <1>1, <2>1, <2>2 DEF Known, KnownTo, Mutated
      <3>3. QED
        BY <3>1, <3>2 DEF Known
    <2>4. client[c].pc \in {"done", "await"}
      BY <1>1, <1>2 DEF HandleOn, Answered
    <2>5. QED
      BY <1>1, <2>1, <2>2, <2>3, <2>4 DEF Answered, Mutated
  <1>3. CASE EndCredentialClear
    <2>1. UNCHANGED <<client, inbox, sched>> /\ ~StoreShared
      BY <1>1, <1>3 DEF EndCredentialClear, Exclusive, daemon
    <2>2. ~RenewalInTransaction
          /\ \A c \in Clients : ~ClientInTransaction(c)
      BY <2>1 DEF StoreShared
    <2>3. Known'
      BY <1>1, <2>1, <2>2, KnownKept, RenewalKept DEF Known
    <2>4. QED
      BY <1>1, <2>1, <2>3 DEF Answered, Mutated
  <1>4. CASE \/ OffOrExpire \/ BeginCredentialClear
             \/ \E k \in Keys : AgentForgets(k)
             \/ UNCHANGED vars
    <2>1. UNCHANGED <<client, inbox, sched, cred>>
      BY <1>4 DEF OffOrExpire, BeginCredentialClear, AgentForgets, vars,
                  daemon, outside
    <2>2. QED
      BY <1>1, <2>1 DEF Answered, Mutated, Known, KnownTo, KnownToRenewal
  <1>5. QED
    BY <1>2, <1>3, <1>4

LEMMA CredentialsInit == Init => Credentials
  <1> SUFFICES ASSUME Init
               PROVE  Credentials
    OBVIOUS
  <1>1. \A c \in Clients : client[c].pc = "idle" /\ client[c].reply = None
    BY DEF Init
  <1>2. Answered
    BY <1>1 DEF Answered, Init
  <1>3. Known
    BY <1>1 DEF Known, KnownTo, KnownToRenewal, Init, NoWork
  <1>4. QED
    BY <1>2, <1>3, ProtocolInit DEF Credentials

LEMMA CredentialsNext ==
    ASSUME Credentials, [Next]_vars
    PROVE  Credentials'
  <1>1. Protocol'
    BY ProtocolNext DEF Credentials
  <1>2. Answered' /\ Known'
    BY NextCases, ClientKnown, LockKnown, SchedulerKnown, OtherKnown
  <1>3. QED
    BY <1>1, <1>2 DEF Credentials

(* A good credential goes only by the user's order, or with the activation *)
(* that stored it once its request is known not to be applied.             *)
THEOREM GoodCredentialStays == Spec => GoodCredentialIsKept
  <1> DEFINE Taken ==
        \A k \in Keys :
          (cred[k] = "good" /\ cred'[k] # "good") =>
             \/ clearing
             \/ lock.pc = "delete" /\ lock.clear /\ lock.key = k
             \/ \E c \in Clients :
                  /\ client[c].pc = "rollback"
                  /\ client[c].key = k
                  /\ client[c].secret = "good"
                  /\ c \notin inbox
                  /\ client[c].reply # "ok"
  <1>1. ASSUME Credentials, [Next]_vars
        PROVE  Taken
    <2> SUFFICES ASSUME NEW k \in Keys, cred[k] = "good", cred'[k] # "good"
                 PROVE  \/ clearing
                        \/ lock.pc = "delete" /\ lock.clear /\ lock.key = k
                        \/ \E c \in Clients :
                             /\ client[c].pc = "rollback"
                             /\ client[c].key = k
                             /\ client[c].secret = "good"
                             /\ c \notin inbox
                             /\ client[c].reply # "ok"
      OBVIOUS
    <2>1. /\ Answered /\ Known
          /\ cred \in [Keys -> Secrets \cup {None}]
          /\ \A c \in Clients : client[c].pc # "idle" => client[c].key \in Keys
          /\ sched.pc # "idle" => sched.key \in Keys
          /\ lock.pc # "idle" => lock.key \in Keys
      BY <1>1 DEF Credentials, Protocol, Types, TypeOK, KeysKnown
    <2>2. ASSUME NEW c \in Clients, ClientAction(c)
          PROVE  /\ client[c].pc = "rollback"
                 /\ client[c].key = k
                 /\ client[c].secret = "good"
                 /\ c \notin inbox
                 /\ client[c].reply # "ok"
      <3>1. CASE DropRejected(c) \/ Save(c)
        <4>1. client[c].pc \in {"drop", "save"} /\ client[c].key = k
          BY <2>1, <3>1 DEF DropRejected, Save
        <4>2. QED
          BY <2>1, <4>1 DEF Known, KnownTo
      <3>2. CASE Rollback(c)
        <4>1. client[c].pc = "rollback" /\ client[c].key = k
          BY <2>1, <3>2 DEF Rollback
        <4>2. QED
          BY <2>1, <4>1 DEF Known, KnownTo, Answered
      <3>3. CASE ~(DropRejected(c) \/ Save(c) \/ Rollback(c))
        BY <2>2, <3>3
        DEF ClientAction, ClientStep, StartActivation, Admit, UseForeground,
            AcquireStore, AcquireKey, Load, TypePassphrase, ClearEntry,
            SignSucceeds, SignFails, Send, Receive, GiveUp, Die, outside
      <3>4. QED
        BY <3>1, <3>2, <3>3
    <2>3. CASE LockAction
      BY <2>1, <2>3
      DEF LockAction, LockStep, BeginLock, DrainActivations, LockStore,
          LockKey, DeleteCredential, ClearManagedCache, EndLock, LockErrs,
          outside
    <2>4. CASE SchedulerAction
      <3>1. sched.pc = "reject" /\ sched.key = k
        BY <2>1, <2>4
        DEF SchedulerAction, SchedulerStep, Dispatch, PingSucceeds, PingFails,
            RenewStore, RenewKey, Recheck, RenewLoad, RenewClear, RenewSign,
            RenewReject, RenewErrs, ApplyFailure, outside
      <3>2. QED
        BY <2>1, <3>1 DEF Known, KnownToRenewal
    <2>5. CASE EndCredentialClear
      BY <2>5 DEF EndCredentialClear
    <2>6. CASE \/ \E c \in Clients : HandleOn(c)
               \/ OffOrExpire \/ BeginCredentialClear
               \/ \E g \in Keys : AgentForgets(g)
               \/ UNCHANGED vars
      BY <2>6 DEF HandleOn, OffOrExpire, BeginCredentialClear, AgentForgets,
                  vars, outside
    <2>7. QED
      BY <1>1, <2>2, <2>3, <2>4, <2>5, <2>6, NextCases
  <1>2. Credentials /\ [Next]_vars => [Taken]_vars
    BY <1>1
  <1>3. Credentials /\ [Next]_vars => Credentials'
    BY CredentialsNext
  <1>4. QED
    BY <1>2, <1>3, CredentialsInit, PTL DEF Spec, GoodCredentialIsKept

-----------------------------------------------------------------------------
(***************************************************************************)
(* What a lock promises, when no client leaves while its On request is     *)
(* under way.  A client that does can undo the promise: the handler of its *)
(* request takes no lock, and the client's own is gone.                    *)
(***************************************************************************)

Reliable == Unreliable = {}

(* The client of a request that is not yet applied waits for the answer.   *)
Delivered == \A c \in inbox : client[c].pc = "await"

(* The lock's own protection: no hold while it runs, and nobody who could  *)
(* warm the key once it has drained.                                       *)
LockShields ==
    /\ locking <=> lock.pc # "idle"
    /\ locking => ~hold.on
    /\ Draining => \A c \in Clients : ~Guarding(c)
    /\ (lock.pc = "clear" /\ lock.clear) => cred[lock.key] = None

(* What is left running after a success cannot warm the key: activations   *)
(* are not admitted yet, and a renewal past its recheck is another key's.  *)
Sealing ==
    sealed # None =>
        /\ \A c \in Clients : client[c].pc \in {"idle", "admit", "done"}
        /\ sched.pc \in {"load", "clear", "sign", "reject"} =>
             sched.key # sealed.key

Shielded == Delivered /\ LockShields /\ Sealing /\ LockSuccessLasts

LEMMA ClientShielded ==
    ASSUME Reliable, Credentials, Shielded, NEW c \in Clients, ClientAction(c)
    PROVE  Shielded'
  <1>1. /\ TypeOK /\ Types /\ KindsKnown /\ Answered
        /\ client \in [Clients -> ClientRecords]
    BY DEF Credentials, Protocol, Types, TypeOK, ClientRecords
  <1>2. /\ UNCHANGED <<hold, locking, lock, sched>>
        /\ \A d \in Clients \ {c} : client'[d] = client[d]
    BY <1>1, ClientEffect DEF daemon
  <1>3. ~Draining
    <2>1. SUFFICES ASSUME Draining
                   PROVE  FALSE
      OBVIOUS
    <2>2. client[c].pc \in {"idle", "done"}
      BY <2>1 DEF Shielded, LockShields, Guarding
    <2>3. \E k \in Keys, kind \in {"ordinary", "stored"} :
            StartActivation(c, kind, k)
      BY <2>2 DEF ClientAction, ClientStep, Admit, UseForeground,
                  AcquireStore, AcquireKey, Load, TypePassphrase, ClearEntry,
                  SignSucceeds, SignFails, DropRejected, Save, Send, Receive,
                  Rollback, GiveUp, Die, Guarding
    <2>4. QED
      BY <2>1, <2>3 DEF StartActivation
  <1>4. LockShields'
    <2>1. ~Draining' /\ lock'.pc # "clear"
      BY <1>2, <1>3 DEF Draining
    <2>2. QED
      BY <1>2, <2>1 DEF Shielded, LockShields
  <1>5. Delivered'
    <2>1. ~GiveUp(c) /\ ~Die(c)
      BY DEF Reliable, GiveUp, Die
    <2>2. CASE Send(c)
      <3>1. \/ inbox' = inbox \cup {c} /\ Goto(c, "await")
            \/ inbox' = inbox /\ c \notin inbox
        BY <2>2 DEF Send, Shielded, Delivered
      <3>2. QED
        BY <1>1, <1>2, <3>1, GotoFacts
        DEF Shielded, Delivered, TypeOK, ClientPCs
    <2>3. CASE ~Send(c)
      <3>1. inbox' = inbox
        BY <2>1, <2>3
        DEF ClientAction, ClientStep, StartActivation, Admit, UseForeground,
            AcquireStore, AcquireKey, Load, TypePassphrase, ClearEntry,
            SignSucceeds, SignFails, DropRejected, Save, Receive, Rollback
      <3>2. c \notin inbox
        <4>1. SUFFICES ASSUME c \in inbox
                       PROVE  FALSE
          OBVIOUS
        <4>2. client[c].pc = "await" /\ client[c].reply = None
          BY <1>1, <4>1 DEF Shielded, Delivered, Answered
        <4>3. QED
          BY <2>1, <2>3, <4>2, LockProtocolAssumption
          DEF ClientAction, ClientStep, StartActivation, Admit, UseForeground,
              AcquireStore, AcquireKey, Load, TypePassphrase, ClearEntry,
              SignSucceeds, SignFails, DropRejected, Save, Receive, Rollback
      <3>3. QED
        BY <1>1, <1>2, <3>1, <3>2 DEF Shielded, Delivered, TypeOK
    <2>4. QED
      BY <2>2, <2>3
  <1>6. sealed' \in {sealed, None}
    BY DEF ClientAction, ClientStep, StartActivation, Admit, UseForeground,
           AcquireStore, AcquireKey, Load, TypePassphrase, ClearEntry,
           SignSucceeds, SignFails, DropRejected, Save, Send, Receive,
           Rollback, GiveUp, Die, history
  <1>7. ASSUME sealed' # None
        PROVE  Sealing' /\ LockSuccessLasts'
    <2>1. sealed' = sealed /\ client[c].pc \in {"idle", "admit", "done"}
      BY <1>6, <1>7 DEF Shielded, Sealing
    <2>2. \/ \E k \in Keys, kind \in {"ordinary", "stored"} :
               StartActivation(c, kind, k)
          \/ Admit(c)
      BY <2>1 DEF ClientAction, ClientStep, UseForeground, AcquireStore,
                  AcquireKey, Load, TypePassphrase, ClearEntry, SignSucceeds,
                  SignFails, DropRejected, Save, Send, Receive, Rollback,
                  GiveUp, Die, Reliable
    <2>3. UNCHANGED <<cache, cred>>
      BY <2>2 DEF StartActivation, Admit, outside
    <2>4. client'[c].pc \in {"idle", "admit", "done"}
      <3>1. CASE \E k \in Keys, kind \in {"ordinary", "stored"} :
                   StartActivation(c, kind, k)
        BY <1>1, <3>1, StartFacts
      <3>2. CASE Admit(c)
        <4>1. End(c)
          BY <1>7, <3>2 DEF Admit
        <4>2. QED
          BY <1>1, <4>1, EndFacts
      <3>3. QED
        BY <2>2, <3>1, <3>2
    <2>5. QED
      BY <1>2, <1>7, <2>1, <2>3, <2>4
      DEF Shielded, Sealing, LockSuccessLasts
  <1>8. QED
    BY <1>4, <1>5, <1>7 DEF Shielded, Sealing, LockSuccessLasts

LEMMA LockShielded ==
    ASSUME Credentials, Shielded, LockAction
    PROVE  Shielded'
  <1>1. /\ Exclusive /\ TypeOK
        /\ lock \in [pc : LockPCs, key : Keys \cup {None}, clear : BOOLEAN]
        /\ lock.pc # "idle" => lock.key \in Keys
        /\ sched.pc # "idle" => sched.key \in Keys
        /\ sealed # None => sealed.key \in Keys
    BY DEF Credentials, Protocol, Types, TypeOK, KeysKnown
  <1>2. UNCHANGED <<client, inbox, sched>>
    BY DEF LockAction, LockStep, BeginLock, DrainActivations, LockStore,
           LockKey, DeleteCredential, ClearManagedCache, EndLock, LockErrs
  <1>3. Delivered'
    BY <1>2 DEF Shielded, Delivered
  <1>4. CASE \E clear \in BOOLEAN : BeginLock(clear)
    BY <1>1, <1>2, <1>3, <1>4
    DEF BeginLock, TurnOff, Shielded, LockShields, Draining, Sealing,
        LockSuccessLasts, TypeOK, outside, history
  <1>5. CASE DrainActivations
    <2>1. /\ \A c \in Clients : ~Guarding(c)
          /\ lock'.pc = "global" /\ lock.pc = "drain"
          /\ UNCHANGED <<hold, locking, cache, cred, sealed>>
      BY <1>1, <1>5 DEF DrainActivations, LockGoto, outside, history
    <2>2. \A c \in Clients : ~Guarding(c)'
      BY <1>2, <2>1 DEF Guarding
    <2>3. QED
      BY <1>2, <1>3, <2>1, <2>2
      DEF Shielded, LockShields, Sealing, LockSuccessLasts
  <1>6. CASE LockStore \/ LockKey \/ LockErrs
    <2>1. /\ lock.pc # "idle" /\ lock'.pc \in {"key", "delete", "release"}
          /\ Draining' => Draining
          /\ UNCHANGED <<hold, locking, cache, cred, sealed>>
      BY <1>1, <1>6
      DEF LockStore, LockKey, LockErrs, LockGoto, Draining, outside, history
    <2>2. \A c \in Clients : Guarding(c)' <=> Guarding(c)
      BY <1>2 DEF Guarding
    <2>3. QED
      BY <1>2, <1>3, <2>1, <2>2
      DEF Shielded, LockShields, Sealing, LockSuccessLasts
  <1>7. CASE DeleteCredential
    <2>1. /\ Draining /\ lock.pc # "idle"
          /\ lock'.pc \in {"clear", "clear_failed"}
          /\ lock'.key = lock.key /\ lock'.clear = lock.clear
          /\ UNCHANGED <<hold, locking, cache, sealed>>
          /\ \A k \in Keys : cred'[k] \in {cred[k], None}
          /\ lock'.pc = "clear" /\ lock'.clear => cred'[lock.key] = None
      BY <1>1, <1>7 DEF DeleteCredential, LockGoto, Draining, TypeOK, history
    <2>2. \A c \in Clients : Guarding(c)' <=> Guarding(c)
      BY <1>2 DEF Guarding
    <2>3. LockShields'
      BY <2>1, <2>2 DEF Shielded, LockShields
    <2>4. Sealing' /\ LockSuccessLasts'
      BY <1>1, <1>2, <2>1 DEF Shielded, Sealing, LockSuccessLasts
    <2>5. QED
      BY <1>3, <2>3, <2>4 DEF Shielded
  <1>8. CASE ClearManagedCache
    <2>1. /\ Draining /\ LockInTransaction /\ lock.pc # "idle"
          /\ lock'.pc = "release"
          /\ UNCHANGED <<hold, locking, cred>>
      BY <1>1, <1>8
      DEF ClearManagedCache, LockGoto, Draining, LockInTransaction
    <2>2. /\ ~hold.on
          /\ \A c \in Clients : client[c].pc \in {"idle", "done"}
          /\ lock.pc = "clear" /\ lock.clear => cred[lock.key] = None
      BY <2>1 DEF Shielded, LockShields, Guarding
    <2>3. LockShields'
      BY <2>1 DEF Shielded, LockShields, Draining
    <2>4. CASE sealed' = sealed
      <3>1. \A k \in Keys : cache'[k] \in {cache[k], "cold"}
        BY <1>1, <1>8 DEF ClearManagedCache, TypeOK
      <3>2. QED
        BY <1>1, <1>2, <1>3, <2>1, <2>3, <2>4, <3>1
        DEF Shielded, Sealing, LockSuccessLasts
    <2>5. CASE sealed' # sealed
      <3>1. /\ lock.pc = "clear"
            /\ sealed' = [key |-> lock.key, clear |-> lock.clear]
            /\ cache'[lock.key] = "cold"
        BY <1>1, <1>8, <2>5 DEF ClearManagedCache, TypeOK
      <3>2. sched.pc \in {"load", "clear", "sign", "reject"} =>
              sched.key # lock.key
        BY <1>1, <2>1 DEF Exclusive, RenewalInTransaction
      <3>3. QED
        BY <1>2, <1>3, <2>1, <2>2, <2>3, <3>1, <3>2
        DEF Shielded, Sealing, LockSuccessLasts
    <2>6. QED
      BY <2>4, <2>5
  <1>9. CASE EndLock
    BY <1>2, <1>3, <1>9
    DEF EndLock, NoLock, Shielded, LockShields, Draining, Sealing,
        LockSuccessLasts, outside, history
  <1>10. QED
    BY <1>4, <1>5, <1>6, <1>7, <1>8, <1>9 DEF LockAction, LockStep

(* A renewal goes on from its recheck only for the hold that is on.        *)
LEMMA SchedulerShielded ==
    ASSUME Credentials, Shielded, SchedulerAction
    PROVE  Shielded'
  <1>1. /\ TypeOK
        /\ sched \in [ pc : SchedPCs, generation : Nat,
                       key : Keys \cup {None}, mode : HoldModes,
                       secret : Secrets \cup {None} ]
        /\ sched.pc # "idle" => sched.key \in Keys
        /\ sealed # None => sealed.key \in Keys
        /\ lock.pc # "idle" => lock.key \in Keys
    BY DEF Credentials, Protocol, Types, TypeOK, KeysKnown
  <1>2. /\ UNCHANGED <<client, inbox, locking, lock, sealed>>
        /\ hold' = hold \/ hold' = [hold EXCEPT !.on = FALSE]
    BY DEF SchedulerAction, SchedulerStep, Dispatch, PingSucceeds, PingFails,
           RenewStore, RenewKey, Recheck, RenewLoad, RenewClear, RenewSign,
           RenewReject, RenewErrs, ApplyFailure, TurnOff, history
  <1>3. /\ hold'.on => hold.on
        /\ \A k \in Keys : cred'[k] \in {cred[k], None}
    <2>1. hold'.on => hold.on
      BY <1>1, <1>2 DEF TypeOK
    <2>2. \A k \in Keys : cred'[k] \in {cred[k], None}
      BY <1>1 DEF SchedulerAction, SchedulerStep, Dispatch, PingSucceeds,
                  PingFails, RenewStore, RenewKey, Recheck, RenewLoad,
                  RenewClear, RenewSign, RenewReject, RenewErrs,
                  ApplyFailure, TypeOK, outside
    <2>3. QED
      BY <2>1, <2>2
  <1>4. Delivered' /\ LockShields'
    <2>1. \A c \in Clients : Guarding(c)' <=> Guarding(c)
      BY <1>2 DEF Guarding
    <2>2. Draining' <=> Draining
      BY <1>2 DEF Draining
    <2>3. QED
      BY <1>1, <1>2, <1>3, <2>1, <2>2
      DEF Shielded, Delivered, LockShields
  <1>5. ASSUME sealed # None
        PROVE  /\ cache'[sealed.key] = "cold"
               /\ sched'.pc \in {"load", "clear", "sign", "reject"} =>
                    sched'.key # sealed.key
    <2>1. /\ ~hold.on /\ cache[sealed.key] = "cold"
          /\ sched.pc \in {"load", "clear", "sign", "reject"} =>
               sched.key # sealed.key
      BY <1>5 DEF Shielded, Sealing, LockSuccessLasts
    <2>2. ~Dispatch
      BY <2>1 DEF Dispatch
    <2>3. CASE Recheck
      BY <2>1, <2>3 DEF Recheck, StillRenewable, Current, NoWork, outside
    <2>4. CASE RenewClear \/ RenewSign
      BY <1>1, <1>5, <2>1, <2>4
      DEF RenewClear, RenewSign, SchedGoto, NoWork, TypeOK
    <2>5. CASE PingSucceeds \/ PingFails \/ RenewStore \/ RenewKey
               \/ RenewErrs \/ ApplyFailure
      BY <1>1, <2>1, <2>5
      DEF PingSucceeds, PingFails, RenewStore, RenewKey, RenewErrs,
          ApplyFailure, SchedGoto, NoWork, outside
    <2>6. CASE RenewLoad \/ RenewReject
      BY <1>1, <2>1, <2>6 DEF RenewLoad, RenewReject, SchedGoto, outside
    <2>7. QED
      BY <2>2, <2>3, <2>4, <2>5, <2>6 DEF SchedulerAction, SchedulerStep
  <1>6. Sealing' /\ LockSuccessLasts'
    BY <1>1, <1>2, <1>3, <1>5 DEF Shielded, Sealing, LockSuccessLasts
  <1>7. QED
    BY <1>4, <1>6 DEF Shielded

LEMMA OtherShielded ==
    ASSUME Credentials, Shielded,
           \/ \E c \in Clients : HandleOn(c)
           \/ OffOrExpire \/ BeginCredentialClear \/ EndCredentialClear
           \/ \E k \in Keys : AgentForgets(k)
           \/ UNCHANGED vars
    PROVE  Shielded'
  <1>1. /\ TypeOK
        /\ lock.pc # "idle" => lock.key \in Keys
        /\ sealed # None => sealed.key \in Keys
    BY DEF Credentials, Protocol, Types, TypeOK, KeysKnown
  <1>2. UNCHANGED <<locking, lock, sched, sealed>>
    BY DEF HandleOn, OffOrExpire, BeginCredentialClear, EndCredentialClear,
           AgentForgets, vars, daemon, history
  <1>3. \A c \in Clients : client'[c].pc = client[c].pc
    <2>1. CASE \E c \in Clients : HandleOn(c)
      BY <1>1, <2>1, ReplyFacts
    <2>2. CASE client' = client
      BY <2>2
    <2>3. QED
      BY <2>1, <2>2 DEF OffOrExpire, BeginCredentialClear,
                        EndCredentialClear, AgentForgets, vars
  <1>4. inbox' \subseteq inbox
    BY DEF HandleOn, OffOrExpire, BeginCredentialClear, EndCredentialClear,
           AgentForgets, vars
  <1>5. hold'.on => hold.on \/ (~locking /\ sealed = None)
    <2>1. ASSUME NEW c \in Clients, HandleOn(c)
          PROVE  hold'.on => hold.on \/ (~locking /\ sealed = None)
      <3>1. c \in inbox /\ (hold' = hold \/ ~locking)
        BY <2>1 DEF HandleOn
      <3>2. sealed = None
        BY <3>1 DEF Shielded, Delivered, Sealing
      <3>3. QED
        BY <3>1, <3>2
    <2>2. CASE OffOrExpire
      BY <2>2 DEF OffOrExpire
    <2>3. CASE hold' = hold
      BY <2>3
    <2>4. QED
      BY <2>1, <2>2, <2>3
      DEF BeginCredentialClear, EndCredentialClear, AgentForgets, vars, daemon
  <1>6. \A k \in Keys : /\ cred'[k] \in {cred[k], None}
                        /\ cache'[k] \in {cache[k], "cold"}
    BY <1>1 DEF HandleOn, OffOrExpire, BeginCredentialClear,
                EndCredentialClear, AgentForgets, vars, outside, TypeOK
  <1>7. Delivered'
    BY <1>1, <1>3, <1>4 DEF Shielded, Delivered, TypeOK
  <1>8. LockShields'
    <2>1. \A c \in Clients : Guarding(c)' <=> Guarding(c)
      BY <1>3 DEF Guarding
    <2>2. Draining' <=> Draining
      BY <1>2 DEF Draining
    <2>3. QED
      BY <1>1, <1>2, <1>5, <1>6, <2>1, <2>2 DEF Shielded, LockShields
  <1>9. Sealing' /\ LockSuccessLasts'
    BY <1>1, <1>2, <1>3, <1>5, <1>6 DEF Shielded, Sealing, LockSuccessLasts
  <1>10. QED
    BY <1>7, <1>8, <1>9 DEF Shielded

(* From the report of a success until an activation is admitted after it,  *)
(* the hold is off, the managed key is cold in the agent and, with         *)
(* --clear, its credential is gone, whatever renewals, pings, activations  *)
(* and clearings were under way or waiting for the lock.                   *)
THEOREM LockSuccessStays ==
    ASSUME Reliable
    PROVE  Spec => []LockSuccessLasts
  <1>1. Init => Shielded
    <2>1. Init => ~hold.on /\ ~locking /\ sealed = None /\ inbox = {}
                  /\ lock.pc = "idle"
      BY DEF Init, NoLock
    <2>2. QED
      BY <2>1 DEF Shielded, Delivered, LockShields, Draining, Sealing,
                  LockSuccessLasts
  <1>2. Credentials /\ Shielded /\ [Next]_vars => Shielded'
    BY NextCases, ClientShielded, LockShielded, SchedulerShielded,
       OtherShielded
  <1>3. Credentials /\ [Next]_vars => Credentials'
    BY CredentialsNext
  <1>4. Shielded => LockSuccessLasts
    BY DEF Shielded
  <1>5. QED
    BY <1>1, <1>2, <1>3, <1>4, CredentialsInit, PTL DEF Spec
==============================================================================
