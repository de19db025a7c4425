-------------------------- MODULE SessionStoreProofs --------------------------
(***************************************************************************)
(* Theorems about SessionStore, for any number of activations, keys, items *)
(* and failures.  They rest on the exclusion of transactions, and on the   *)
(* barrier that keeps all of them out of a sweep of the whole collection.  *)
(* What they take for granted of gpg is proved of GpgAdapter, at the end.  *)
(***************************************************************************)
EXTENDS SessionStore, GpgAdapter, FiniteSetTheorems, WellFoundedInduction,
        TLAPS

-----------------------------------------------------------------------------
(***************************************************************************)
(* Types.                                                                  *)
(***************************************************************************)

ClientSteps ==
    { "idle", "global", "key", "load", "prompt", "clear", "sign", "drop",
      "save", "handoff", "rollback", "done", "dead" }

Activations ==
    [ step : ClientSteps, grip : Keygrips \cup {None},
      secret : Secrets \cup {None},
      from : {"prompt", "store", "replacement"} ]

TypeInv ==
    /\ items \subseteq Items
    /\ client \in [Clients -> Activations]
    /\ sweep \in [Processes -> SUBSET Items]

(* What Goto and End leave of an activation.                               *)
LEMMA GotoFacts ==
    ASSUME TypeInv, NEW c \in Clients, NEW step \in ClientSteps, Goto(c, step)
    PROVE  /\ client' \in [Clients -> Activations]
           /\ client'[c].step = step
           /\ client'[c].grip = client[c].grip
           /\ client'[c].secret = client[c].secret
           /\ client'[c].from = client[c].from
           /\ \A d \in Clients \ {c} : client'[d] = client[d]
  BY DEF TypeInv, Goto, Activations

LEMMA EndFacts ==
    ASSUME TypeInv, NEW c \in Clients, NEW step \in ClientSteps, End(c, step)
    PROVE  /\ client' \in [Clients -> Activations]
           /\ client'[c].step = step
           /\ \A d \in Clients \ {c} : client'[d] = client[d]
  <1> DEFINE ended == [Idle EXCEPT !.step = step]
  <1>1. ended \in Activations /\ ended.step = step
    BY DEF Idle, Activations
  <1>2. client' = [client EXCEPT ![c] = ended]
    BY DEF End
  <1> HIDE DEF ended
  <1>3. QED
    BY <1>1, <1>2 DEF TypeInv

(* What a search, a deletion and the failure of one do to a sweep.         *)
LEMMA SweepFacts ==
    ASSUME TypeInv, NEW p \in Processes
    PROVE  /\ \A found \in SUBSET Items : Search(p, found) =>
                /\ sweep' \in [Processes -> SUBSET Items]
                /\ sweep'[p] = found
                /\ \A q \in Processes \ {p} : sweep'[q] = sweep[q]
           /\ DeleteFails(p) =>
                /\ sweep' \in [Processes -> SUBSET Items]
                /\ sweep'[p] = {}
                /\ \A q \in Processes \ {p} : sweep'[q] = sweep[q]
           /\ Delete(p) =>
                /\ sweep' \in [Processes -> SUBSET Items]
                /\ \A q \in Processes \ {p} : sweep'[q] = sweep[q]
                /\ \E i \in sweep[p] : /\ items' = items \ {i}
                                       /\ sweep'[p] = sweep[p] \ {i}
  <1>1. sweep \in [Processes -> SUBSET Items]
    BY DEF TypeInv
  <1>2. ASSUME NEW found \in SUBSET Items, Search(p, found)
        PROVE  /\ sweep' \in [Processes -> SUBSET Items]
               /\ sweep'[p] = found
               /\ \A q \in Processes \ {p} : sweep'[q] = sweep[q]
    BY <1>1, <1>2 DEF Search
  <1>3. QED
    BY <1>1, <1>2 DEF DeleteFails, Delete

-----------------------------------------------------------------------------
(***************************************************************************)
(* One activation's step.                                                  *)
(***************************************************************************)

Sharing(c) == client[c].step = "key" \/ InTransaction(c)

(* An activation moves alone, comes into its transaction only when the key *)
(* is free and to the key only without a barrier, and touches only items   *)
(* of its own key, in its transaction.                                     *)
Alone(c) ==
    /\ client' \in [Clients -> Activations]
    /\ sweep' \in [Processes -> SUBSET Items]
    /\ items' \subseteq Items
    /\ \A d \in Clients \ {c} : client'[d] = client[d]
    /\ \A p \in Processes \ {c} : sweep'[p] = sweep[p]
    /\ UNCHANGED <<clearer, daemon>>
    /\ InTransaction(c)' =>
         /\ client'[c].grip = client[c].grip
         /\ InTransaction(c) \/ KeyFree(client[c].grip)
    /\ Sharing(c)' => Sharing(c) \/ ~Barrier

(* What an activation in its transaction knows: the passphrase it has to   *)
(* try or has validated, and which items of its key are there.             *)
Knows(c) ==
    LET found == Found(client[c].grip)
        step  == client[c].step
    IN  /\ step \notin {"idle", "done", "dead"} =>
             client[c].grip \in Keygrips
        /\ step \in {"clear", "sign"} => client[c].secret \in Secrets
        /\ step \in {"drop", "save", "handoff", "rollback"} =>
             client[c].secret = "right"
        /\ sweep[c] # {} => step \in {"drop", "rollback"}
        /\ \A i \in sweep[c] : i.grip = client[c].grip
        /\ step \in {"drop", "rollback"} => found \subseteq sweep[c]
        /\ step \in {"drop", "save", "rollback"} => Mutated(c)
        /\ (step \in {"prompt", "clear", "sign"}
              /\ client[c].from = "prompt") => found = {}
        /\ step = "save" => found = {}
        /\ (step = "handoff" /\ Mutated(c)) =>
             {i.secret : i \in found} = {"right"}

(* Up to the signature an activation only reads.                           *)
LEMMA ReadingStep ==
    ASSUME TypeInv, NEW c \in Clients, Knows(c),
           \/ \E g \in Keygrips : Begin(c, g)
           \/ LockGlobal(c) \/ LockKey(c) \/ Load(c)
           \/ \E s \in Secrets : Type(c, s)
           \/ PromptFails(c) \/ ClearEntry(c) \/ SignRejected(c) \/ Unwell(c)
    PROVE  Alone(c) /\ Knows(c)' /\ items' = items
  <1>1. /\ client \in [Clients -> Activations] /\ client[c] \in Activations
        /\ UNCHANGED <<items, sweep, clearer, daemon>>
        /\ items \subseteq Items /\ sweep \in [Processes -> SUBSET Items]
    BY DEF TypeInv, Begin, LockGlobal, LockKey, Load, Type, PromptFails,
           ClearEntry, SignRejected, Unwell, Quieter, Quiet, daemonVars
  <1>2. ASSUME client[c].step \notin {"drop", "rollback"},
               client' \in [Clients -> Activations],
               \A d \in Clients \ {c} : client'[d] = client[d],
               client'[c].step \in {"global", "key", "load", "done"},
               client'[c].step # "done" => client'[c].grip \in Keygrips,
               client'[c].step = "key" => ~Barrier,
               client'[c].step = "load" => /\ KeyFree(client[c].grip)
                                           /\ client[c].step = "key"
                                           /\ client'[c].grip = client[c].grip
        PROVE  Alone(c) /\ Knows(c)'
    BY <1>1, <1>2 DEF Alone, Knows, InTransaction, Sharing
  <1>3. ASSUME client[c].step \in {"load", "prompt", "clear", "sign"},
               client' \in [Clients -> Activations],
               \A d \in Clients \ {c} : client'[d] = client[d],
               client'[c].step \in {"prompt", "clear", "sign"},
               client'[c].grip = client[c].grip,
               client'[c].step \in {"clear", "sign"} =>
                 client'[c].secret \in Secrets,
               client'[c].from = "prompt" => Found(client[c].grip) = {}
        PROVE  Alone(c) /\ Knows(c)'
    BY <1>1, <1>3 DEF Alone, Knows, InTransaction, Sharing, Found
  <1>4. CASE \E g \in Keygrips : Begin(c, g)
    <2>1. PICK g \in Keygrips : Begin(c, g)
      BY <1>4
    <2>2. /\ client[c].step = "idle" /\ client'[c].step = "global"
          /\ client'[c].grip \in Keygrips
          /\ client' \in [Clients -> Activations]
          /\ \A d \in Clients \ {c} : client'[d] = client[d]
      BY <1>1, <2>1 DEF Begin, Activations, ClientSteps
    <2>3. QED
      BY <1>1, <1>2, <2>2
  <1>5. CASE LockGlobal(c) \/ LockKey(c)
    BY <1>1, <1>2, <1>5, GotoFacts DEF LockGlobal, LockKey, Knows, ClientSteps
  <1>6. CASE \E step \in {"done"} :
               End(c, step) /\ client[c].step \notin {"drop", "rollback"}
    BY <1>1, <1>2, <1>6, EndFacts DEF ClientSteps
  <1>7. CASE Load(c) /\ ~End(c, "done")
    <2>1. CASE Found(client[c].grip) = {} /\ Goto(c, "prompt")
      BY <1>1, <1>3, <1>7, <2>1, GotoFacts DEF Load, ClientSteps
    <2>2. CASE \E i \in Found(client[c].grip) :
                 client' = [client EXCEPT ![c].secret = i.secret,
                                   ![c].from = "store", ![c].step = "clear"]
      <3>1. PICK i \in Found(client[c].grip) :
               client' = [client EXCEPT ![c].secret = i.secret,
                                   ![c].from = "store", ![c].step = "clear"]
        BY <2>2
      <3>2. i.secret \in Secrets
        BY <1>1 DEF Found, Items
      <3>3. /\ client' \in [Clients -> Activations]
            /\ \A d \in Clients \ {c} : client'[d] = client[d]
            /\ client'[c].step = "clear" /\ client'[c].from = "store"
            /\ client'[c].secret \in Secrets
            /\ client'[c].grip = client[c].grip
        BY <1>1, <3>1, <3>2 DEF Activations, ClientSteps
      <3>4. QED
        BY <1>1, <1>3, <1>7, <3>3 DEF Load
    <2>3. QED
      BY <1>7, <2>1, <2>2 DEF Load
  <1>8. CASE \E s \in Secrets : Type(c, s)
    <2>1. PICK s \in Secrets : Type(c, s)
      BY <1>8
    <2>2. /\ client[c].step = "prompt"
          /\ client' \in [Clients -> Activations]
          /\ \A d \in Clients \ {c} : client'[d] = client[d]
          /\ client'[c].step = "clear" /\ client'[c].from = client[c].from
          /\ client'[c].secret \in Secrets
          /\ client'[c].grip = client[c].grip
      BY <1>1, <2>1 DEF Type, Activations, ClientSteps
    <2>3. QED
      BY <1>1, <1>3, <2>2 DEF Knows
  <1>9. CASE ClearEntry(c)
    BY <1>1, <1>3, <1>9, GotoFacts DEF ClearEntry, Knows, ClientSteps
  <1>10. CASE SignRejected(c) /\ ~End(c, "done")
    <2>1. /\ client[c].step = "sign"
          /\ client' = [client EXCEPT ![c].from = "replacement",
                           ![c].secret = None, ![c].step = "prompt"]
      BY <1>10 DEF SignRejected
    <2>2. /\ client' \in [Clients -> Activations]
          /\ \A d \in Clients \ {c} : client'[d] = client[d]
          /\ client'[c].step = "prompt" /\ client'[c].from = "replacement"
          /\ client'[c].grip = client[c].grip
      BY <1>1, <2>1 DEF Activations, ClientSteps
    <2>3. QED
      BY <1>1, <1>3, <2>1, <2>2
  <1>11. /\ Load(c) \/ PromptFails(c) \/ SignRejected(c) \/ Unwell(c) =>
              client[c].step \notin {"drop", "rollback"}
         /\ PromptFails(c) \/ Unwell(c) => End(c, "done")
    BY DEF Load, PromptFails, SignRejected, Unwell
  <1>12. QED
    BY <1>1, <1>4, <1>5, <1>6, <1>7, <1>8, <1>9, <1>10, <1>11

(* Only what has a validated passphrase in its transaction changes the     *)
(* items, and of its own key only.                                         *)
Writes(c) ==
    \/ items' = items
    \/ /\ InTransaction(c) /\ client[c].secret = "right"
       /\ \A i \in Items :
            i.grip # client[c].grip => (i \in items' <=> i \in items)

(* The deletions of an activation keep what it knows.                      *)
LEMMA DeletingStep ==
    ASSUME TypeInv, SessionStoreAssumption, NEW c \in Clients, Knows(c),
           DropOne(c) \/ RollBackOne(c)
    PROVE  Alone(c) /\ Knows(c)' /\ Writes(c)
  <1>1. /\ client[c].step \in {"drop", "rollback"} /\ Delete(c)
        /\ UNCHANGED <<client, clearer, daemon>>
    BY DEF DropOne, RollBackOne, Quiet, daemonVars
  <1>2. /\ client \in [Clients -> Activations] /\ items \subseteq Items
        /\ c \in Processes
    BY DEF TypeInv, Processes
  <1>3. /\ sweep' \in [Processes -> SUBSET Items]
        /\ \A q \in Processes \ {c} : sweep'[q] = sweep[q]
    BY <1>1, <1>2, SweepFacts
  <1>4. PICK i \in sweep[c] : /\ items' = items \ {i}
                              /\ sweep'[c] = sweep[c] \ {i}
    BY <1>1, <1>2, SweepFacts
  <1>5. /\ client[c].secret = "right" /\ i.grip = client[c].grip
        /\ Found(client[c].grip) \subseteq sweep[c] /\ Mutated(c)
    BY <1>1 DEF Knows
  <1>6. Alone(c)
    BY <1>1, <1>2, <1>3, <1>4 DEF Alone, InTransaction, Sharing
  <1>7. Writes(c)
    BY <1>1, <1>4, <1>5 DEF Writes, InTransaction
  <1>8. Found(client[c].grip)' = Found(client[c].grip) \ {i}
    BY <1>1, <1>4 DEF Found
  <1>9. Knows(c)'
    BY <1>1, <1>4, <1>5, <1>8 DEF Knows, Mutated
  <1>10. QED
    BY <1>6, <1>7, <1>9

(* An activation that ends forgets what it knew.                           *)
LEMMA EndingStep ==
    ASSUME TypeInv, SessionStoreAssumption, NEW c \in Clients,
           NEW step \in {"done", "dead"}, End(c, step),
           UNCHANGED <<items, clearer, daemon>>,
           sweep' \in [Processes -> SUBSET Items], sweep'[c] = {},
           \A p \in Processes \ {c} : sweep'[p] = sweep[p]
    PROVE  Alone(c) /\ Knows(c)' /\ Writes(c)
  <1>1. /\ client' \in [Clients -> Activations]
        /\ client'[c].step = step
        /\ \A d \in Clients \ {c} : client'[d] = client[d]
    BY EndFacts DEF ClientSteps
  <1>2. QED
    BY <1>1 DEF Alone, Knows, Writes, InTransaction, Sharing, TypeInv

(* From the signature on: what may follow it, the replacement of what was  *)
(* stored, the handoff and its rollback.                                   *)
LEMMA WritingStep ==
    ASSUME TypeInv, SessionStoreAssumption, NEW c \in Clients, Knows(c),
           \/ SignSucceeds(c)
           \/ DropOne(c) \/ Dropped(c) \/ DropFails(c)
           \/ Save(c) \/ SaveFails(c)
           \/ Accepted(c) \/ Unanswered(c) \/ Rejected(c)
           \/ RollBackOne(c) \/ RolledBack(c) \/ RollbackFails(c)
           \/ Dies(c)
    PROVE  Alone(c) /\ Knows(c)' /\ Writes(c)
  <1>1. /\ client \in [Clients -> Activations] /\ client[c] \in Activations
        /\ items \subseteq Items /\ sweep \in [Processes -> SUBSET Items]
        /\ c \in Processes /\ Found(client[c].grip) \subseteq items
    BY DEF TypeInv, Processes, Found
  <1>2. ASSUME InTransaction(c), NEW step \in ClientSteps, Goto(c, step),
               UNCHANGED <<clearer, daemon>>,
               sweep' \in [Processes -> SUBSET Items],
               \A p \in Processes \ {c} : sweep'[p] = sweep[p],
               items' \subseteq Items
        PROVE  Alone(c)
    BY <1>2, GotoFacts DEF Alone, Sharing
  <1>3. CASE SignSucceeds(c)
    <2>1. /\ client[c].step = "sign" /\ client[c].secret = "right"
          /\ UNCHANGED <<items, clearer, daemon>>
          /\ InTransaction(c) /\ Writes(c)
      BY <1>3 DEF SignSucceeds, Quiet, daemonVars, InTransaction, Writes
    <2>2. CASE client[c].from = "store" /\ Goto(c, "handoff")
                 /\ UNCHANGED sweep
      <3>1. Alone(c)
        BY <1>1, <1>2, <2>1, <2>2 DEF ClientSteps
      <3>2. Knows(c)'
        BY <1>1, <2>1, <2>2, GotoFacts DEF Knows, ClientSteps, Mutated
      <3>3. QED
        BY <2>1, <3>1, <3>2
    <2>3. CASE client[c].from = "prompt" /\ Goto(c, "save")
                 /\ UNCHANGED sweep
      <3>1. Alone(c)
        BY <1>1, <1>2, <2>1, <2>3 DEF ClientSteps
      <3>2. Knows(c)'
        BY <1>1, <2>1, <2>3, GotoFacts DEF Knows, ClientSteps, Found, Mutated
      <3>3. QED
        BY <2>1, <3>1, <3>2
    <2>4. CASE client[c].from = "replacement" /\ Goto(c, "drop")
                 /\ Search(c, Found(client[c].grip))
      <3>1. /\ sweep' \in [Processes -> SUBSET Items]
            /\ sweep'[c] = Found(client[c].grip)
            /\ \A q \in Processes \ {c} : sweep'[q] = sweep[q]
        BY <1>1, <2>4, SweepFacts
      <3>2. Alone(c)
        BY <1>1, <1>2, <2>1, <2>4, <3>1 DEF ClientSteps
      <3>3. Knows(c)'
        BY <1>1, <2>1, <2>4, <3>1, GotoFacts
           DEF Knows, ClientSteps, Found, Mutated
      <3>4. QED
        BY <2>1, <3>2, <3>3
    <2>5. QED
      BY <1>3, <2>2, <2>3, <2>4 DEF SignSucceeds
  <1>4. CASE DropOne(c) \/ RollBackOne(c)
    BY <1>4, DeletingStep
  <1>5. CASE Dropped(c)
    <2>1. /\ client[c].step = "drop" /\ sweep[c] = {} /\ Goto(c, "save")
          /\ UNCHANGED <<items, clearer, daemon, sweep>>
          /\ InTransaction(c) /\ Writes(c)
      BY <1>5 DEF Dropped, Quieter, Quiet, daemonVars, InTransaction, Writes
    <2>2. Alone(c)
      BY <1>1, <1>2, <2>1 DEF ClientSteps
    <2>3. Knows(c)'
      BY <1>1, <2>1, GotoFacts DEF Knows, ClientSteps, Found, Mutated
    <2>4. QED
      BY <2>1, <2>2, <2>3
  <1>6. CASE Save(c)
    <2>1. /\ client[c].step = "save" /\ Goto(c, "handoff")
          /\ items' = Stored(client[c].grip, client[c].secret)
          /\ UNCHANGED <<clearer, daemon, sweep>>
          /\ InTransaction(c)
          /\ client[c].secret = "right" /\ Found(client[c].grip) = {}
          /\ client[c].grip \in Keygrips
      BY <1>6 DEF Save, Quiet, daemonVars, InTransaction, Knows
    <2> DEFINE new == [grip |-> client[c].grip, form |-> "plain",
                       secret |-> "right"]
    <2>2. /\ new \in Items /\ new.grip = client[c].grip
          /\ new.secret = "right"
      BY <2>1 DEF Items, Secrets
    <2>3. items' = items \cup {new}
      BY <2>1 DEF Stored, Found
    <2> HIDE DEF new
    <2>4. Alone(c)
      BY <1>1, <1>2, <2>1, <2>2, <2>3 DEF ClientSteps
    <2>5. Writes(c)
      BY <2>1, <2>2, <2>3 DEF Writes
    <2>6. /\ client'[c].grip = client[c].grip
          /\ client'[c].secret = client[c].secret
          /\ client'[c].step = "handoff"
      BY <2>1, GotoFacts DEF ClientSteps
    <2>7. Found(client[c].grip)' = {new}
      BY <2>1, <2>2, <2>3, <2>6 DEF Found
    <2>8. Knows(c)'
      BY <2>1, <2>2, <2>6, <2>7 DEF Knows, Mutated
    <2>9. QED
      BY <2>4, <2>5, <2>8
  <1>7. CASE Rejected(c) /\ Mutated(c)
    <2>1. /\ client[c].step = "handoff" /\ Goto(c, "rollback")
          /\ Search(c, Found(client[c].grip))
          /\ UNCHANGED <<items, clearer, daemon>>
          /\ InTransaction(c) /\ Writes(c)
      BY <1>7 DEF Rejected, Quiet, daemonVars, InTransaction, Writes
    <2>2. /\ sweep' \in [Processes -> SUBSET Items]
          /\ sweep'[c] = Found(client[c].grip)
          /\ \A q \in Processes \ {c} : sweep'[q] = sweep[q]
      BY <1>1, <2>1, SweepFacts
    <2>3. Alone(c)
      BY <1>1, <1>2, <2>1, <2>2 DEF ClientSteps
    <2>4. Knows(c)'
      BY <1>1, <1>7, <2>1, <2>2, GotoFacts
         DEF Knows, ClientSteps, Found, Mutated
    <2>5. QED
      BY <2>1, <2>3, <2>4
  <1>8. CASE DropFails(c) \/ RollbackFails(c) \/ Dies(c)
    <2>1. /\ UNCHANGED <<items, clearer, daemon>>
          /\ \E step \in {"done", "dead"} : End(c, step)
          /\ DeleteFails(c) \/ Search(c, {})
      BY <1>8 DEF DropFails, RollbackFails, Dies, Quiet, daemonVars
    <2>2. /\ sweep' \in [Processes -> SUBSET Items] /\ sweep'[c] = {}
          /\ \A q \in Processes \ {c} : sweep'[q] = sweep[q]
      BY <1>1, <2>1, SweepFacts
    <2>3. QED
      BY <2>1, <2>2, EndingStep
  <1>9. CASE SaveFails(c) \/ Accepted(c) \/ Unanswered(c) \/ RolledBack(c)
               \/ (Rejected(c) /\ ~Mutated(c))
    <2>1. /\ UNCHANGED <<items, clearer, daemon, sweep>> /\ End(c, "done")
          /\ sweep[c] = {}
      BY <1>9 DEF SaveFails, Accepted, Unanswered, RolledBack, Rejected,
                  Quieter, Quiet, daemonVars, Knows
    <2>2. QED
      BY <1>1, <2>1, EndingStep
  <1>10. QED
    BY <1>3, <1>4, <1>5, <1>6, <1>7, <1>8, <1>9

-----------------------------------------------------------------------------
(***************************************************************************)
(* The invariant.                                                          *)
(***************************************************************************)

(* One transaction for a key, and none at all behind the barrier.          *)
Exclusive ==
    /\ \A c, d \in Clients :
         InTransaction(c) /\ InTransaction(d)
           /\ client[c].grip = client[d].grip => c = d
    /\ Barrier => \A c \in Clients : ~Sharing(c)

StoreInv ==
    /\ TypeInv
    /\ Exclusive
    /\ \A c \in Clients : Knows(c)
    /\ clearer = "sweep" => items \subseteq sweep[Clearer]

LEMMA StoreInvInit == SessionStoreAssumption /\ Init => StoreInv
  <1> SUFFICES ASSUME SessionStoreAssumption, Init  PROVE StoreInv
    OBVIOUS
  <1>1. /\ items \subseteq Items /\ clearer = "idle" /\ daemon = "serving"
        /\ sweep \in [Processes -> SUBSET Items]
        /\ \A p \in Processes : sweep[p] = {}
    BY DEF Init, SessionStoreAssumption
  <1>2. /\ client \in [Clients -> Activations]
        /\ \A c \in Clients : client[c].step = "idle"
    BY DEF Init, Idle, Activations, ClientSteps
  <1>3. QED
    BY <1>1, <1>2 DEF StoreInv, TypeInv, Exclusive, Barrier, Sharing,
                      InTransaction, Knows, Processes

(* What an activation does disturbs no other, and no sweep.                *)
LEMMA ActivationStep ==
    ASSUME SessionStoreAssumption, StoreInv, NEW c \in Clients,
           Alone(c), Knows(c)', Writes(c)
    PROVE  StoreInv'
  <1>1. TypeInv'
    BY DEF TypeInv, Alone
  <1>2. /\ c \notin {Clearer, Daemon} /\ Clearer \in Processes
        /\ Clients \subseteq Processes
        /\ Barrier' = Barrier /\ clearer' = clearer
    BY DEF SessionStoreAssumption, Processes, Barrier, Alone
  <1>3. \A d \in Clients \ {c} :
          /\ client'[d] = client[d] /\ sweep'[d] = sweep[d]
          /\ InTransaction(d)' = InTransaction(d)
          /\ Sharing(d)' = Sharing(d)
    BY <1>2 DEF Alone, InTransaction, Sharing
  <1>4. Exclusive'
    <2>1. ASSUME NEW d \in Clients, InTransaction(c)', InTransaction(d)',
                 client'[c].grip = client'[d].grip
          PROVE  c = d
      BY <1>3, <2>1 DEF Alone, StoreInv, Exclusive, KeyFree
    <2>2. ASSUME NEW d \in Clients, NEW e \in Clients, d # c, e # c,
                 InTransaction(d)', InTransaction(e)',
                 client'[d].grip = client'[e].grip
          PROVE  d = e
      BY <1>3, <2>2 DEF StoreInv, Exclusive
    <2>3. Barrier' => \A d \in Clients : ~Sharing(d)'
      BY <1>2, <1>3 DEF Alone, StoreInv, Exclusive
    <2>4. QED
      BY <2>1, <2>2, <2>3 DEF Exclusive
  <1>5. ASSUME NEW d \in Clients \ {c}  PROVE Knows(d)'
    <2>1. Knows(d)
      BY DEF StoreInv
    <2>2. CASE InTransaction(d)
      <3>1. Found(client[d].grip)' = Found(client[d].grip)
        <4>1. items \subseteq Items /\ items' \subseteq Items
          BY DEF StoreInv, TypeInv, Alone
        <4>2. InTransaction(c) => client[d].grip # client[c].grip
          BY <2>2 DEF StoreInv, Exclusive
        <4>3. QED
          BY <1>3, <4>1, <4>2 DEF Writes, Found
      <3>2. QED
        BY <1>3, <2>1, <3>1 DEF Knows, Mutated
    <2>3. CASE ~InTransaction(d)
      BY <1>3, <2>1, <2>3 DEF Knows, InTransaction, Mutated
    <2>4. QED
      BY <2>2, <2>3
  <1>6. clearer' = "sweep" => items' \subseteq sweep'[Clearer]
    BY <1>2 DEF StoreInv, Exclusive, Barrier, Sharing, Writes, Alone
  <1>7. QED
    BY <1>1, <1>4, <1>5, <1>6 DEF StoreInv

(* What sweeps, sweeps alone, and starts when nobody shares.               *)
LEMMA SweepingStep ==
    ASSUME SessionStoreAssumption, StoreInv, UNCHANGED client,
           items' \subseteq items,
           sweep' \in [Processes -> SUBSET Items],
           \A c \in Clients : sweep'[c] = sweep[c],
           items' # items => Barrier,
           Barrier' => Barrier \/ StoreIdle,
           clearer' = "sweep" => items' \subseteq sweep'[Clearer]
    PROVE  StoreInv'
  <1>1. TypeInv'
    BY DEF StoreInv, TypeInv
  <1>2. \A c \in Clients : /\ InTransaction(c)' = InTransaction(c)
                           /\ Sharing(c)' = Sharing(c)
    BY DEF InTransaction, Sharing
  <1>3. Exclusive'
    BY <1>2 DEF StoreInv, Exclusive, StoreIdle, Sharing
  <1>4. ASSUME NEW c \in Clients  PROVE Knows(c)'
    <2>1. Knows(c)
      BY DEF StoreInv
    <2>2. CASE InTransaction(c)
      <3>1. items' = items
        BY <2>2 DEF StoreInv, Exclusive, Sharing
      <3>2. QED
        BY <2>1, <3>1 DEF Knows, Found, Mutated
    <2>3. CASE ~InTransaction(c)
      BY <2>1, <2>3 DEF Knows, InTransaction, Mutated
    <2>4. QED
      BY <2>2, <2>3
  <1>5. QED
    BY <1>1, <1>3, <1>4 DEF StoreInv

LEMMA StoreInvStep ==
    SessionStoreAssumption /\ StoreInv /\ [Next]_vars => StoreInv'
  <1> SUFFICES ASSUME SessionStoreAssumption, StoreInv, [Next]_vars
               PROVE  StoreInv'
    OBVIOUS
  <1>1. /\ TypeInv /\ items \subseteq Items
        /\ sweep \in [Processes -> SUBSET Items]
        /\ Clearer \in Processes /\ Daemon \in Processes /\ Clearer # Daemon
        /\ \A c \in Clients : /\ c \in Processes
                              /\ c # Clearer /\ c # Daemon /\ Knows(c)
        /\ clearer = "sweep" => items \subseteq sweep[Clearer]
    BY DEF StoreInv, TypeInv, Processes, SessionStoreAssumption
  <1>2. ASSUME NEW c \in Clients, Activation(c)  PROVE StoreInv'
    <2>1. Alone(c) /\ Knows(c)' /\ Writes(c)
      BY <1>1, <1>2, ReadingStep, WritingStep DEF Activation, Writes
    <2>2. QED
      BY <2>1, ActivationStep
  <1>3. CASE ClearAll
    <2>1. /\ UNCHANGED <<items, client>> /\ StoreIdle
          /\ Search(Clearer, items)
      BY <1>3 DEF ClearAll
    <2>2. QED
      BY <1>1, <2>1, SweepFacts, SweepingStep
  <1>4. CASE ClearOne
    <2>1. /\ UNCHANGED <<client, clearer, daemon>> /\ Delete(Clearer)
          /\ clearer = "sweep" /\ Barrier /\ Barrier' = Barrier
      BY <1>4 DEF ClearOne, daemonVars, Barrier
    <2>2. PICK i \in sweep[Clearer] :
            /\ items' = items \ {i}
            /\ sweep'[Clearer] = sweep[Clearer] \ {i}
      BY <1>1, <2>1, SweepFacts
    <2>3. QED
      BY <1>1, <2>1, <2>2, SweepFacts, SweepingStep
  <1>5. CASE ClearFails \/ Cleared
    <2>1. /\ UNCHANGED <<items, client, daemon>> /\ clearer = "sweep"
          /\ clearer' \in {"failed", "cleared"}
          /\ DeleteFails(Clearer) \/ UNCHANGED sweep
          /\ Barrier
      BY <1>5 DEF ClearFails, Cleared, daemonVars, Barrier
    <2>2. QED
      BY <1>1, <2>1, SweepFacts, SweepingStep
  <1>6. CASE Stop \/ Drain \/ LockKeyAtEnd
    <2>1. /\ UNCHANGED <<items, client, clearer, sweep>>
          /\ daemon' \in {"stopping", "cleanup", "gone"}
      BY <1>6 DEF Stop, Drain, LockKeyAtEnd, DaemonGoto
    <2>2. Barrier' => Barrier
      BY <2>1 DEF Barrier
    <2>3. QED
      BY <1>1, <2>1, <2>2, SweepingStep
  <1>7. CASE CleanSecrets
    <2>1. /\ UNCHANGED <<items, client, clearer>>
          /\ \/ StoreIdle /\ Search(Daemon, items)
             \/ daemon' = "lock" /\ UNCHANGED sweep
      BY <1>7 DEF CleanSecrets, DaemonGoto
    <2>2. Barrier' => Barrier \/ StoreIdle
      BY <2>1 DEF Barrier
    <2>3. QED
      BY <1>1, <2>1, <2>2, SweepFacts, SweepingStep
  <1>8. CASE CleanOne
    <2>1. /\ UNCHANGED <<client, clearer, daemon>> /\ Delete(Daemon)
          /\ daemon = "sweep" /\ Barrier
      BY <1>8 DEF CleanOne, daemonVars, Barrier
    <2>2. items' \subseteq items
      BY <1>1, <2>1, SweepFacts
    <2>3. QED
      BY <1>1, <2>1, <2>2, SweepFacts, SweepingStep
  <1>9. CASE CleanFails \/ Cleaned
    <2>1. /\ UNCHANGED <<items, client, clearer>> /\ daemon = "sweep"
          /\ DeleteFails(Daemon) \/ UNCHANGED sweep
          /\ Barrier
      BY <1>9 DEF CleanFails, Cleaned, DaemonGoto, Barrier
    <2>2. QED
      BY <1>1, <2>1, SweepFacts, SweepingStep
  <1>10. CASE UNCHANGED vars
    <2>1. /\ UNCHANGED <<items, client, clearer, sweep, daemon>>
          /\ Barrier' = Barrier
      BY <1>10 DEF vars, daemonVars, Barrier
    <2>2. QED
      BY <1>1, <2>1, SweepingStep
  <1>11. QED
    BY <1>2, <1>3, <1>4, <1>5, <1>6, <1>7, <1>8, <1>9, <1>10
       DEF Next, Clearing, Ending

THEOREM StoreInvHolds == Spec => []StoreInv
  <1>1. Init => StoreInv
    BY SessionStoreAssumption, StoreInvInit
  <1>2. StoreInv /\ [Next]_vars => StoreInv'
    BY SessionStoreAssumption, StoreInvStep
  <1>3. QED
    BY <1>1, <1>2, PTL DEF Spec

-----------------------------------------------------------------------------
(***************************************************************************)
(* The theorems.                                                           *)
(***************************************************************************)

(* From the store to the handoff, whatever other activations, the clearing *)
(* and the daemon's cleanup do, exactly the validated passphrase is there  *)
(* to be loaded for the key of an activation that stored it.               *)
THEOREM StoredIsValidated == Spec => []ValidatedIsWhatLoads
  <1>1. StoreInv => ValidatedIsWhatLoads
    BY DEF StoreInv, Knows, ValidatedIsWhatLoads
  <1>2. QED
    BY <1>1, StoreInvHolds, PTL

(* `credential clear` never reports success over an item left behind.      *)
THEOREM ClearIsComplete == Spec => ClearedMeansEmpty
  <1>1. StoreInv => (Cleared => items = {})
    BY DEF StoreInv, Cleared
  <1>2. QED
    BY <1>1, StoreInvHolds, PTL DEF ClearedMeansEmpty

(* After its signature, and until it ends, an activation's key stays       *)
(* unlocked, unless the daemon's own end locked it.                        *)
Unlocked ==
    \A c \in Clients :
      client[c].step \in {"drop", "save", "handoff", "rollback"} =>
        client[c].grip \in warm \/ daemon = "gone"

(* Only the clearing before a signature takes from the agent, and only the *)
(* key of the activation itself.                                           *)
LEMMA WarmStep ==
    ASSUME NEW c \in Clients, Activation(c)
    PROVE  \/ warm \subseteq warm' /\ ~ClearEntry(c)
           \/ ClearEntry(c) /\ warm' = warm \ {client[c].grip}
  BY DEF Activation, Begin, LockGlobal, LockKey, Load, Type,
         PromptFails, ClearEntry, SignSucceeds, SignRejected, Unwell, DropOne,
         Dropped, DropFails, Save, SaveFails, Accepted, Unanswered,
         Rejected, RollBackOne, RolledBack, RollbackFails, Dies, Quieter

(* An activation is past its signature only after a signature.             *)
LEMMA PastSignature ==
    ASSUME TypeInv, NEW c \in Clients, Activation(c),
           client'[c].step \in {"drop", "save", "handoff", "rollback"}
    PROVE  /\ client'[c].grip = client[c].grip
           /\ \/ client[c].step \in {"drop", "save", "handoff", "rollback"}
              \/ client[c].grip \in warm'
  <1>1. client \in [Clients -> Activations]
    BY DEF TypeInv
  <1>2. CASE SignSucceeds(c)
    BY <1>1, <1>2 DEF SignSucceeds, Goto, Activations
  <1>3. CASE DropOne(c) \/ RollBackOne(c)
    BY <1>3 DEF DropOne, RollBackOne
  <1>4. CASE Dropped(c) \/ Save(c) \/ Rejected(c)
    <2>1. \/ Goto(c, "save") \/ Goto(c, "handoff") \/ Goto(c, "rollback")
          \/ End(c, "done")
      BY <1>4 DEF Dropped, Save, Rejected
    <2>2. ~End(c, "done")
      BY <1>1 DEF End, Idle
    <2>3. client'[c].grip = client[c].grip
      BY <1>1, <2>1, <2>2 DEF Goto, Activations
    <2>4. QED
      BY <1>4, <2>3 DEF Dropped, Save, Rejected
  <1>6. CASE \/ PromptFails(c) \/ Unwell(c) \/ DropFails(c) \/ SaveFails(c)
             \/ Accepted(c) \/ Unanswered(c) \/ RolledBack(c)
             \/ RollbackFails(c) \/ Dies(c)
    <2>1. End(c, "done") \/ End(c, "dead")
      BY <1>6 DEF PromptFails, Unwell, DropFails, SaveFails, Accepted,
                  Unanswered, RolledBack, RollbackFails, Dies
    <2>2. QED
      BY <1>1, <2>1 DEF End, Idle
  <1>7. CASE LockGlobal(c) \/ LockKey(c) \/ ClearEntry(c)
    <2>1. Goto(c, "key") \/ Goto(c, "load") \/ Goto(c, "sign")
      BY <1>7 DEF LockGlobal, LockKey, ClearEntry
    <2>2. QED
      BY <1>1, <2>1 DEF Goto, Activations
  <1>8. CASE \E g \in Keygrips : Begin(c, g)
    BY <1>1, <1>8 DEF Begin, Activations
  <1>9. CASE Load(c)
    <2>1. CASE Goto(c, "prompt")
      BY <1>1, <2>1 DEF Goto, Activations
    <2>2. CASE End(c, "done")
      BY <1>1, <2>2 DEF End, Idle
    <2>3. ASSUME NEW i \in Found(client[c].grip),
                 client' = [client EXCEPT ![c].secret = i.secret,
                                          ![c].from = "store",
                                          ![c].step = "clear"]
          PROVE  client'[c].step = "clear"
      BY <1>1, <2>3 DEF Activations
    <2>4. QED
      BY <1>9, <2>1, <2>2, <2>3 DEF Load
  <1>10. CASE \E s \in Secrets : Type(c, s)
    <2>1. client'[c].step = "clear"
      BY <1>1, <1>10 DEF Type, Activations
    <2>2. QED
      BY <2>1
  <1>11. CASE SignRejected(c)
    <2>1. CASE client[c].from = "store"
      <3>1. client'[c].step = "prompt"
        BY <1>1, <1>11, <2>1 DEF SignRejected, Activations
      <3>2. QED
        BY <3>1
    <2>2. CASE client[c].from # "store"
      <3>1. End(c, "done")
        BY <1>11, <2>2 DEF SignRejected
      <3>2. QED
        BY <1>1, <3>1 DEF End, Idle
    <2>3. QED
      BY <2>1, <2>2
  <1>12. QED
    BY <1>2, <1>3, <1>4, <1>6, <1>7, <1>8, <1>9, <1>10, <1>11
       DEF Activation

(* Nobody else clears the key meanwhile: its transaction is exclusive.     *)
LEMMA UnlockedStep ==
    ASSUME StoreInv, Unlocked, [Next]_vars
    PROVE  Unlocked'
  <1>1. ASSUME NEW c \in Clients, Activation(c)
        PROVE  Unlocked'
    <2>1. TypeInv /\ Knows(c) /\ Exclusive
      BY DEF StoreInv
    <2>2. Alone(c)
      BY <1>1, <2>1, ReadingStep, WritingStep, SessionStoreAssumption
         DEF Activation
    <2>3. daemon' = daemon /\ \A d \in Clients \ {c} : client'[d] = client[d]
      BY <2>2 DEF Alone
    <2>4. SUFFICES ASSUME NEW d \in Clients,
                          client'[d].step \in {"drop", "save", "handoff",
                                               "rollback"}
                   PROVE  client'[d].grip \in warm' \/ daemon' = "gone"
      BY DEF Unlocked
    <2>5. CASE d = c
      <3>1. /\ client'[c].grip = client[c].grip
            /\ \/ client[c].step \in {"drop", "save", "handoff", "rollback"}
               \/ client[c].grip \in warm'
        BY <1>1, <2>1, <2>4, <2>5, PastSignature
      <3>2. client[c].step \in {"drop", "save", "handoff", "rollback"} =>
              warm \subseteq warm'
        BY <1>1, WarmStep DEF ClearEntry
      <3>3. QED
        BY <2>3, <2>5, <3>1, <3>2 DEF Unlocked
    <2>6. CASE d # c
      <3>1. client'[d] = client[d]
        BY <2>3, <2>6
      <3>2. client[d].grip \in warm \/ daemon = "gone"
        BY <2>4, <3>1 DEF Unlocked
      <3>3. ClearEntry(c) => client[c].grip # client[d].grip
        BY <2>1, <2>4, <2>6, <3>1 DEF ClearEntry, Exclusive, InTransaction
      <3>4. QED
        BY <1>1, <2>3, <3>1, <3>2, <3>3, WarmStep
    <2>7. QED
      BY <2>5, <2>6
  <1>2. CASE Clearing \/ Stop \/ Ending
    <2>1. client' = client
      BY <1>2 DEF Clearing, ClearAll, ClearOne, ClearFails, Cleared, Stop,
           Ending, Drain, CleanSecrets, CleanOne, CleanFails, Cleaned,
           LockKeyAtEnd
    <2>2. daemon' = "gone" \/ (daemon' = daemon /\ warm' = warm)
            \/ (daemon # "gone" /\ warm' = warm)
      BY <1>2 DEF Clearing, ClearAll, ClearOne, ClearFails, Cleared, Stop,
           Ending, Drain, CleanSecrets, CleanOne, CleanFails, Cleaned,
           LockKeyAtEnd, DaemonGoto, daemonVars
    <2>3. QED
      BY <2>1, <2>2 DEF Unlocked
  <1>3. CASE UNCHANGED vars
    BY <1>3 DEF vars, daemonVars, Unlocked
  <1>4. QED
    BY <1>1, <1>2, <1>3 DEF Next

(* Whatever fails, is killed or interleaves: a stored item only goes from  *)
(* a key that a validated passphrase has unlocked, and a cached passphrase *)
(* only where there is one to try.                                         *)
THEOREM LossNeedsSecret == Spec => NothingLostWithoutSecret
  <1> DEFINE Owns(c, g, known) == /\ InTransaction(c)
                                  /\ client[c].grip = g
                                  /\ client[c].secret \in known
      Kept == /\ \A i \in items \ items' :
                   \/ Barrier
                   \/ \E c \in Clients : Owns(c, i.grip, {"right"})
                        /\ (i.grip \in warm' \/ daemon = "gone")
              /\ \A g \in warm \ warm' :
                   \/ daemon = "lock"
                   \/ \E c \in Clients : Owns(c, g, Secrets)
  <1>1. StoreInv /\ Unlocked /\ Next => Kept
    <2> SUFFICES ASSUME StoreInv, Unlocked, Next  PROVE Kept
      OBVIOUS
    <2>1. ASSUME NEW c \in Clients, Activation(c)  PROVE Kept
      <3>1. TypeInv /\ Knows(c)
        BY DEF StoreInv
      <3>2. Writes(c)
        BY <2>1, <3>1, ReadingStep, WritingStep, SessionStoreAssumption
           DEF Activation, Writes
      <3>3. ASSUME NEW i \in items \ items'
            PROVE  /\ Owns(c, i.grip, {"right"})
                   /\ i.grip \in warm' \/ daemon = "gone"
        <4>1. Owns(c, i.grip, {"right"})
          BY <3>1, <3>2, <3>3 DEF Writes, TypeInv
        <4>2. client[c].step \in {"drop", "save", "rollback"}
          BY <2>1, <3>3 DEF Activation, Begin, LockGlobal, LockKey, Load,
               Type, PromptFails, ClearEntry, SignSucceeds, SignRejected,
               Unwell, DropOne, Dropped, DropFails, Save, SaveFails, Accepted,
               Unanswered, Rejected, RollBackOne, RolledBack, RollbackFails,
               Dies, Quieter
        <4>3. warm \subseteq warm'
          BY <2>1, <4>2, WarmStep DEF ClearEntry
        <4>4. QED
          BY <4>1, <4>2, <4>3 DEF Unlocked
      <3>4. ASSUME NEW g \in warm \ warm'
            PROVE  Owns(c, g, Secrets)
        <4>1. ClearEntry(c) /\ client[c].grip = g
          BY <2>1, <3>4, WarmStep
        <4>2. QED
          BY <3>1, <4>1 DEF ClearEntry, Knows, InTransaction
      <3>5. QED
        BY <3>3, <3>4
    <2>2. CASE ClearOne \/ CleanOne
      BY <2>2 DEF ClearOne, CleanOne, Barrier
    <2>3. CASE LockKeyAtEnd
      BY <2>3 DEF LockKeyAtEnd
    <2>4. CASE \/ ClearAll \/ ClearFails \/ Cleared \/ Stop \/ Drain
               \/ CleanSecrets \/ CleanFails \/ Cleaned
      <3>1. UNCHANGED <<items, warm>>
        BY <2>4 DEF ClearAll, ClearFails, Cleared, Stop, Drain,
             CleanSecrets, CleanFails, Cleaned
      <3>2. QED
        BY <3>1
    <2>5. QED
      BY <2>1, <2>2, <2>3, <2>4 DEF Next, Clearing, Ending
  <1>2. StoreInv /\ Unlocked /\ [Next]_vars => [Kept]_vars
    BY <1>1
  <1>3. Init => Unlocked
    BY DEF Init, Idle, Unlocked
  <1>4. Unlocked /\ StoreInv /\ [Next]_vars => Unlocked'
    BY UnlockedStep
  <1>5. QED
    BY <1>2, <1>3, <1>4, StoreInvHolds, PTL DEF Spec, NothingLostWithoutSecret

-----------------------------------------------------------------------------
(***************************************************************************)
(* What the daemon's end leaves behind.                                    *)
(***************************************************************************)

(* The activation that will take item i away again, or hand it over.       *)
Owner(c, i) ==
    /\ client[c].step \in {"handoff", "rollback"}
    /\ Mutated(c)
    /\ client[c].grip = i.grip

(* As long as nothing fails: a sweep knows every item, and after it only   *)
(* what an activation still under way has stored is there.                 *)
Swept ==
    /\ faults \in Nat /\ faults <= Faults
    /\ faults = Faults =>
         /\ daemon = "sweep" => items \subseteq sweep[Daemon]
         /\ (daemon \in {"lock", "gone"} /\ Policy.clear_secret) =>
              \A i \in items : \E c \in Clients : Owner(c, i)

(* Once the daemon accepts nothing, an activation leaves its item only     *)
(* when a deletion fails or it is killed.                                  *)
LEMMA OwnersRemain ==
    ASSUME StoreInv, NEW c \in Clients, Activation(c), faults' = faults,
           faults \in Nat, daemon \in {"lock", "gone"},
           NEW i \in items', NEW d \in Clients, Owner(d, i), i \in items
    PROVE  Owner(d, i)'
  <1>1. /\ TypeInv /\ Knows(c)
        /\ client \in [Clients -> Activations]
    BY DEF StoreInv, TypeInv
  <1>2. Alone(c)
    BY <1>1, ReadingStep, WritingStep, SessionStoreAssumption DEF Activation
  <1>3. CASE d # c
    BY <1>2, <1>3 DEF Alone, Owner, Mutated
  <1>4. CASE d = c
    <2>1. ~Fault
      BY DEF Fault
    <2>2. CASE Rejected(c)
      <3>1. Goto(c, "rollback")
        BY <1>4, <2>2 DEF Rejected, Owner
      <3>2. QED
        BY <1>1, <1>4, <3>1, GotoFacts DEF Owner, Mutated, ClientSteps
    <2>3. CASE RollBackOne(c)
      BY <1>4, <2>3 DEF RollBackOne, Owner, Mutated
    <2>4. ASSUME RolledBack(c)  PROVE FALSE
      BY <1>1, <1>4, <2>4 DEF RolledBack, Owner, Knows, Found
    <2>5. Rejected(c) \/ RollBackOne(c) \/ RolledBack(c)
      BY <1>4, <2>1 DEF Owner, Activation, Begin, LockGlobal, LockKey, Load,
         Type, PromptFails, ClearEntry, SignSucceeds, SignRejected, Unwell,
         DropOne, Dropped, DropFails, Save, SaveFails, Accepted, Unanswered,
         Listening, RollbackFails, DeleteFails, Dies
    <2>6. QED
      BY <2>2, <2>3, <2>4, <2>5
  <1>5. QED
    BY <1>3, <1>4

(* A new item is the one its activation has saved.                         *)
LEMMA NewItemIsOwned ==
    ASSUME StoreInv, NEW c \in Clients, Activation(c),
           NEW i \in items', i \notin items
    PROVE  Owner(c, i)'
  <1>1. /\ TypeInv /\ Knows(c)
        /\ items' \subseteq items \/ Save(c)
    <2>1. TypeInv /\ Knows(c) /\ c \in Processes
      BY DEF StoreInv, Processes
    <2>2. CASE DropOne(c) \/ RollBackOne(c)
      BY <2>1, <2>2, SweepFacts DEF DropOne, RollBackOne
    <2>3. CASE ~(DropOne(c) \/ RollBackOne(c) \/ Save(c))
      BY <2>3 DEF Activation, Begin, LockGlobal, LockKey, Load,
         Type, PromptFails, ClearEntry, SignSucceeds, SignRejected, Unwell,
         Dropped, DropFails, SaveFails, Accepted, Unanswered, Rejected,
         RolledBack, RollbackFails, Dies, Quieter
    <2>4. QED
      BY <2>1, <2>2, <2>3
  <1>2. /\ client[c].step = "save" /\ Goto(c, "handoff") /\ Mutated(c)
        /\ i.grip = client[c].grip
    BY <1>1 DEF Save, Stored, Knows
  <1>3. QED
    BY <1>1, <1>2, GotoFacts DEF Owner, Mutated, ClientSteps

LEMMA SweptStep == StoreInv /\ Swept /\ [Next]_vars => Swept'
  <1> SUFFICES ASSUME StoreInv, Swept, [Next]_vars  PROVE Swept'
    OBVIOUS
  <1>1. /\ Faults \in Nat /\ faults \in Nat /\ faults <= Faults
        /\ sweep \in [Processes -> SUBSET Items] /\ items \subseteq Items
        /\ Clearer \in Processes /\ Daemon \in Processes /\ Clearer # Daemon
        /\ TypeInv
    BY SessionStoreAssumption DEF Swept, StoreInv, TypeInv, Processes
  <1>2. ASSUME NEW c \in Clients, Activation(c)  PROVE Swept'
    <2>1. TypeInv /\ Knows(c) /\ c # Daemon
      BY SessionStoreAssumption DEF StoreInv
    <2>2. Alone(c) /\ Writes(c)
      BY <1>2, <2>1, ReadingStep, WritingStep, SessionStoreAssumption
         DEF Activation, Writes
    <2>3. UNCHANGED faults \/ Fault
      BY <1>2 DEF Activation, Begin, LockGlobal, LockKey, Load, Type,
         PromptFails, ClearEntry, SignSucceeds, SignRejected, Unwell,
         DropOne, Dropped, DropFails, Save, SaveFails, Accepted, Unanswered,
         Rejected, RollBackOne, RolledBack, RollbackFails, Dies, DeleteFails,
         Quieter
    <2>4. UNCHANGED <<start, disk>>
      BY <1>2 DEF Activation, Begin, LockGlobal, LockKey, Load, Type,
         PromptFails, ClearEntry, SignSucceeds, SignRejected, Unwell,
         DropOne, Dropped, DropFails, Save, SaveFails, Accepted, Unanswered,
         Rejected, RollBackOne, RolledBack, RollbackFails, Dies,
         Quieter, Quiet, daemonVars
    <2>5. faults' \in Nat /\ faults' <= Faults
          /\ (faults' = Faults => faults' = faults)
      BY <1>1, <2>3 DEF Fault
    <2>6. daemon' = daemon /\ Policy' = Policy
      BY <2>2, <2>4 DEF Alone, Policy
    <2>7. ASSUME faults' = Faults, daemon' = "sweep"
          PROVE  items' \subseteq sweep'[Daemon]
      BY <1>1, <2>1, <2>2, <2>5, <2>6, <2>7
         DEF StoreInv, Exclusive, Barrier, Sharing, Writes, Alone, Swept
    <2>8. ASSUME faults' = Faults, daemon' \in {"lock", "gone"},
                 Policy'.clear_secret, NEW i \in items'
          PROVE  \E d \in Clients : Owner(d, i)'
      <3>1. CASE i \in items
        <4>1. PICK d \in Clients : Owner(d, i)
          BY <2>5, <2>6, <2>8, <3>1 DEF Swept
        <4>2. QED
          BY <1>1, <1>2, <2>5, <2>6, <2>8, <3>1, <4>1, OwnersRemain
      <3>2. CASE i \notin items
        BY <1>2, <3>2, NewItemIsOwned
      <3>3. QED
        BY <3>1, <3>2
    <2>9. QED
      BY <2>5, <2>7, <2>8 DEF Swept
  <1>3. CASE ClearAll \/ ClearFails \/ Cleared
    <2>1. /\ UNCHANGED <<items, client, daemon, Policy>>
          /\ UNCHANGED faults \/ Fault
          /\ sweep'[Daemon] = sweep[Daemon]
      BY <1>1, <1>3, SweepFacts
         DEF ClearAll, ClearFails, Cleared, daemonVars, DeleteFails, Policy
    <2>2. QED
      BY <1>1, <2>1 DEF Swept, Owner, Mutated, Fault
  <1>4. CASE ClearOne
    <2>1. /\ UNCHANGED <<client, daemon, Policy, faults>>
          /\ sweep'[Daemon] = sweep[Daemon] /\ items' \subseteq items
      BY <1>1, <1>4, SweepFacts DEF ClearOne, daemonVars, Policy
    <2>2. QED
      BY <1>1, <2>1 DEF Swept, Owner, Mutated
  <1>5. CASE Stop \/ Drain
    BY <1>1, <1>5 DEF Stop, Drain, DaemonGoto, Swept
  <1>6. CASE CleanSecrets
    <2>1. /\ UNCHANGED <<items, faults, Policy>>
          /\ \/ daemon' = "sweep" /\ Search(Daemon, items)
             \/ daemon' = "lock" /\ ~Policy.clear_secret
      BY <1>6 DEF CleanSecrets, DaemonGoto, Policy
    <2>2. QED
      BY <1>1, <2>1, SweepFacts DEF Swept
  <1>7. CASE CleanOne
    <2>1. /\ UNCHANGED <<daemon, faults>> /\ daemon = "sweep"
          /\ Delete(Daemon)
      BY <1>7 DEF CleanOne, daemonVars
    <2>2. PICK i \in sweep[Daemon] : /\ items' = items \ {i}
                                     /\ sweep'[Daemon] = sweep[Daemon] \ {i}
      BY <1>1, <2>1, SweepFacts
    <2>3. QED
      BY <1>1, <2>1, <2>2 DEF Swept
  <1>8. CASE CleanFails
    BY <1>1, <1>8 DEF CleanFails, DeleteFails, Fault, Swept
  <1>9. CASE Cleaned
    <2>1. /\ UNCHANGED <<items, faults>> /\ daemon = "sweep"
          /\ daemon' = "lock" /\ sweep[Daemon] = {}
      BY <1>9 DEF Cleaned, DaemonGoto
    <2>2. QED
      BY <1>1, <2>1 DEF Swept
  <1>10. CASE LockKeyAtEnd \/ UNCHANGED vars
    <2>1. /\ UNCHANGED <<items, client, sweep, faults, Policy>>
          /\ \/ UNCHANGED daemon
             \/ daemon = "lock" /\ daemon' = "gone"
      BY <1>10 DEF LockKeyAtEnd, DaemonGoto, vars, daemonVars, Policy
    <2>2. QED
      BY <1>1, <2>1 DEF Swept, Owner, Mutated
  <1>11. QED
    BY <1>2, <1>3, <1>4, <1>5, <1>6, <1>7, <1>8, <1>9, <1>10
       DEF Next, Clearing, Ending

(* Activations that were under way when the daemon stopped do not leave    *)
(* anything behind its back: what they store after the sweep they take     *)
(* away again, since nobody accepts it.                                    *)
THEOREM TeardownIsComplete == Spec => []TeardownLeavesNothing
  <1>1. Init => Swept
    BY SessionStoreAssumption DEF Init, Swept
  <1>2. StoreInv /\ Swept /\ [Next]_vars => Swept'
    BY SweptStep
  <1>3. Swept => TeardownLeavesNothing
    <2> SUFFICES ASSUME Swept, daemon = "gone", faults = Faults,
                        Policy.clear_secret,
                        \A c \in Clients : ~InTransaction(c)
                 PROVE  items = {}
      BY DEF TeardownLeavesNothing, Policy
    <2>1. \A c \in Clients, i \in items : ~Owner(c, i)
      BY DEF Owner, InTransaction
    <2>2. QED
      BY <2>1 DEF Swept
  <1>4. QED
    BY <1>1, <1>2, <1>3, StoreInvHolds, PTL DEF Spec

-----------------------------------------------------------------------------
(***************************************************************************)
(* What SessionStore and LockProtocol take for granted of gpg: that a      *)
(* passphrase is called rejected only when gpg rejected it, and an entry   *)
(* cleared only when the agent dropped it.  For all keyrings, sequences of *)
(* requests, and sizes of output and pipes.                                *)
(***************************************************************************)

(* A process is waited for.                                                *)
Busy == {"sign", "list", "agent", "gpgconf"}

ChildSet(reply) ==
    [ proc : {"started", "running", "zombie", "reaped"},
      slow : BOOLEAN, heir : BOOLEAN, reply : {reply},
      left : [Pipes -> Nat], pipe : [Pipes -> Nat],
      got : [Pipes -> Nat] ]

CallInv ==
    /\ call.step \in Busy \cup {"idle", "returned"}
    /\ call.step \in Busy =>
         DOMAIN call = {"step", "req", "facts", "signed", "considered",
                        "pinentry"}
    /\ call.step = "idle" => child = None
    /\ call.step # "idle" =>
         call.req \in Requests /\ child \in ChildSet(child.reply)
    /\ ring \in Rings

(* Questions to the agent, and tries of a passphrase, are of one child.    *)
StageInv ==
    call.step \in Busy =>
      /\ call.req.op \in {"state", "clear"} => call.step = "agent"
      /\ call.req.op = "pass" => call.step = "sign"

(* Nothing of what a child writes is lost, and it ends when it is through. *)
PipesInv ==
    call.step \in Busy =>
      \A p \in Pipes :
        /\ child.proc = "started" =>
             child.left[p] = 0 /\ child.pipe[p] = 0 /\ child.got[p] = 0
        /\ child.proc # "started" =>
             child.left[p] + child.pipe[p] + child.got[p] = OutputSize
        /\ child.proc \in {"zombie", "reaped"} => child.left[p] = 0

(* What a child prints, read as the code reads it, says what it did.       *)
AgentFrank(req, r) ==
    /\ req.op = "clear" =>
         (r.exit /\ ParseAgentReply(r.lines).kind = "ok" =>
            r.fact = "cleared")
    /\ req.op = "state" /\ r.exit =>
         /\ HasCode(ParseAgentReply(r.lines), GPG_ERR_NOT_FOUND) =>
              r.fact = "cold"
         /\ /\ ParseAgentReply(r.lines).kind = "ok"
            /\ ParseKeyinfo(r.lines) # None
            => r.fact = IF ParseKeyinfo(r.lines).cached THEN "hot" ELSE "cold"

PassFrank(r) ==
    /\ r.exit => r.fact \in {"signed", "validated"}
    /\ ~r.exit => (HasFailure(ParseStatus(r.lines), GPG_ERR_BAD_PASSPHRASE)
                     <=> r.fact = "rejected")

(* An answer, as far as the waiter takes it apart.                         *)
Shaped(r) ==
    DOMAIN r = {"exit", "lines", "warm", "fact"} /\ r.exit \in BOOLEAN

Frank(req, r) ==
    /\ Shaped(r)
    /\ req.op \in {"state", "clear"} => AgentFrank(req, r)
    /\ req.op = "pass" => PassFrank(r)

(* What is known of a call is what its child did, and the child said so.   *)
ReplyInv ==
    call.step \in Busy /\ call.req.op \in {"state", "clear", "pass"} =>
      /\ child.proc = "started" => call.facts = {}
      /\ child.proc # "started" =>
           call.facts = {child.reply.fact} /\ Frank(call.req, child.reply)

GpgInv ==
    /\ CallInv /\ StageInv /\ PipesInv /\ ReplyInv
    /\ AgentIsBelieved /\ RejectionIsTold /\ ChildrenEndWell

(***************************************************************************)
(* What is read from a reply.                                              *)
(***************************************************************************)

(* Numbers that are there have a least and, if bounded, a greatest.        *)
LEMMA MinOfNats ==
    ASSUME NEW S \in SUBSET Nat, S # {}
    PROVE  Min(S) \in S /\ \A i \in S : Min(S) <= i
  <1>1. PICK m \in S : \A i \in S : <<i, m>> \notin OpToRel(<, Nat)
    BY NatLessThanWellFounded, WFMin
  <1>2. ASSUME NEW i \in S PROVE m <= i
    <2>1. ~(i < m)
      BY <1>1 DEF OpToRel
    <2>2. QED
      BY <2>1
  <1>3. QED
    BY <1>2 DEF Min

LEMMA MaxOfNats ==
    ASSUME NEW n \in Nat, NEW S \in SUBSET (1 .. n), S # {}
    PROVE  Max(S) \in S /\ \A i \in S : i <= Max(S)
  <1> DEFINE T == {n - i : i \in S}
  <1>1. T \in SUBSET Nat /\ T # {}
    <2>1. \A i \in S : i \in 1 .. n
      OBVIOUS
    <2>2. \A i \in S : n - i \in Nat
      BY <2>1
    <2>3. QED
      BY <2>2
  <1> HIDE DEF T
  <1>2. Min(T) \in T /\ \A j \in T : Min(T) <= j
    BY <1>1, MinOfNats
  <1>3. PICK m \in S : Min(T) = n - m
    BY <1>2 DEF T
  <1>4. ASSUME NEW i \in S PROVE i <= m
    <2>1. n - m <= n - i
      BY <1>2, <1>3 DEF T
    <2>2. i \in 1 .. n /\ m \in 1 .. n
      OBVIOUS
    <2>3. QED
      BY <2>1, <2>2
  <1>5. QED
    BY <1>4 DEF Max

LEMMA MaxIs ==
    ASSUME NEW S \in SUBSET Int, NEW m \in S, \A i \in S : i <= m
    PROVE  Max(S) = m
  <1>1. Max(S) \in S /\ \A i \in S : Max(S) >= i
    BY DEF Max
  <1>2. Max(S) <= m /\ Max(S) >= m /\ Max(S) \in Int /\ m \in Int
    BY <1>1
  <1>3. QED
    BY <1>2

LEMMA MinIs ==
    ASSUME NEW S \in SUBSET Int, NEW m \in S, \A i \in S : m <= i
    PROVE  Min(S) = m
  <1>1. Min(S) \in S /\ \A i \in S : Min(S) <= i
    BY DEF Min
  <1>2. Min(S) <= m /\ Min(S) >= m /\ Min(S) \in Int /\ m \in Int
    BY <1>1
  <1>3. QED
    BY <1>2

(* The last line that is not blank decides.                                *)
Terminal(line) ==
    IF line.word = "OK"
      THEN [kind |-> "ok"]
    ELSE IF line.word = "ERR" /\ line.code # None
      THEN [kind |-> "err", code |-> line.code]
    ELSE [kind |-> "malformed"]

LEMMA LastLineDecides ==
    ASSUME NEW lines, DOMAIN lines \subseteq Int,
           NEW n \in DOMAIN lines, lines[n].word # "",
           \A i \in DOMAIN lines : i <= n \/ lines[i].word = ""
    PROVE  ParseAgentReply(lines) = Terminal(lines[n])
  <1> DEFINE printed == {i \in DOMAIN lines : lines[i].word # ""}
  <1>1. printed \in SUBSET Int /\ n \in printed /\ \A i \in printed : i <= n
    OBVIOUS
  <1>2. Max(printed) = n
    BY <1>1, MaxIs
  <1>3. printed # {}
    BY <1>1
  <1>4. QED
    BY <1>2, <1>3 DEF ParseAgentReply, Terminal

LEMMA SilenceIsMalformed ==
    ParseAgentReply(<<>>) = [kind |-> "malformed"]
  <1>1. {i \in DOMAIN <<>> : <<>>[i].word # ""} = {}
    OBVIOUS
  <1>2. QED
    BY <1>1 DEF ParseAgentReply

LEMMA FirstInfoCounts ==
    ASSUME NEW lines, DOMAIN lines \subseteq Nat \ {0},
           1 \in DOMAIN lines, lines[1].word = "KEYINFO",
           lines[1].letter = "P"
    PROVE  ParseKeyinfo(lines) = [ cached |-> lines[1].cached = "1",
                                   protection |-> "passphrase" ]
  <1> DEFINE found == {i \in DOMAIN lines : lines[i].word = "KEYINFO"}
  <1>1. /\ found \in SUBSET Int /\ 1 \in found /\ found # {}
        /\ \A i \in found : 1 <= i
    OBVIOUS
  <1>2. Min(found) = 1
    BY <1>1, MinIs
  <1> HIDE DEF found
  <1>3. ParseKeyinfo(lines) =
          LET info == lines[Min(found)]
          IN  IF found = {} THEN None
              ELSE [ cached |-> info.cached = "1",
                     protection |-> CASE info.letter = "P" -> "passphrase"
                                      [] info.letter = "C" -> "clear"
                                      [] OTHER -> "unknown" ]
    BY DEF ParseKeyinfo, found
  <1>4. QED
    BY <1>1, <1>2, <1>3

LEMMA NoInfo ==
    ASSUME NEW lines, \A i \in DOMAIN lines : lines[i].word # "KEYINFO"
    PROVE  ParseKeyinfo(lines) = None
  <1>1. {i \in DOMAIN lines : lines[i].word = "KEYINFO"} = {}
    OBVIOUS
  <1>2. QED
    BY <1>1 DEF ParseKeyinfo

(* The codes that matter, without their source.                            *)
LEMMA Codes ==
    /\ Masked(FromGpg(1)) = 1
    /\ Masked(FromGpg(GPG_ERR_BAD_PASSPHRASE))
         = GPG_ERR_BAD_PASSPHRASE
    /\ Masked(FromGpg(GPG_ERR_NOT_FOUND))
         = GPG_ERR_NOT_FOUND
    /\ Masked(SystemError(27)) # GPG_ERR_NOT_FOUND
    /\ {FromGpg(1), FromGpg(GPG_ERR_BAD_PASSPHRASE)} \subseteq Nat
    /\ GPG_ERR_BAD_PASSPHRASE # 1
  BY DEF Masked, FromGpg, SystemError, GPG_ERR_BAD_PASSPHRASE,
         GPG_ERR_NOT_FOUND

(***************************************************************************)
(* The agent.                                                              *)
(***************************************************************************)

LEMMA RefusalsAreSeen ==
    ASSUME NEW req, NEW before, DOMAIN before = 1 .. 1,
           before[1].word \in {"S", "KEYINFO"}, NEW r \in Refusals(before)
    PROVE  AgentFrank(req, r)
  <1> DEFINE lines == <<ErrLine(SystemError(27)), Blank>>
  <1>1. CASE r = Answer(TRUE, lines, entries, "refused")
    <2>1. /\ DOMAIN lines = 1 .. 2
          /\ lines[1] = ErrLine(SystemError(27))
          /\ lines[2] = Blank
      OBVIOUS
    <2>2. /\ lines[1].word = "ERR" /\ lines[1].code = SystemError(27)
          /\ lines[2].word = ""
      BY <2>1 DEF ErrLine, Blank
    <2> HIDE DEF lines
    <2>3. /\ DOMAIN lines \subseteq Int /\ 1 \in DOMAIN lines
          /\ \A i \in DOMAIN lines : i <= 1 \/ lines[i].word = ""
      <3>1. \A i \in 1 .. 2 : i \in Int /\ (i <= 1 \/ i = 2)
        OBVIOUS
      <3>2. \A i \in DOMAIN lines : i <= 1 \/ i = 2
        BY <2>1, <3>1
      <3>3. DOMAIN lines \subseteq Int /\ 1 \in DOMAIN lines
        BY <2>1
      <3>4. QED
        BY <2>2, <3>2, <3>3
    <2>4. ParseAgentReply(lines) = Terminal(lines[1])
      BY <2>2, <2>3, LastLineDecides
    <2>5. \/ Terminal(lines[1]) = [kind |-> "malformed"]
          \/ Terminal(lines[1]) =
               [kind |-> "err", code |-> SystemError(27)]
      BY <2>2 DEF Terminal
    <2>6. /\ ParseAgentReply(lines).kind # "ok"
          /\ ~HasCode(ParseAgentReply(lines), GPG_ERR_NOT_FOUND)
      BY <2>4, <2>5, Codes DEF HasCode
    <2>7. r.lines = lines
      BY <1>1 DEF Answer, lines
    <2>8. QED
      BY <2>6, <2>7 DEF AgentFrank
  <1>2. CASE r = Answer(TRUE, <<>>, entries, "refused")
    <2>1. r.lines = <<>>
      BY <1>2 DEF Answer
    <2>2. QED
      BY <2>1, SilenceIsMalformed DEF AgentFrank, HasCode
  <1>3. CASE r = Answer(TRUE, before, entries, "refused")
    <2>1. r.lines = before
      BY <1>3 DEF Answer
    <2>2. \A i \in 1 .. 1 : i \in Int /\ i <= 1
      OBVIOUS
    <2>3. /\ DOMAIN before \subseteq Int /\ 1 \in DOMAIN before
          /\ \A i \in DOMAIN before : i <= 1 \/ before[i].word = ""
      BY <2>2
    <2>4. before[1].word # "" /\ before[1].word \notin {"OK", "ERR"}
      OBVIOUS
    <2>5. ParseAgentReply(before) = [kind |-> "malformed"]
      BY <2>3, <2>4, LastLineDecides DEF Terminal
    <2>6. QED
      BY <2>1, <2>5 DEF AgentFrank, HasCode
  <1>4. CASE r = Answer(FALSE, <<ErrLine(FromGpg(1))>>, entries,
                            "refused")
    <2>1. r.exit = FALSE
      BY <1>4 DEF Answer
    <2>2. QED
      BY <2>1 DEF AgentFrank
  <1>5. QED
    BY <1>1, <1>2, <1>3, <1>4 DEF Refusals

LEMMA AgentIsFrank ==
    ASSUME NEW req, req.op \in {"state", "clear"},
           NEW r \in AgentAnswers(req)
    PROVE  AgentFrank(req, r)
  <1>1. ASSUME r \in Refusals(<<[word |-> "S"]>>)
        PROVE  AgentFrank(req, r)
    <2>1. /\ DOMAIN <<[word |-> "S"]>> = 1 .. 1
          /\ <<[word |-> "S"]>>[1].word \in {"S", "KEYINFO"}
      OBVIOUS
    <2>2. QED
      BY <1>1, <2>1, RefusalsAreSeen
  <1>2. ASSUME r \in Refusals(<<InfoLine(req.grip)>>)
        PROVE  AgentFrank(req, r)
    <2>1. /\ DOMAIN <<InfoLine(req.grip)>> = 1 .. 1
          /\ <<InfoLine(req.grip)>>[1].word \in {"S", "KEYINFO"}
      BY DEF InfoLine
    <2>2. QED
      BY <1>2, <2>1, RefusalsAreSeen
  <1>3. CASE req.op = "clear"
    <2>1. CASE r = Answer(TRUE, <<OkLine, Blank>>,
                              entries \ {req.grip}, "cleared")
      BY <1>3, <2>1 DEF AgentFrank, Answer
    <2>2. QED
      BY <1>1, <1>3, <2>1 DEF AgentAnswers
  <1>4. CASE req.op = "state"
    <2>1. CASE r = Answer(TRUE, <<InfoLine(req.grip), OkLine>>, entries,
                              IF req.grip \in entries THEN "hot" ELSE "cold")
      <3> DEFINE lines == <<InfoLine(req.grip), OkLine>>
      <3>1. /\ DOMAIN lines = 1 .. 2
            /\ lines[1] = InfoLine(req.grip) /\ lines[2] = OkLine
        OBVIOUS
      <3>2. /\ lines[1].word = "KEYINFO" /\ lines[1].letter = "P"
            /\ lines[1].cached = IF req.grip \in entries THEN "1" ELSE "-"
            /\ lines[2].word = "OK"
        BY <3>1 DEF InfoLine, OkLine
      <3> HIDE DEF lines
      <3>3. /\ DOMAIN lines \subseteq Int /\ 2 \in DOMAIN lines
            /\ lines[2].word # ""
            /\ \A i \in DOMAIN lines : i <= 2 \/ lines[i].word = ""
        BY <3>1, <3>2
      <3>4. ParseAgentReply(lines) = [kind |-> "ok"]
        BY <3>2, <3>3, LastLineDecides DEF Terminal
      <3>5. ParseKeyinfo(lines) = [ cached |-> lines[1].cached = "1",
                                    protection |-> "passphrase" ]
        BY <3>1, <3>2, FirstInfoCounts
      <3>6. ParseKeyinfo(lines).cached <=> req.grip \in entries
        <4>1. ParseKeyinfo(lines).cached = (lines[1].cached = "1")
          BY <3>5
        <4>2. lines[1].cached = "1" <=> req.grip \in entries
          BY <3>2
        <4>3. QED
          BY <4>1, <4>2, Zenon
      <3>7. /\ r.lines = lines
            /\ r.fact = IF req.grip \in entries THEN "hot" ELSE "cold"
        BY <2>1 DEF Answer, lines
      <3>8. ~HasCode(ParseAgentReply(r.lines), GPG_ERR_NOT_FOUND)
        BY <3>4, <3>7 DEF HasCode
      <3>9. r.fact = IF ParseKeyinfo(r.lines).cached THEN "hot" ELSE "cold"
        BY <3>6, <3>7
      <3>10. QED
        BY <1>4, <3>8, <3>9 DEF AgentFrank
    <2> DEFINE line == ErrLine(FromGpg(GPG_ERR_NOT_FOUND))
    <2>2. CASE r = Answer(TRUE, <<line>>, entries, "cold")
      <3> DEFINE lines == <<line>>
      <3>1. DOMAIN lines = 1 .. 1 /\ lines[1] = line /\ line.word = "ERR"
        BY DEF ErrLine
      <3> HIDE DEF lines, line
      <3>2. /\ DOMAIN lines \subseteq Int /\ 1 \in DOMAIN lines
            /\ lines[1].word # ""
            /\ \A i \in DOMAIN lines : i <= 1 \/ lines[i].word = ""
        BY <3>1
      <3>3. ParseAgentReply(lines) = Terminal(line)
        BY <3>1, <3>2, LastLineDecides
      <3>4. ParseAgentReply(lines).kind # "ok"
        BY <3>1, <3>3 DEF Terminal
      <3>5. r.lines = lines /\ r.fact = "cold"
        BY <2>2 DEF Answer, lines, line
      <3>6. QED
        BY <1>4, <3>4, <3>5 DEF AgentFrank
    <2>3. CASE r = Answer(TRUE, <<OkLine>>, entries, "refused")
      <3> DEFINE lines == <<OkLine>>
      <3>1. DOMAIN lines = 1 .. 1 /\ lines[1].word = "OK"
        BY DEF OkLine
      <3> HIDE DEF lines
      <3>2. /\ DOMAIN lines \subseteq Int /\ 1 \in DOMAIN lines
            /\ lines[1].word # ""
            /\ \A i \in DOMAIN lines : i <= 1 \/ lines[i].word = ""
            /\ \A i \in DOMAIN lines : lines[i].word # "KEYINFO"
        BY <3>1
      <3>3. ParseAgentReply(lines) = [kind |-> "ok"]
        BY <3>1, <3>2, LastLineDecides DEF Terminal
      <3>4. ParseKeyinfo(lines) = None
        BY <3>2, NoInfo
      <3>5. r.lines = lines
        BY <2>3 DEF Answer, lines
      <3>6. QED
        BY <1>4, <3>3, <3>4, <3>5 DEF AgentFrank, HasCode
    <2>4. QED
      BY <1>2, <1>4, <2>1, <2>2, <2>3 DEF AgentAnswers
  <1>5. QED
    BY <1>3, <1>4

(***************************************************************************)
(* The keyring, and what gpg prints of it.                                 *)
(***************************************************************************)

(* A place is a block's number and a key's number in the block.            *)
LEMMA KeyringIs ==
    ASSUME ring \in Rings
    PROVE  /\ Len(ring) \in Nat /\ DOMAIN ring = 1 .. Len(ring)
           /\ \A b \in DOMAIN ring :
                /\ Len(ring[b]) \in Nat \ {0}
                /\ DOMAIN ring[b] = 1 .. Len(ring[b])
                /\ Head(ring[b]) = ring[b][1]
                /\ ToSet(Tail(ring[b])) =
                     {ring[b][i] : i \in 2 .. Len(ring[b])}
  <1> DEFINE S == UNION {ToSet(ring[b]) : b \in DOMAIN ring}
  <1>1. ring \in Seq(Seq(S) \ {<<>>})
    BY KeyringAssumption
  <1> HIDE DEF S
  <1>2. Len(ring) \in Nat /\ DOMAIN ring = 1 .. Len(ring)
    BY <1>1
  <1>3. ASSUME NEW b \in DOMAIN ring
        PROVE  /\ Len(ring[b]) \in Nat \ {0}
               /\ DOMAIN ring[b] = 1 .. Len(ring[b])
               /\ Head(ring[b]) = ring[b][1]
               /\ ToSet(Tail(ring[b])) =
                    {ring[b][i] : i \in 2 .. Len(ring[b])}
    <2> DEFINE s == ring[b]
    <2>1. s \in Seq(S) /\ s # <<>>
      BY <1>1
    <2> HIDE DEF s
    <2>2. Len(s) \in Nat \ {0} /\ DOMAIN s = 1 .. Len(s) /\ Head(s) = s[1]
      BY <2>1
    <2>3. /\ DOMAIN Tail(s) = 1 .. (Len(s) - 1)
          /\ \A i \in 1 .. (Len(s) - 1) : Tail(s)[i] = s[i + 1]
      BY <2>1, <2>2
    <2>4. ToSet(Tail(s)) = {s[i + 1] : i \in 1 .. (Len(s) - 1)}
      BY <2>3 DEF ToSet
    <2>5. {s[i + 1] : i \in 1 .. (Len(s) - 1)} = {s[i] : i \in 2 .. Len(s)}
      <3>1. ASSUME NEW i \in 2 .. Len(s)
            PROVE  i - 1 \in 1 .. (Len(s) - 1) /\ (i - 1) + 1 = i
        BY <2>2
      <3>2. ASSUME NEW i \in 1 .. (Len(s) - 1)
            PROVE  i + 1 \in 2 .. Len(s)
        BY <2>2
      <3>3. QED
        BY <3>1, <3>2
    <2>6. QED
      BY <2>2, <2>4, <2>5 DEF s
  <1>4. QED
    BY <1>2, <1>3

Place(p) == p = <<p[1], p[2]>> /\ p[1] \in Int /\ p[2] \in Int

(* Every key has a place, and every place a key.                           *)
LEMMA PlacesAre ==
    ASSUME ring \in Rings
    PROVE  /\ IsFiniteSet(PlacesIn(ring))
           /\ \A p \in PlacesIn(ring) :
                /\ Place(p)
                /\ p[1] \in DOMAIN ring /\ p[2] \in DOMAIN ring[p[1]]
                /\ KeyAt(p) \in Keys
           /\ \A b \in DOMAIN ring : \A n \in DOMAIN ring[b] :
                <<b, n>> \in PlacesIn(ring)
           /\ \A k \in Keys : \E p \in PlacesIn(ring) : k = KeyAt(p)
  <1> DEFINE D == DOMAIN ring
             R == {{b} \X DOMAIN ring[b] : b \in D}
  <1>1. IsFiniteSet(D) /\ \A b \in D : IsFiniteSet(DOMAIN ring[b])
    BY KeyringIs, FS_Interval
  <1>2. \A T \in R : IsFiniteSet(T)
    <2>1. ASSUME NEW b \in D PROVE IsFiniteSet({b} \X DOMAIN ring[b])
      <3>1. IsFiniteSet({b}) /\ IsFiniteSet(DOMAIN ring[b])
        BY <1>1, FS_Singleton
      <3>2. QED
        BY <3>1, FS_Product
    <2>2. QED
      BY <2>1
  <1>3. IsFiniteSet(R)
    <2>1. [b \in D |-> {b} \X DOMAIN ring[b]] \in Surjection(D, R)
      BY DEF Surjection
    <2>2. QED
      BY <1>1, <2>1, FS_Surjection
  <1>4. PlacesIn(ring) = UNION R
    BY DEF PlacesIn
  <1>5. IsFiniteSet(UNION R)
    BY <1>2, <1>3, FS_UNION
  <1>6. ASSUME NEW p \in PlacesIn(ring)
        PROVE  /\ Place(p)
               /\ p[1] \in DOMAIN ring /\ p[2] \in DOMAIN ring[p[1]]
               /\ KeyAt(p) \in Keys
    <2>1. PICK b \in D : p \in {b} \X DOMAIN ring[b]
      BY DEF PlacesIn
    <2>2. b \in Int /\ DOMAIN ring[b] \subseteq Int
      BY KeyringIs
    <2>3. p[1] = b /\ p[2] \in DOMAIN ring[b] /\ p = <<p[1], p[2]>>
      BY <2>1
    <2>4. KeyAt(p) \in ToSet(ring[b])
      BY <2>3 DEF KeyAt, ToSet
    <2>5. QED
      BY <2>2, <2>3, <2>4 DEF Place, Keys
  <1>7. \A b \in DOMAIN ring : \A n \in DOMAIN ring[b] :
          <<b, n>> \in PlacesIn(ring)
    BY DEF PlacesIn
  <1>8. ASSUME NEW k \in Keys
        PROVE  \E p \in PlacesIn(ring) : k = KeyAt(p)
    <2>1. PICK b \in DOMAIN ring : k \in ToSet(ring[b])
      BY DEF Keys
    <2> PICK n \in DOMAIN ring[b] : k = ring[b][n]
      BY <2>1 DEF ToSet
    <2>2. <<b, n>> \in PlacesIn(ring) /\ k = KeyAt(<<b, n>>)
      BY <1>7, <2>1 DEF KeyAt
    <2>3. QED
      BY <2>2
  <1>9. QED
    BY <1>4, <1>5, <1>6, <1>7, <1>8

(* The order of the keyring is total, and InOrder follows it.              *)
LEMMA InOrderIs ==
    ASSUME NEW P, IsFiniteSet(P), \A p \in P : Place(p)
    PROVE  /\ Cardinality(P) \in Nat
           /\ DOMAIN InOrder(P) = 1 .. Cardinality(P)
           /\ \A i \in DOMAIN InOrder(P) : InOrder(P)[i] \in P
           /\ \A p \in P : \E i \in DOMAIN InOrder(P) : InOrder(P)[i] = p
           /\ \A i, j \in DOMAIN InOrder(P) :
                i < j => Before(InOrder(P)[i], InOrder(P)[j])
  <1> DEFINE n == Cardinality(P)
             down(p) == {q \in P : Before(q, p)}
             rank(p) == Cardinality(down(p))
  <1>1. n \in Nat
    BY FS_CardinalityType
  <1>2. \A p \in P : ~Before(p, p)
    BY DEF Before, Place
  <1>3. \A p, q, r \in P : Before(p, q) /\ Before(q, r) => Before(p, r)
    BY DEF Before, Place
  <1>4. \A p, q \in P : p # q => Before(p, q) \/ Before(q, p)
    BY DEF Before, Place
  <1> HIDE DEF n
  <1>5. ASSUME NEW p \in P
        PROVE  /\ IsFiniteSet(down(p))
               /\ rank(p) \in Int /\ 0 <= rank(p) /\ rank(p) <= n - 1
    <2>1. down(p) \in SUBSET (P \ {p})
      BY <1>2
    <2>2. IsFiniteSet(P \ {p}) /\ Cardinality(P \ {p}) = n - 1
      BY FS_RemoveElement DEF n
    <2>3. IsFiniteSet(down(p)) /\ rank(p) <= n - 1
      BY <2>1, <2>2, FS_Subset
    <2>4. rank(p) \in Nat
      BY <2>3, FS_CardinalityType
    <2>5. QED
      BY <2>3, <2>4, <1>1
  <1>6. ASSUME NEW p \in P, NEW q \in P, Before(p, q)
        PROVE  rank(p) < rank(q)
    <2>1. down(p) \in SUBSET down(q) /\ p \in down(q) /\ p \notin down(p)
      BY <1>2, <1>3, <1>6
    <2>2. IsFiniteSet(down(q)) /\ rank(p) \in Int /\ rank(q) \in Int
      BY <1>5, <1>1
    <2> HIDE DEF down
    <2>3. rank(p) <= rank(q) /\ (rank(q) = rank(p) => down(q) = down(p))
      BY <2>1, <2>2, FS_Subset
    <2>4. QED
      BY <2>1, <2>2, <2>3
  <1> HIDE DEF rank
  <1>7. \A i \in 1 .. n : \E p \in P : rank(p) = i - 1
    <2> DEFINE f == [p \in P |-> rank(p) + 1]
    <2>1. ASSUME NEW p \in P
          PROVE  rank(p) \in Int /\ rank(p) + 1 \in 1 .. n
      <3>1. rank(p) \in Int /\ 0 <= rank(p) /\ rank(p) <= n - 1
        BY <1>5
      <3>2. QED
        BY <1>1, <3>1
    <2>2. f \in [P -> 1 .. n]
      BY <2>1
    <2>3. \A p, q \in P : f[p] = f[q] => p = q
      BY <1>4, <1>6, <2>1
    <2>4. f \in Injection(P, 1 .. n)
      BY <2>2, <2>3 DEF Injection, IsInjective
    <2>5. IsFiniteSet(1 .. n) /\ Cardinality(1 .. n) = n
      BY <1>1, FS_Interval
    <2>6. f \in Surjection(P, 1 .. n)
      <3> HIDE DEF f
      <3>1. Cardinality(P) = Cardinality(1 .. n)
        BY <2>5 DEF n
      <3>2. QED
        BY <2>4, <2>5, <3>1, FS_Injection
    <2>7. ASSUME NEW i \in 1 .. n
          PROVE  \E p \in P : rank(p) = i - 1
      <3>1. PICK p \in P : f[p] = i
        BY <2>6 DEF Surjection
      <3>2. QED
        BY <2>1, <3>1
    <2>8. QED
      BY <2>7
  <1> DEFINE s == InOrder(P)
  <1>8. s = [i \in 1 .. n |-> CHOOSE p \in P : rank(p) = i - 1]
    BY DEF InOrder, n, rank
  <1> HIDE DEF s
  <1>9. \A i \in 1 .. n : s[i] \in P /\ rank(s[i]) = i - 1
    BY <1>7, <1>8
  <1>10. ASSUME NEW p \in P
         PROVE  \E i \in 1 .. n : s[i] = p
    <2>1. rank(p) \in Int /\ rank(p) + 1 \in 1 .. n
      <3>1. rank(p) \in Int /\ 0 <= rank(p) /\ rank(p) <= n - 1
        BY <1>5
      <3>2. QED
        BY <1>1, <3>1
    <2>2. /\ s[rank(p) + 1] \in P
          /\ rank(s[rank(p) + 1]) = (rank(p) + 1) - 1
      BY <1>9, <2>1
    <2>3. rank(s[rank(p) + 1]) = rank(p)
      BY <2>1, <2>2
    <2>4. s[rank(p) + 1] = p
      BY <1>4, <1>6, <2>1, <2>2, <2>3
    <2>5. QED
      BY <2>1, <2>4
  <1>11. ASSUME NEW i \in 1 .. n, NEW j \in 1 .. n, i < j
         PROVE  Before(s[i], s[j])
    <2>1. /\ s[i] \in P /\ rank(s[i]) = i - 1
          /\ s[j] \in P /\ rank(s[j]) = j - 1
      BY <1>9
    <2>2. rank(s[i]) < rank(s[j])
      BY <1>1, <1>11, <2>1
    <2>3. ~(rank(s[j]) < rank(s[i])) /\ s[i] # s[j]
      BY <1>1, <2>1, <2>2
    <2>4. QED
      BY <1>4, <1>6, <2>1, <2>3
  <1>12. DOMAIN s = 1 .. n
    BY <1>8
  <1>13. QED
    BY <1>1, <1>9, <1>10, <1>11, <1>12 DEF s, n

(* A named key is in the block that is considered, and nowhere else.       *)
LEMMA ConsideredIs ==
    ASSUME ring \in Rings, NEW selector, NEW B \in Considered(selector)
    PROVE  /\ B \in DOMAIN ring
           /\ selector # None =>
                \E i \in DOMAIN ring[B] :
                  KeyAt(<<B, i>>) \in Named(selector)
  <1>1. CASE selector = None
    BY <1>1 DEF Considered
  <1>2. CASE selector # None
    <2>1. PICK k \in Named(selector) : B = BlockOf(k)
      BY <1>2 DEF Considered
    <2>2. k \in Keys
      BY <2>1 DEF Named
    <2>3. \E b \in DOMAIN ring : k \in ToSet(ring[b])
      BY <2>2 DEF Keys
    <2>4. B \in DOMAIN ring /\ k \in ToSet(ring[B])
      BY <2>1, <2>3 DEF BlockOf
    <2>5. QED
      BY <2>1, <2>4 DEF ToSet, KeyAt
  <1>3. QED
    BY <1>1, <1>2

(***************************************************************************)
(* A passphrase.                                                           *)
(***************************************************************************)

Heads(selector) == {Head(ring[b]).fpr : b \in Considered(selector)}

(* A line for each block that gpg looked at, with its primary's id.        *)
LEMMA ConsideredAreLines ==
    ASSUME ring \in Rings, NEW selector
    PROVE  \E n \in Nat :
             ConsideredLines(selector) \in
               [1 .. n -> {Word("KEY_CONSIDERED", a) : a \in Heads(selector)}]
  <1> DEFINE P == Considered(selector) \X {1}
             heads == InOrder(P)
             n == Cardinality(P)
             lines == ConsideredLines(selector)
  <1>1. Considered(selector) \subseteq DOMAIN ring
    BY ConsideredIs
  <1>2. IsFiniteSet(DOMAIN ring) /\ DOMAIN ring \subseteq Int
    BY KeyringIs, FS_Interval
  <1>3. IsFiniteSet(P)
    <2>1. IsFiniteSet(Considered(selector)) /\ IsFiniteSet({1})
      BY <1>1, <1>2, FS_Subset, FS_Singleton
    <2>2. QED
      BY <2>1, FS_Product
  <1>4. \A p \in P : Place(p)
    BY <1>1, <1>2 DEF Place
  <1> HIDE DEF P
  <1>5. /\ n \in Nat /\ DOMAIN heads = 1 .. n
        /\ \A i \in 1 .. n : heads[i] \in P
    BY <1>3, <1>4, InOrderIs
  <1>6. lines = [i \in DOMAIN heads |->
                   Word("KEY_CONSIDERED", KeyAt(heads[i]).fpr)]
    BY DEF ConsideredLines, P
  <1>7. ASSUME NEW p \in P
        PROVE  KeyAt(p).fpr \in Heads(selector)
    <2>1. PICK b \in Considered(selector) : p = <<b, 1>>
      BY DEF P
    <2>2. KeyAt(p) = Head(ring[b])
      BY <1>1, <2>1, KeyringIs DEF KeyAt
    <2>3. QED
      BY <2>2 DEF Heads
  <1> HIDE DEF heads, n
  <1>8. lines \in [1 .. n -> {Word("KEY_CONSIDERED", a) :
                                a \in Heads(selector)}]
    BY <1>5, <1>6, <1>7
  <1>9. QED
    BY <1>5, <1>8

(* The last record tells the failure; the earlier ones are none.           *)
LEMMA LastFailureCounts ==
    ASSUME NEW n \in Nat, NEW Args, NEW code, code # None,
           NEW lines \in [1 .. n ->
                            {Word("KEY_CONSIDERED", a) : a \in Args}]
    PROVE  ParseStatus(lines \o <<Word("FAILURE", code)>>).failure_code = code
  <1> DEFINE all == lines \o <<Word("FAILURE", code)>>
             failures == {i \in DOMAIN all :
                            all[i].word = "FAILURE" /\ all[i].arg # None}
             S == {Word("KEY_CONSIDERED", a) : a \in Args}
  <1>1. lines \in Seq(S) /\ Len(lines) = n
    OBVIOUS
  <1>2. /\ DOMAIN all = 1 .. (n + 1)
        /\ all[n + 1] = Word("FAILURE", code)
        /\ \A i \in 1 .. n : all[i] = lines[i]
    BY <1>1
  <1>3. \A i \in 1 .. n : lines[i].word = "KEY_CONSIDERED"
    BY DEF Word
  <1> HIDE DEF all
  <1>4. failures = {n + 1}
    <2>1. n + 1 \in failures
      BY <1>2 DEF Word
    <2>2. ASSUME NEW i \in failures
          PROVE  i = n + 1
      <3>1. i \notin 1 .. n
        BY <1>2, <1>3
      <3>2. i \in 1 .. (n + 1)
        BY <1>2
      <3>3. QED
        BY <3>1, <3>2
    <2>3. QED
      BY <2>1, <2>2
  <1>5. ParseStatus(all).failure_code = IF failures = {} THEN None
                                        ELSE all[Max(failures)].arg
    BY DEF ParseStatus
  <1> HIDE DEF failures
  <1>6. /\ failures \in SUBSET Int /\ failures # {} /\ n + 1 \in failures
        /\ \A i \in failures : i <= n + 1
    BY <1>4
  <1>7. Max(failures) = n + 1
    BY <1>6, MaxIs
  <1>8. QED
    BY <1>2, <1>5, <1>6, <1>7 DEF Word, all

LEMMA NoFailureInSilence == ParseStatus(<<>>).failure_code = None
  <1>1. {i \in DOMAIN <<>> :
           <<>>[i].word = "FAILURE" /\ <<>>[i].arg # None} = {}
    OBVIOUS
  <1>2. QED
    BY <1>1 DEF ParseStatus

LEMMA FailureIsTold ==
    ASSUME NEW selector, ring \in Rings, NEW code \in Nat,
           NEW fact
    PROVE  HasFailure(ParseStatus(Failure(selector, code, fact).lines),
                      GPG_ERR_BAD_PASSPHRASE)
             <=> Masked(code) = GPG_ERR_BAD_PASSPHRASE
  <1>1. PICK n \in Nat :
          ConsideredLines(selector) \in
            [1 .. n -> {Word("KEY_CONSIDERED", a) : a \in Heads(selector)}]
    BY ConsideredAreLines
  <1>2. Failure(selector, code, fact).lines =
          ConsideredLines(selector) \o <<Word("FAILURE", code)>>
    BY DEF Failure, Answer
  <1>3. ParseStatus(ConsideredLines(selector)
                      \o <<Word("FAILURE", code)>>).failure_code = code
    BY <1>1, LastFailureCounts, AdapterAssumption
  <1>4. QED
    BY <1>2, <1>3, AdapterAssumption DEF HasFailure

LEMMA PassIsFrank ==
    ASSUME NEW req, req.op = "pass", ring \in Rings,
           NEW r \in SignAnswers(req)
    PROVE  PassFrank(r)
  <1> DEFINE selector == [body |-> req.fpr, hex |-> TRUE, forced |-> TRUE]
  <1>1. CASE r = Failure(selector, FromGpg(1), "failed")
    <2>1. r.exit = FALSE /\ r.fact = "failed"
      BY <1>1 DEF Failure, Answer
    <2>2. ~HasFailure(ParseStatus(r.lines), GPG_ERR_BAD_PASSPHRASE)
      BY <1>1, FailureIsTold, Codes
    <2>3. QED
      BY <2>1, <2>2 DEF PassFrank
  <1>2. CASE r = Answer(FALSE, <<>>, entries, "failed")
    <2>1. r.exit = FALSE /\ r.fact = "failed" /\ r.lines = <<>>
      BY <1>2 DEF Answer
    <2>2. QED
      BY <2>1, NoFailureInSilence DEF PassFrank, HasFailure
  <1>3. ASSUME NEW k, NEW fact \in {"signed", "validated"},
               r = Signature(selector, k, FALSE, fact)
        PROVE  PassFrank(r)
    <2>1. r.exit = TRUE /\ r.fact = fact
      BY <1>3 DEF Signature, Answer
    <2>2. QED
      BY <2>1 DEF PassFrank
  <1>4. CASE r = Failure(selector, FromGpg(GPG_ERR_BAD_PASSPHRASE),
                         "rejected")
    <2>1. r.exit = FALSE /\ r.fact = "rejected"
      BY <1>4 DEF Failure, Answer
    <2>2. HasFailure(ParseStatus(r.lines), GPG_ERR_BAD_PASSPHRASE)
      BY <1>4, FailureIsTold, Codes
    <2>3. QED
      BY <2>1, <2>2 DEF PassFrank
  <1> HIDE DEF selector
  <1>5. \/ r = Failure(selector, FromGpg(1), "failed")
        \/ r = Answer(FALSE, <<>>, entries, "failed")
        \/ \E k : r = Signature(selector, k, FALSE, "signed")
        \/ \E k : r = Signature(selector, k, FALSE, "validated")
        \/ r = Failure(selector, FromGpg(GPG_ERR_BAD_PASSPHRASE),
                       "rejected")
    BY DEF SignAnswers, selector
  <1>6. QED
    BY <1>1, <1>2, <1>3, <1>4, <1>5

(***************************************************************************)
(* Every step preserves the invariant.                                     *)
(***************************************************************************)

LEMMA AnswersAreShaped ==
    ASSUME NEW req, NEW r \in AgentAnswers(req) \cup SignAnswers(req)
    PROVE  Shaped(r)
  <1>1. ASSUME NEW exit \in BOOLEAN, NEW lines, NEW cache, NEW fact,
               r = Answer(exit, lines, cache, fact)
        PROVE  Shaped(r)
    BY <1>1 DEF Answer, Shaped
  <1>2. ASSUME NEW before, r \in Refusals(before)
        PROVE  Shaped(r)
    BY <1>1, <1>2 DEF Refusals
  <1>3. ASSUME r \in AgentAnswers(req)
        PROVE  Shaped(r)
    BY <1>1, <1>2, <1>3 DEF AgentAnswers
  <1>4. ASSUME NEW selector, NEW code, NEW fact,
               r = Failure(selector, code, fact)
        PROVE  Shaped(r)
    BY <1>1, <1>4 DEF Failure
  <1>5. ASSUME NEW selector, NEW k, NEW pinentry, NEW fact,
               r = Signature(selector, k, pinentry, fact)
        PROVE  Shaped(r)
    BY <1>1, <1>5 DEF Signature
  <1>6. ASSUME r \in SignAnswers(req)
        PROVE  Shaped(r)
    BY <1>1, <1>4, <1>5, <1>6 DEF SignAnswers
  <1>7. QED
    BY <1>3, <1>6

LEMMA InitEstablishes == GpgInit => GpgInv
  <1> SUFFICES ASSUME GpgInit PROVE GpgInv
    OBVIOUS
  <1>1. call.step = "idle" /\ child = None /\ ring \in Rings
    BY DEF GpgInit, NoCall
  <1>2. CallInv
    BY <1>1 DEF CallInv, Busy
  <1>3. StageInv /\ PipesInv /\ ReplyInv
    BY <1>1 DEF StageInv, PipesInv, ReplyInv, Busy
  <1>4. AgentIsBelieved /\ RejectionIsTold /\ ChildrenEndWell
    BY <1>1 DEF AgentIsBelieved, StateIsTheAgents,
                ClearMeansCleared, RejectionIsTold,
                ChildrenEndWell, NoChildLeft, OnlySlowIsKilled,
                Done
  <1>5. QED
    BY <1>2, <1>3, <1>4 DEF GpgInv

(* The child goes on, and the call waits or is over.                       *)
LEMMA ChildGoesOn ==
    ASSUME GpgInv, child # None, UNCHANGED <<ring, call>>,
           child' \in ChildSet(child.reply), child'.slow = child.slow,
           child'.proc = "started" <=> child.proc = "started",
           child.proc = "reaped" => child'.proc = "reaped",
           PipesInv'
    PROVE  GpgInv'
  <1>1. child'.reply = child.reply /\ child' \in ChildSet(child'.reply)
    BY DEF ChildSet
  <1>2. call.step # "idle"
    BY DEF GpgInv, CallInv
  <1>3. CallInv'
    BY <1>1, <1>2 DEF GpgInv, CallInv
  <1>4. StageInv'
    BY DEF GpgInv, StageInv
  <1>5. ReplyInv'
    BY <1>1 DEF GpgInv, ReplyInv, Frank, Shaped, AgentFrank, PassFrank
  <1>6. AgentIsBelieved' /\ RejectionIsTold'
    BY DEF GpgInv, AgentIsBelieved, StateIsTheAgents,
           ClearMeansCleared, RejectionIsTold, Done
  <1>7. ChildrenEndWell'
    BY DEF GpgInv, ChildrenEndWell, NoChildLeft, OnlySlowIsKilled
  <1>8. QED
    BY <1>3, <1>4, <1>5, <1>6, <1>7 DEF GpgInv

(* The call returns, and its child has ended.                              *)
LEMMA CallReturnsWith ==
    ASSUME GpgInv, call.step \in Busy,
           NEW result, call' = Returned(result),
           ring' = ring, child' \in ChildSet(child.reply),
           child'.proc = "reaped",
           result = Err("GpgTimeout") => child'.slow,
           call.req.op = "state" /\ result.ok =>
             call.facts = {IF result.value.cached THEN "hot" ELSE "cold"},
           call.req.op = "clear" /\ result.ok => call.facts = {"cleared"},
           call.req.op = "pass" =>
             /\ result.ok => call.facts \in {{"validated"}, {"signed"}}
             /\ result = Err("BadPassphrase") => call.facts = {"rejected"}
             /\ result = Err("GpgFailed") => call.facts # {"rejected"}
    PROVE  GpgInv'
  <1>1. /\ call'.step = "returned" /\ call'.req = call.req
        /\ call'.facts = call.facts /\ call'.result = result
    BY DEF Returned
  <1>2. child' \in ChildSet(child'.reply)
    BY DEF ChildSet
  <1>3. CallInv'
    BY <1>1, <1>2 DEF GpgInv, CallInv, Busy
  <1>4. StageInv' /\ PipesInv' /\ ReplyInv'
    BY <1>1 DEF StageInv, PipesInv, ReplyInv, Busy
  <1>5. AgentIsBelieved'
    BY <1>1 DEF AgentIsBelieved, StateIsTheAgents,
                ClearMeansCleared, Done
  <1>6. RejectionIsTold'
    BY <1>1 DEF RejectionIsTold, Done
  <1>7. ChildrenEndWell'
    BY <1>1 DEF ChildrenEndWell, NoChildLeft, OnlySlowIsKilled
  <1>8. QED
    BY <1>3, <1>4, <1>5, <1>6, <1>7 DEF GpgInv
(* A process is spawned for the call.                                      *)
LEMMA Spawns ==
    ASSUME ring' = ring, ring \in Rings,
           call'.step \in Busy, call'.req \in Requests,
           DOMAIN call' = {"step", "req", "facts", "signed", "considered",
                           "pinentry"},
           call'.req.op \in {"state", "clear"} => call'.step = "agent",
           call'.req.op = "pass" => call'.step = "sign",
           call'.req.op \in {"state", "clear", "pass"} => call'.facts = {},
           child' \in Children
    PROVE  GpgInv'
  <1>1. /\ child' \in ChildSet(child'.reply) /\ child'.proc = "started"
        /\ \A p \in Pipes :
             child'.left[p] = 0 /\ child'.pipe[p] = 0 /\ child'.got[p] = 0
    BY DEF Children, ChildSet
  <1>2. CallInv'
    BY <1>1 DEF CallInv, Busy
  <1>3. StageInv' /\ PipesInv' /\ ReplyInv'
    BY <1>1 DEF StageInv, PipesInv, ReplyInv
  <1>4. call'.step # "returned"
    BY DEF Busy
  <1>5. AgentIsBelieved' /\ RejectionIsTold' /\ ChildrenEndWell'
    BY <1>4 DEF AgentIsBelieved, StateIsTheAgents,
                ClearMeansCleared, RejectionIsTold,
                ChildrenEndWell, NoChildLeft, OnlySlowIsKilled,
                Done
  <1>6. QED
    BY <1>2, <1>3, <1>5 DEF GpgInv

LEMMA StartStep ==
    ASSUME GpgInv, NEW req \in Requests, Start(req)
    PROVE  GpgInv'
  <1>1. req.op \in {"probe", "use", "pass", "state", "clear", "policy"}
    BY AdapterAssumption
  <1>2. /\ FirstStep(req) \in Busy
        /\ req.op \in {"state", "clear"} => FirstStep(req) = "agent"
        /\ req.op = "pass" => FirstStep(req) = "sign"
    BY <1>1 DEF FirstStep, Busy
  <1>3. /\ call'.step = FirstStep(req) /\ call'.req = req
        /\ call'.facts = {}
        /\ DOMAIN call' = {"step", "req", "facts", "signed", "considered",
                           "pinentry"}
    BY DEF Start
  <1>4. ring' = ring /\ child' \in Children /\ ring \in Rings
    BY DEF Start, GpgInv, CallInv
  <1>5. QED
    BY <1>2, <1>3, <1>4, Spawns

LEMMA TakeStep == ASSUME GpgInv, Take PROVE GpgInv'
  <1>1. /\ call'.step = "idle" /\ child' = None
        /\ ring' \in Rings
    BY DEF Take, NoCall, GpgInv, CallInv
  <1>2. CallInv'
    BY <1>1 DEF CallInv, Busy
  <1>3. StageInv' /\ PipesInv' /\ ReplyInv'
    BY <1>1 DEF StageInv, PipesInv, ReplyInv, Busy
  <1>4. AgentIsBelieved' /\ RejectionIsTold' /\ ChildrenEndWell'
    BY <1>1 DEF AgentIsBelieved, StateIsTheAgents,
                ClearMeansCleared, RejectionIsTold,
                ChildrenEndWell, NoChildLeft, OnlySlowIsKilled,
                Done
  <1>5. QED
    BY <1>2, <1>3, <1>4 DEF GpgInv

(* A child that has not ended is that of a call that waits for it.         *)
LEMMA SomebodyWaits ==
    ASSUME GpgInv, child # None, child.proc # "reaped"
    PROVE  /\ call.step \in Busy /\ call.req \in Requests
           /\ child \in ChildSet(child.reply)
  BY DEF GpgInv, CallInv, ChildrenEndWell, NoChildLeft

LEMMA WriteStep ==
    ASSUME GpgInv, NEW p \in Pipes, Write(p)
    PROVE  GpgInv'
  <1>1. /\ child # None /\ child.proc \in {"started", "running"}
        /\ child.left[p] > 0
        /\ child' = [child EXCEPT !.left[p] = @ - 1, !.pipe[p] = @ + 1]
        /\ ring' = ring /\ call' = call
    BY DEF Write, Live, Writable
  <1>2. call.step \in Busy /\ child \in ChildSet(child.reply)
    BY <1>1, SomebodyWaits
  <1>3. /\ child.left \in [Pipes -> Nat]
        /\ child.pipe \in [Pipes -> Nat]
        /\ child.got \in [Pipes -> Nat]
    BY <1>2 DEF ChildSet
  <1>4. /\ child'.left = [child.left EXCEPT ![p] = @ - 1]
        /\ child'.pipe = [child.pipe EXCEPT ![p] = @ + 1]
        /\ child'.got = child.got
        /\ child'.proc = child.proc /\ child'.slow = child.slow
    BY <1>1, <1>2 DEF ChildSet
  <1>5. /\ child'.left \in [Pipes -> Nat]
        /\ child'.pipe \in [Pipes -> Nat]
    BY <1>1, <1>3, <1>4
  <1>6. child' \in ChildSet(child.reply)
    BY <1>1, <1>2, <1>5 DEF ChildSet
  <1>7. PipesInv'
    BY <1>1, <1>2, <1>3, <1>4 DEF GpgInv, PipesInv
  <1>8. QED
    BY <1>1, <1>4, <1>6, <1>7, ChildGoesOn

LEMMA ExitStep == ASSUME GpgInv, Exit PROVE GpgInv'
  <1>1. /\ child # None /\ child.proc = "running"
        /\ \A p \in Pipes : child.left[p] = 0
        /\ child' = [child EXCEPT !.proc = "zombie"]
        /\ ring' = ring /\ call' = call
    BY DEF Exit
  <1>2. call.step \in Busy /\ child \in ChildSet(child.reply)
    BY <1>1, SomebodyWaits
  <1>3. /\ child' \in ChildSet(child.reply) /\ child'.proc = "zombie"
        /\ child'.slow = child.slow /\ child'.left = child.left
        /\ child'.pipe = child.pipe /\ child'.got = child.got
    BY <1>1, <1>2 DEF ChildSet
  <1>4. PipesInv'
    BY <1>1, <1>2, <1>3 DEF GpgInv, PipesInv
  <1>5. QED
    BY <1>1, <1>3, <1>4, ChildGoesOn

LEMMA ReapStep == ASSUME GpgInv, Reap PROVE GpgInv'
  <1>1. /\ child # None /\ child.proc = "zombie"
        /\ child' = [child EXCEPT !.proc = "reaped"]
        /\ ring' = ring /\ call' = call
    BY DEF Reap
  <1>2. call.step \in Busy /\ child \in ChildSet(child.reply)
    BY <1>1, SomebodyWaits
  <1>3. /\ child' \in ChildSet(child.reply) /\ child'.proc = "reaped"
        /\ child'.slow = child.slow /\ child'.left = child.left
        /\ child'.pipe = child.pipe /\ child'.got = child.got
    BY <1>1, <1>2 DEF ChildSet
  <1>4. PipesInv'
    BY <1>1, <1>2, <1>3 DEF GpgInv, PipesInv
  <1>5. QED
    BY <1>1, <1>3, <1>4, ChildGoesOn

LEMMA HeirLeavesStep ==
    ASSUME GpgInv, HeirLeaves
    PROVE  GpgInv'
  <1>1. /\ child # None /\ child' = [child EXCEPT !.heir = FALSE]
        /\ ring' = ring /\ call' = call
    BY DEF HeirLeaves
  <1>2. child \in ChildSet(child.reply)
    BY <1>1 DEF GpgInv, CallInv
  <1>3. /\ child' \in ChildSet(child.reply) /\ child'.proc = child.proc
        /\ child'.slow = child.slow /\ child'.left = child.left
        /\ child'.pipe = child.pipe /\ child'.got = child.got
    BY <1>1, <1>2 DEF ChildSet
  <1>4. PipesInv'
    BY <1>1, <1>3 DEF GpgInv, PipesInv
  <1>5. QED
    BY <1>1, <1>3, <1>4, ChildGoesOn

LEMMA DrainStep ==
    ASSUME GpgInv, NEW p \in Pipes, DrainPipe(p)
    PROVE  GpgInv'
  <1>1. /\ child # None /\ child.pipe[p] > 0
        /\ child' = [child EXCEPT !.pipe[p] = @ - 1, !.got[p] = @ + 1]
        /\ ring' = ring /\ call' = call
    BY DEF DrainPipe, Readable
  <1>2. child \in ChildSet(child.reply)
    BY <1>1 DEF GpgInv, CallInv
  <1>3. /\ child.left \in [Pipes -> Nat]
        /\ child.pipe \in [Pipes -> Nat]
        /\ child.got \in [Pipes -> Nat]
    BY <1>2 DEF ChildSet
  <1>4. /\ child'.pipe = [child.pipe EXCEPT ![p] = @ - 1]
        /\ child'.got = [child.got EXCEPT ![p] = @ + 1]
        /\ child'.left = child.left
        /\ child'.proc = child.proc /\ child'.slow = child.slow
    BY <1>1, <1>2 DEF ChildSet
  <1>5. child'.pipe \in [Pipes -> Nat] /\ child'.got \in [Pipes -> Nat]
    BY <1>1, <1>3, <1>4
  <1>6. child' \in ChildSet(child.reply)
    BY <1>1, <1>2, <1>5 DEF ChildSet
  <1>7. PipesInv'
    <2>1. CASE call.step \in Busy
      <3>1. /\ child.proc # "started"
            /\ \A q \in Pipes :
                 /\ child.left[q] + child.pipe[q] + child.got[q]
                      = OutputSize
                 /\ child.proc \in {"zombie", "reaped"} => child.left[q] = 0
        BY <1>1, <2>1 DEF GpgInv, PipesInv
      <3>2. \A q \in Pipes : child'.pipe[q] + child'.got[q]
                              = child.pipe[q] + child.got[q]
        BY <1>1, <1>3, <1>4
      <3>3. \A q \in Pipes : child.left[q] \in Nat /\ child.pipe[q] \in Nat
                  /\ child.got[q] \in Nat /\ child'.pipe[q] \in Nat
                  /\ child'.got[q] \in Nat
        BY <1>3, <1>5
      <3>4. \A q \in Pipes :
              child'.left[q] + child'.pipe[q] + child'.got[q] = OutputSize
        BY <1>4, <3>1, <3>2, <3>3
      <3>5. QED
        BY <1>1, <1>4, <3>1, <3>4 DEF PipesInv
    <2>2. CASE call.step \notin Busy
      BY <1>1, <2>2 DEF PipesInv
    <2>3. QED
      BY <2>1, <2>2
  <1>8. QED
    BY <1>1, <1>4, <1>6, <1>7, ChildGoesOn

LEMMA CacheChangesStep == ASSUME GpgInv, CacheChanges PROVE GpgInv'
  BY DEF CacheChanges, GpgInv, CallInv, StageInv, PipesInv, ReplyInv,
         Frank, AgentFrank, PassFrank, AgentIsBelieved,
         StateIsTheAgents, ClearMeansCleared, RejectionIsTold,
         ChildrenEndWell, NoChildLeft, OnlySlowIsKilled, Done,
         ChildSet, Shaped
LEMMA ActStep == ASSUME GpgInv, Act PROVE GpgInv'
  <1>1. child # None /\ child.proc = "started" /\ ring' = ring
    BY DEF Act
  <1>2. PICK answer \in Answers(call) :
          /\ child' = [child EXCEPT !.proc = "running", !.reply = answer,
                                    !.left = [p \in Pipes |-> OutputSize]]
          /\ call' = [call EXCEPT !.facts = @ \cup {answer.fact}]
    BY DEF Act
  <1>3. /\ call.step \in Busy /\ call.req \in Requests
        /\ child \in ChildSet(child.reply)
        /\ DOMAIN call = {"step", "req", "facts", "signed", "considered",
                          "pinentry"}
    BY <1>1, SomebodyWaits DEF GpgInv, CallInv
  <1>4. /\ call'.step = call.step /\ call'.req = call.req
        /\ call'.facts = call.facts \cup {answer.fact}
        /\ DOMAIN call' = DOMAIN call
    BY <1>2, <1>3
  <1>5. /\ child'.proc = "running" /\ child'.reply = answer
        /\ child'.slow = child.slow
        /\ child'.left = [p \in Pipes |-> OutputSize]
        /\ child'.pipe = child.pipe /\ child'.got = child.got
    BY <1>2, <1>3 DEF ChildSet
  <1>6. child' \in ChildSet(child'.reply)
    BY <1>2, <1>3, <1>5, AdapterAssumption DEF ChildSet
  <1>7. CallInv'
    BY <1>1, <1>3, <1>4, <1>6 DEF GpgInv, CallInv, Busy
  <1>8. StageInv'
    BY <1>4 DEF GpgInv, StageInv
  <1>9. PipesInv'
    BY <1>1, <1>3, <1>4, <1>5, AdapterAssumption DEF GpgInv, PipesInv
  <1>10. ReplyInv'
    <2>1. SUFFICES ASSUME call.req.op \in {"state", "clear", "pass"}
                   PROVE  /\ call'.facts = {answer.fact}
                          /\ Frank(call.req, answer)
      BY <1>4, <1>5 DEF ReplyInv
    <2>2. call'.facts = {answer.fact}
      BY <1>1, <1>3, <1>4, <2>1 DEF GpgInv, ReplyInv
    <2>3. CASE call.req.op \in {"state", "clear"}
      <3>1. call.step = "agent"
        BY <1>3, <2>3 DEF GpgInv, StageInv
      <3>2. answer \in AgentAnswers(call.req)
        BY <3>1 DEF Answers
      <3>3. AgentFrank(call.req, answer) /\ Shaped(answer)
        BY <2>3, <3>2, AgentIsFrank, AnswersAreShaped
      <3>4. QED
        BY <2>2, <2>3, <3>3 DEF Frank
    <2>4. CASE call.req.op = "pass"
      <3>1. call.step = "sign"
        BY <1>3, <2>4 DEF GpgInv, StageInv
      <3>2. answer \in SignAnswers(call.req)
        BY <3>1 DEF Answers
      <3>3. PassFrank(answer) /\ Shaped(answer)
        BY <2>4, <3>2, PassIsFrank, AnswersAreShaped DEF GpgInv, CallInv
      <3>4. QED
        BY <2>2, <2>4, <3>3 DEF Frank
    <2>5. QED
      BY <2>1, <2>3, <2>4
  <1>11. call'.step # "returned"
    BY <1>3, <1>4 DEF Busy
  <1>12. AgentIsBelieved' /\ RejectionIsTold' /\ ChildrenEndWell'
    BY <1>11 DEF AgentIsBelieved, StateIsTheAgents,
                 ClearMeansCleared, RejectionIsTold,
                 ChildrenEndWell, NoChildLeft, OnlySlowIsKilled,
                 Done
  <1>13. QED
    BY <1>7, <1>8, <1>9, <1>10, <1>12 DEF GpgInv

(* An error that ends the operation before anything was read.              *)
LEMMA FailedTellsNothing ==
    ASSUME NEW variant \in {"GpgTimeout", "GpgSpawn"}
    PROVE  /\ call.req.op # "use" => Failed(variant) = Err(variant)
           /\ Failed(variant) = Err("GpgTimeout") =>
                variant = "GpgTimeout"
  BY DEF Failed, Err, Ok

LEMMA ErrorsDiffer ==
    ASSUME NEW variant, NEW other
    PROVE  /\ Err(variant).ok = FALSE
           /\ Err(variant) = Err(other) => variant = other
           /\ \A value : /\ Ok(value).ok = TRUE
                         /\ Ok(value) # Err(other)
           /\ \A value : Ok(value).value = value
  BY DEF Err, Ok

LEMMA SpawnErrorStep ==
    ASSUME GpgInv, SpawnError
    PROVE  GpgInv'
  <1> DEFINE result == Failed("GpgSpawn")
  <1>1. /\ child # None /\ child.proc \in {"started", "running"}
        /\ child' = KillAndWait
        /\ call' = Returned(result) /\ ring' = ring
    BY DEF SpawnError, Live
  <1>2. call.step \in Busy /\ child \in ChildSet(child.reply)
    BY <1>1, SomebodyWaits
  <1>3. child' \in ChildSet(child.reply) /\ child'.proc = "reaped"
    BY <1>1, <1>2 DEF ChildSet, KillAndWait
  <1>4. /\ call.req.op # "use" => result = Err("GpgSpawn")
        /\ result # Err("GpgTimeout")
    BY FailedTellsNothing
  <1>5. /\ Err("GpgSpawn").ok = FALSE
        /\ Err("GpgSpawn") # Err("BadPassphrase")
        /\ Err("GpgSpawn") # Err("GpgFailed")
    BY DEF Err
  <1> HIDE DEF result
  <1>6. QED
    BY <1>1, <1>2, <1>3, <1>4, <1>5, CallReturnsWith

(* Whoever waits for a pipe is served.                                     *)
LEMMA OnlySlowIsStuck ==
    ASSUME child \in ChildSet(child.reply), Stuck
    PROVE  child.slow
  <1>1. SUFFICES ASSUME ~child.slow PROVE FALSE
    OBVIOUS
  <1>2. PICK p \in Pipes : child.left[p] > 0
    BY <1>1 DEF Stuck
  <1>3. ~(child.pipe[p] < PipeSize) /\ ~(child.pipe[p] > 0)
    BY <1>1, <1>2 DEF Stuck, Writable, Readable
  <1>4. child.pipe[p] \in Nat /\ PipeSize \in Nat \ {0}
    BY AdapterAssumption DEF ChildSet
  <1>5. QED
    BY <1>3, <1>4

LEMMA DeadlineStep == ASSUME GpgInv, Deadline PROVE GpgInv'
  <1> DEFINE result == Failed("GpgTimeout")
  <1>1. /\ child # None /\ child.proc \in {"started", "running"}
        /\ Stuck /\ child' = KillAndWait
        /\ call' = Returned(result) /\ ring' = ring
    BY DEF Deadline, Live
  <1>2. call.step \in Busy /\ child \in ChildSet(child.reply)
    BY <1>1, SomebodyWaits
  <1>3. /\ child' \in ChildSet(child.reply) /\ child'.proc = "reaped"
        /\ child'.slow = child.slow
    BY <1>1, <1>2 DEF ChildSet, KillAndWait
  <1>4. child'.slow
    BY <1>1, <1>2, <1>3, OnlySlowIsStuck
  <1>5. call.req.op # "use" => result = Err("GpgTimeout")
    BY FailedTellsNothing
  <1>6. /\ Err("GpgTimeout").ok = FALSE
        /\ Err("GpgTimeout") # Err("BadPassphrase")
        /\ Err("GpgTimeout") # Err("GpgFailed")
    BY DEF Err
  <1> HIDE DEF result
  <1>7. QED
    BY <1>1, <1>2, <1>3, <1>4, <1>5, <1>6, CallReturnsWith
(* The waiter has read all of it.                                          *)
LEMMA AllIsRead ==
    ASSUME GpgInv, NEW step \in Busy, Collected(step), Shaped(child.reply)
    PROVE  /\ Output.exit = child.reply.exit /\ Output.exit \in BOOLEAN
           /\ Output.lines = child.reply.lines
  <1>1. /\ call.step \in Busy /\ child.proc = "reaped"
        /\ \A p \in Pipes : child.pipe[p] = 0
    BY DEF Collected, DrainsEnded, AtEof
  <1>2. child \in ChildSet(child.reply)
    BY <1>1 DEF GpgInv, CallInv, Busy
  <1>3. child.left["out"] + child.pipe["out"] + child.got["out"] = OutputSize
        /\ child.left["out"] = 0
    BY <1>1 DEF GpgInv, PipesInv, Pipes
  <1>4. child.got["out"] = OutputSize
    BY <1>1, <1>2, <1>3 DEF ChildSet, Pipes
  <1>5. Output = [child.reply EXCEPT !.lines = @]
    BY <1>4 DEF Output
  <1>6. /\ Output.exit = child.reply.exit
        /\ Output.lines = child.reply.lines
    BY <1>5 DEF Shaped
  <1>7. child.reply.exit \in BOOLEAN
    BY DEF Shaped
  <1>8. QED
    BY <1>6, <1>7

LEMMA OutputIsAll ==
    ASSUME GpgInv, NEW step \in Busy, Collected(step),
           call.req.op \in {"state", "clear", "pass"}
    PROVE  /\ Output.exit = child.reply.exit /\ Output.exit \in BOOLEAN
           /\ Output.lines = child.reply.lines
           /\ call.facts = {child.reply.fact}
           /\ Frank(call.req, child.reply)
  <1>1. call.step \in Busy /\ child.proc = "reaped"
    BY DEF Collected
  <1>2. call.facts = {child.reply.fact} /\ Frank(call.req, child.reply)
    BY <1>1 DEF GpgInv, ReplyInv
  <1>3. QED
    BY <1>2, AllIsRead DEF Frank

LEMMA StepReturns ==
    ASSUME GpgInv, NEW step \in Busy, Collected(step),
           NEW result, Return(result), result # Err("GpgTimeout"),
           call.req.op = "state" /\ result.ok =>
             call.facts = {IF result.value.cached THEN "hot" ELSE "cold"},
           call.req.op = "clear" /\ result.ok => call.facts = {"cleared"},
           call.req.op = "pass" =>
             /\ result.ok => call.facts \in {{"validated"}, {"signed"}}
             /\ result = Err("BadPassphrase") => call.facts = {"rejected"}
             /\ result = Err("GpgFailed") => call.facts # {"rejected"}
    PROVE  GpgInv'
  <1>1. call.step \in Busy /\ child.proc = "reaped"
    BY DEF Collected
  <1>2. child \in ChildSet(child.reply)
    BY <1>1 DEF GpgInv, CallInv, Busy
  <1>3. call' = Returned(result) /\ ring' = ring /\ child' = child
    BY DEF Return
  <1>4. QED
    BY <1>1, <1>2, <1>3, CallReturnsWith

(* Nothing is claimed of the target here.                                  *)
LEMMA OtherReturns ==
    ASSUME GpgInv, NEW step \in Busy, Collected(step),
           call.req.op \in {"use", "probe", "policy"},
           NEW result, Return(result), result # Err("GpgTimeout")
    PROVE  GpgInv'
  BY StepReturns

LEMMA ListStep ==
    ASSUME GpgInv, call.step \in Busy,
           call.req.op \in {"use", "probe"},
           NEW signed, NEW considered, NEW pinentry,
           List(signed, considered, pinentry)
    PROVE  GpgInv'
  <1>1. /\ call'.step = "list" /\ call'.req = call.req
        /\ DOMAIN call' = {"step", "req", "facts", "signed", "considered",
                           "pinentry"}
        /\ ring' = ring /\ child' \in Children
    BY DEF List
  <1>2. call.req \in Requests /\ ring \in Rings
    BY DEF GpgInv, CallInv, Busy
  <1>3. "list" \in Busy
    BY DEF Busy
  <1>4. QED
    BY <1>1, <1>2, <1>3, Spawns

LEMMA UseKeyStep == ASSUME GpgInv, UseKey PROVE GpgInv'
  <1>1. /\ Collected("sign") /\ "sign" \in Busy /\ call.step \in Busy
        /\ call.req.op = "use"
    BY DEF UseKey, Collected, Busy
  <1>2. \/ Return(Err("GpgFailed"))
        \/ \E pinentry :
             Return(Ok([target |-> None, pinentry |-> pinentry]))
        \/ \E pinentry : List(Status.sig_created, None, pinentry)
    BY DEF UseKey
  <1>3. CASE Return(Err("GpgFailed"))
    BY <1>1, <1>3, ErrorsDiffer, OtherReturns
  <1>4. ASSUME NEW pinentry,
               Return(Ok([target |-> None, pinentry |-> pinentry]))
        PROVE  GpgInv'
    BY <1>1, <1>4, ErrorsDiffer, OtherReturns
  <1>5. ASSUME NEW pinentry, List(Status.sig_created, None, pinentry)
        PROVE  GpgInv'
    BY <1>1, <1>5, ListStep
  <1>6. QED
    BY <1>2, <1>3, <1>4, <1>5

LEMMA ProbeTargetStep ==
    ASSUME GpgInv, ProbeTarget
    PROVE  GpgInv'
  <1>1. /\ Collected("sign") /\ "sign" \in Busy /\ call.step \in Busy
        /\ call.req.op = "probe"
    BY DEF ProbeTarget, Collected, Busy
  <1>2. \/ \E variant \in {"GpgTarget", "GpgFailed"} :
             Return(Err(variant))
        \/ List(Status.sig_created, None, None)
        \/ List(None, Status.key_considered, None)
    BY DEF ProbeTarget
  <1>3. ASSUME NEW variant \in {"GpgTarget", "GpgFailed"},
               Return(Err(variant))
        PROVE  GpgInv'
    <2>1. Err(variant) # Err("GpgTimeout")
      BY ErrorsDiffer
    <2>2. QED
      BY <1>1, <1>3, <2>1, OtherReturns
  <1>4. CASE List(Status.sig_created, None, None)
    BY <1>1, <1>4, ListStep
  <1>5. CASE List(None, Status.key_considered, None)
    BY <1>1, <1>5, ListStep
  <1>6. QED
    BY <1>2, <1>3, <1>4, <1>5

LEMMA ListedStep == ASSUME GpgInv, Listed PROVE GpgInv'
  <1>1. /\ Collected("list") /\ "list" \in Busy /\ call.step \in Busy
    BY DEF Listed, Collected, Busy
  <1>2. call.req.op \in {"use", "probe", "policy"}
    BY <1>1, AdapterAssumption DEF GpgInv, CallInv, StageInv, Collected, Busy
  <1>3. \/ \E value : Return(Ok(value))
        \/ \E variant \in {"GpgTarget", "GpgFailed"} :
             Return(Err(variant))
    BY DEF Listed
  <1>4. ASSUME NEW value, Return(Ok(value)) PROVE GpgInv'
    BY <1>1, <1>2, <1>4, ErrorsDiffer, OtherReturns
  <1>5. ASSUME NEW variant \in {"GpgTarget", "GpgFailed"},
               Return(Err(variant))
        PROVE  GpgInv'
    <2>1. Err(variant) # Err("GpgTimeout")
      BY ErrorsDiffer
    <2>2. QED
      BY <1>1, <1>2, <1>5, <2>1, OtherReturns
  <1>6. QED
    BY <1>3, <1>4, <1>5

LEMMA PassphraseStep ==
    ASSUME GpgInv, UseKeyWithPassphrase
    PROVE  GpgInv'
  <1> DEFINE bad == HasFailure(ParseStatus(child.reply.lines),
                               GPG_ERR_BAD_PASSPHRASE)
             result == IF Output.exit THEN Ok("signed")
                       ELSE IF bad THEN Err("BadPassphrase")
                       ELSE Err("GpgFailed")
  <1>1. Collected("sign") /\ "sign" \in Busy /\ call.req.op = "pass"
    BY DEF UseKeyWithPassphrase, Busy
  <1>2. /\ Output.exit = child.reply.exit /\ Output.exit \in BOOLEAN
        /\ Output.lines = child.reply.lines
        /\ call.facts = {child.reply.fact} /\ PassFrank(child.reply)
    BY <1>1, OutputIsAll DEF Frank
  <1>3. Return(result)
    BY <1>2 DEF UseKeyWithPassphrase, Status
  <1>4. CASE Output.exit
    <2>1. result = Ok("signed")
      BY <1>4
    <2>2. child.reply.fact \in {"signed", "validated"}
      BY <1>2, <1>4 DEF PassFrank
    <2>3. call.facts \in {{"validated"}, {"signed"}}
      BY <1>2, <2>2
    <2> HIDE DEF result
    <2>4. QED
      BY <1>1, <1>3, <2>1, <2>3, ErrorsDiffer, StepReturns
  <1>5. CASE ~Output.exit /\ bad
    <2>1. result = Err("BadPassphrase")
      BY <1>5
    <2>2. call.facts = {"rejected"}
      BY <1>2, <1>5 DEF PassFrank
    <2> HIDE DEF result
    <2>3. QED
      BY <1>1, <1>3, <2>1, <2>2, ErrorsDiffer, StepReturns
  <1>6. CASE ~Output.exit /\ ~bad
    <2>1. result = Err("GpgFailed")
      BY <1>6
    <2>2. child.reply.fact # "rejected"
      BY <1>2, <1>6 DEF PassFrank
    <2>3. call.facts # {"rejected"}
      BY <1>2, <2>2
    <2> HIDE DEF result
    <2>4. QED
      BY <1>1, <1>3, <2>1, <2>3, ErrorsDiffer, StepReturns
  <1>7. QED
    BY <1>4, <1>5, <1>6

LEMMA KeyStateStep == ASSUME GpgInv, KeyState PROVE GpgInv'
  <1> DEFINE info == ParseKeyinfo(child.reply.lines)
  <1>1. Collected("agent") /\ "agent" \in Busy /\ call.req.op = "state"
    BY DEF KeyState, Busy
  <1>2. /\ Output.exit = child.reply.exit /\ Output.exit \in BOOLEAN
        /\ Output.lines = child.reply.lines
        /\ call.facts = {child.reply.fact}
        /\ AgentFrank(call.req, child.reply)
    BY <1>1, OutputIsAll DEF Frank
  <1>3. AgentReply = IF child.reply.exit
                       THEN ParseAgentReply(child.reply.lines)
                       ELSE [kind |-> "failed"]
    BY <1>2 DEF AgentReply
  <1>4. \/ /\ HasCode(AgentReply, GPG_ERR_NOT_FOUND)
           /\ Return(Ok([cached |-> FALSE, protection |-> "unknown"]))
        \/ Return(Err("AgentCommand"))
        \/ /\ AgentReply.kind = "ok" /\ info # None
           /\ Return(Ok(info))
    BY <1>2 DEF KeyState
  <1>5. CASE /\ HasCode(AgentReply, GPG_ERR_NOT_FOUND)
             /\ Return(Ok([cached |-> FALSE,
                                   protection |-> "unknown"]))
    <2>1. child.reply.exit
      BY <1>3, <1>5 DEF HasCode
    <2>2. child.reply.fact = "cold"
      BY <1>1, <1>2, <1>3, <1>5, <2>1 DEF AgentFrank
    <2> DEFINE state == [cached |-> FALSE, protection |-> "unknown"]
    <2>3. state.cached = FALSE /\ Return(Ok(state))
      BY <1>5
    <2> HIDE DEF state
    <2>4. Ok(state).value = state /\ Ok(state) # Err("GpgTimeout")
      BY ErrorsDiffer
    <2>5. call.facts = {IF Ok(state).value.cached THEN "hot" ELSE "cold"}
      BY <1>2, <2>2, <2>3, <2>4
    <2>6. QED
      BY <1>1, <2>3, <2>4, <2>5, StepReturns
  <1>6. CASE Return(Err("AgentCommand"))
    <2>1. /\ Err("AgentCommand").ok = FALSE
          /\ Err("AgentCommand") # Err("GpgTimeout")
      BY ErrorsDiffer
    <2>2. QED
      BY <1>1, <1>6, <2>1, StepReturns
  <1>7. CASE /\ AgentReply.kind = "ok" /\ info # None
             /\ Return(Ok(info))
    <2>1. /\ child.reply.exit
          /\ ParseAgentReply(child.reply.lines).kind = "ok"
      BY <1>3, <1>7
    <2>2. child.reply.fact = IF info.cached THEN "hot" ELSE "cold"
      BY <1>1, <1>2, <1>7, <2>1 DEF AgentFrank
    <2> HIDE DEF info
    <2>3. Ok(info).value = info /\ Ok(info) # Err("GpgTimeout")
      BY ErrorsDiffer
    <2>4. call.facts = {IF Ok(info).value.cached THEN "hot" ELSE "cold"}
      BY <1>2, <2>2, <2>3
    <2>5. QED
      BY <1>1, <1>7, <2>3, <2>4, StepReturns
  <1>8. QED
    BY <1>4, <1>5, <1>6, <1>7

LEMMA ClearPassphraseStep ==
    ASSUME GpgInv, ClearPassphrase
    PROVE  GpgInv'
  <1>1. Collected("agent") /\ "agent" \in Busy /\ call.req.op = "clear"
    BY DEF ClearPassphrase, Busy
  <1>2. /\ Output.exit = child.reply.exit /\ Output.exit \in BOOLEAN
        /\ Output.lines = child.reply.lines
        /\ call.facts = {child.reply.fact}
        /\ AgentFrank(call.req, child.reply)
    BY <1>1, OutputIsAll DEF Frank
  <1>3. CASE AgentReply.kind = "ok"
    <2>1. /\ child.reply.exit
          /\ ParseAgentReply(child.reply.lines).kind = "ok"
      BY <1>2, <1>3 DEF AgentReply
    <2>2. call.facts = {"cleared"}
      BY <1>1, <1>2, <2>1 DEF AgentFrank
    <2>3. Return(Ok("cleared"))
      BY <1>3 DEF ClearPassphrase
    <2>4. QED
      BY <1>1, <2>2, <2>3, ErrorsDiffer, StepReturns
  <1>4. CASE AgentReply.kind # "ok"
    <2>1. Return(Err("AgentCommand"))
      BY <1>4 DEF ClearPassphrase
    <2>2. /\ Err("AgentCommand").ok = FALSE
          /\ Err("AgentCommand") # Err("GpgTimeout")
      BY ErrorsDiffer
    <2>3. QED
      BY <1>1, <2>1, <2>2, StepReturns
  <1>5. QED
    BY <1>3, <1>4

LEMMA CachePolicyStep ==
    ASSUME GpgInv, CachePolicy
    PROVE  GpgInv'
  <1>1. /\ Collected("gpgconf") /\ "gpgconf" \in Busy
        /\ call.step = "gpgconf"
    BY DEF CachePolicy, Collected, Busy
  <1>2. call.req.op \in {"use", "probe", "policy"}
    BY <1>1, AdapterAssumption DEF GpgInv, CallInv, StageInv, Busy
  <1>3. \/ \E value : Return(Ok(value))
        \/ Return(Err("CachePolicy"))
    BY DEF CachePolicy
  <1>4. ASSUME NEW value, Return(Ok(value)) PROVE GpgInv'
    BY <1>1, <1>2, <1>4, ErrorsDiffer, OtherReturns
  <1>5. CASE Return(Err("CachePolicy"))
    <2>1. Err("CachePolicy") # Err("GpgTimeout")
      BY ErrorsDiffer
    <2>2. QED
      BY <1>1, <1>2, <1>5, <2>1, OtherReturns
  <1>6. QED
    BY <1>3, <1>4, <1>5

LEMMA StutterStep == ASSUME GpgInv, UNCHANGED gpgVars PROVE GpgInv'
  BY DEF gpgVars, GpgInv, CallInv, StageInv, PipesInv, ReplyInv, Frank,
         AgentFrank, PassFrank, AgentIsBelieved, StateIsTheAgents,
         ClearMeansCleared, RejectionIsTold, ChildrenEndWell,
         NoChildLeft, OnlySlowIsKilled, Done, ChildSet, Shaped

LEMMA NextPreserves ==
    ASSUME GpgInv, [GpgNext]_gpgVars
    PROVE  GpgInv'
  <1>1. ASSUME Concludes PROVE GpgInv'
    BY <1>1, UseKeyStep, ProbeTargetStep, ListedStep, PassphraseStep,
       KeyStateStep, ClearPassphraseStep, CachePolicyStep DEF Concludes
  <1>2. ASSUME GpgNext PROVE GpgInv'
    BY <1>1, <1>2, StartStep, TakeStep, SpawnErrorStep, ActStep, WriteStep,
       ExitStep, HeirLeavesStep, CacheChangesStep, DrainStep, ReapStep,
       DeadlineStep DEF GpgNext
  <1>3. QED
    BY <1>2, StutterStep

(* Every reachable state of the adapter: no piece of a reply is lost on    *)
(* its way, and a reply that was read tells what the child has done.       *)
THEOREM RepliesAreWhole == GpgSpec => []GpgInv
  <1>1. GpgInit => GpgInv
    BY InitEstablishes
  <1>2. GpgInv /\ [GpgNext]_gpgVars => GpgInv'
    BY NextPreserves
  <1>3. QED
    BY <1>1, <1>2, PTL DEF GpgSpec

(* key_state and clear_passphrase believe the agent's last line and no     *)
(* more: a refusal, a system error or a reply cut short is no success.     *)
THEOREM LastLineIsBelieved ==
    GpgSpec => []AgentIsBelieved
  <1>1. GpgInv => AgentIsBelieved
    BY DEF GpgInv
  <1>2. QED
    BY <1>1, RepliesAreWhole, PTL

(* use_key_with_passphrase says "bad passphrase" if and only if gpg, which *)
(* answered in full, rejected it.                                          *)
THEOREM RejectionIsReported ==
    GpgSpec => []RejectionIsTold
  <1>1. GpgInv => RejectionIsTold
    BY DEF GpgInv
  <1>2. QED
    BY <1>1, RepliesAreWhole, PTL

(* Together: whatever an operation reports of the agent or of a passphrase *)
(* happened during the call.                                               *)
THEOREM ReportsStayTrue ==
    GpgSpec => []ReportsAreTrue
  <1>1. AgentIsBelieved /\ RejectionIsTold => ReportsAreTrue
    BY DEF ReportsAreTrue
  <1>2. QED
    BY <1>1, LastLineIsBelieved, RejectionIsReported, PTL

(* wait_with_timeout and its drains: no operation leaves a child behind,   *)
(* or kills one that would have ended, however much it writes to a pipe of *)
(* whatever size.                                                          *)
THEOREM ChildrenAreWaitedFor ==
    GpgSpec => []ChildrenEndWell
  <1>1. GpgInv => ChildrenEndWell
    BY DEF GpgInv
  <1>2. QED
    BY <1>1, RepliesAreWhole, PTL

(***************************************************************************)
(* The target: what keyhold reads of the listing and of a status.          *)
(***************************************************************************)

(* What the listing has on a key, as keyhold reads it.                     *)
Record(p) == KeyRecord(Row(p))

(* A block as it is read is one of the ring: its primary, then the others. *)
ReadsBlock(block, B) ==
    /\ \E m \in Nat \ {0} : DOMAIN block = 1 .. m
    /\ Head(block) = block[1]
    /\ \A n \in DOMAIN block : \E i \in DOMAIN ring[B] :
         block[n] = Record(<<B, i>>) /\ (n = 1 <=> i = 1)
    /\ \A i \in DOMAIN ring[B] : \E n \in DOMAIN block :
         block[n] = Record(<<B, i>>)

(* A stretch of a sequence.                                                *)
LEMMA SubSeqIs ==
    ASSUME NEW n \in Nat, NEW s, DOMAIN s = 1 .. n,
           NEW b \in 1 .. n, NEW e \in 1 .. n, b <= e
    PROVE  /\ DOMAIN SubSeq(s, b, e) = 1 .. (e - b + 1)
           /\ \A i \in 1 .. (e - b + 1) : SubSeq(s, b, e)[i] = s[b + i - 1]
           /\ Head(SubSeq(s, b, e)) = s[b]
  OBVIOUS

(* The places that are listed: all keys of a block or none.                *)
ListedPlaces(selector) ==
    {p \in PlacesIn(ring) : \/ selector = None
                            \/ ToSet(ring[p[1]]) \cap Named(selector) # {}}

(* parse_key_blocks gets the blocks of the ring back from a listing, be it *)
(* of all or of what a selector names: whatever starts at a primary is one *)
(* block, with each of its keys and no other.                              *)
THEOREM BlockIs ==
    ASSUME ring \in Rings, NEW selector,
           NEW b \in DOMAIN ParseKeyBlocks(Listing(selector))
    PROVE  \E B \in DOMAIN ring :
             ReadsBlock(ParseKeyBlocks(Listing(selector))[b], B)
  <1> DEFINE P == ListedPlaces(selector)
             at == InOrder(P)
             n == Cardinality(P)
             rows == Listing(selector)
             records == [i \in DOMAIN rows |-> KeyRecord(rows[i])]
             starts == {i \in DOMAIN rows : records[i].primary}
             upto == {i \in DOMAIN rows :
                        b <= i /\ \A c \in starts : c <= b \/ i < c}
             e == Max(upto)
             block == ParseKeyBlocks(rows)[b]
  <1>1. /\ IsFiniteSet(P) /\ \A p \in P : Place(p)
        /\ P \subseteq PlacesIn(ring)
        /\ \A p \in P : \A i \in DOMAIN ring[p[1]] : <<p[1], i>> \in P
    <2>1. P \in SUBSET PlacesIn(ring)
      BY DEF ListedPlaces
    <2>2. IsFiniteSet(P) /\ \A p \in P : Place(p)
      BY <2>1, PlacesAre, FS_Subset
    <2>3. ASSUME NEW p \in P, NEW i \in DOMAIN ring[p[1]]
          PROVE  <<p[1], i>> \in P
      <3>1. p[1] \in DOMAIN ring
        BY <2>1, PlacesAre
      <3>2. <<p[1], i>> \in PlacesIn(ring)
        BY <3>1, PlacesAre
      <3>3. QED
        BY <3>2 DEF ListedPlaces
    <2>4. QED
      BY <2>1, <2>2, <2>3
  <1>2. rows = [i \in DOMAIN at |-> Row(at[i])]
    BY DEF Listing, ListedPlaces
  <1> HIDE DEF P
  <1>3. /\ n \in Nat /\ DOMAIN at = 1 .. n
        /\ \A i \in 1 .. n : at[i] \in P
        /\ \A p \in P : \E i \in 1 .. n : at[i] = p
        /\ \A i, j \in 1 .. n : i < j => Before(at[i], at[j])
    BY <1>1, InOrderIs
  <1> HIDE DEF at, n
  <1>4. /\ DOMAIN rows = 1 .. n
        /\ \A i \in 1 .. n : rows[i] = Row(at[i])
    BY <1>2, <1>3
  <1>5. /\ DOMAIN ParseKeyBlocks(rows) = starts
        /\ block = SubSeq(records, b, e)
    <2>1. ParseKeyBlocks(rows) =
            [c \in starts |->
               SubSeq(records, c,
                      Max({i \in DOMAIN rows :
                             c <= i /\ \A d \in starts : d <= c \/ i < d}))]
      BY DEF ParseKeyBlocks
    <2> HIDE DEF starts, records
    <2>2. b \in starts
      BY <2>1
    <2>3. QED
      BY <2>1, <2>2
  <1> HIDE DEF rows
  <1>6. /\ DOMAIN records = 1 .. n
        /\ \A i \in 1 .. n : records[i] = Record(at[i])
    BY <1>4 DEF Record
  <1>7. \A i \in 1 .. n : records[i].primary <=> at[i][2] = 1
    <2>1. \A p : Record(p).primary = (Row(p).tag = "sec")
      BY DEF Record, KeyRecord
    <2>2. \A p : Row(p).tag = IF p[2] = 1 THEN "sec" ELSE "ssb"
      BY DEF Row
    <2>3. \A p : Record(p).primary <=> p[2] = 1
      BY <2>1, <2>2
    <2>4. QED
      BY <1>6, <2>3
  <1> HIDE DEF records
  <1>8. starts = {i \in 1 .. n : at[i][2] = 1}
    BY <1>4, <1>7
  <1>9. /\ \A i \in 1 .. n : /\ at[i] = <<at[i][1], at[i][2]>>
                            /\ at[i][1] \in DOMAIN ring
                            /\ at[i][1] \in Int /\ at[i][2] \in Int
                            /\ at[i][2] \in DOMAIN ring[at[i][1]]
                            /\ at[i][2] >= 1
                            /\ at[i][2] <= Len(ring[at[i][1]])
    <2>1. ASSUME NEW i \in 1 .. n
          PROVE  /\ at[i] = <<at[i][1], at[i][2]>>
                 /\ at[i][1] \in DOMAIN ring
                 /\ at[i][1] \in Int /\ at[i][2] \in Int
                 /\ at[i][2] \in DOMAIN ring[at[i][1]]
                 /\ at[i][2] >= 1
                 /\ at[i][2] <= Len(ring[at[i][1]])
      <3>1. at[i] \in PlacesIn(ring)
        BY <1>1, <1>3
      <3>2. /\ Place(at[i]) /\ at[i][1] \in DOMAIN ring
            /\ at[i][2] \in DOMAIN ring[at[i][1]]
        BY <3>1, PlacesAre
      <3>3. DOMAIN ring[at[i][1]] = 1 .. Len(ring[at[i][1]])
        BY <3>2, KeyringIs
      <3>4. QED
        BY <3>2, <3>3 DEF Place
    <2>2. QED
      BY <2>1
  <1>10. b \in 1 .. n /\ at[b][2] = 1
    <2>1. b \in starts
      BY <1>5 DEF rows
    <2> HIDE DEF starts
    <2>2. QED
      BY <1>8, <2>1
  <1> DEFINE B == at[b][1]
             last == Len(ring[B])
  <1>11. /\ B \in DOMAIN ring /\ B \in Int
         /\ last \in Nat \ {0} /\ DOMAIN ring[B] = 1 .. last
         /\ \A i \in 1 .. last : <<B, i>> \in P
    <2>1. at[b] \in P /\ B \in DOMAIN ring /\ B \in Int
      BY <1>3, <1>9, <1>10
    <2>2. last \in Nat \ {0} /\ DOMAIN ring[B] = 1 .. last
      BY <2>1, KeyringIs
    <2>3. QED
      BY <1>1, <2>1, <2>2
  <1>12. PICK z \in 1 .. n : at[z] = <<B, last>>
    <2>1. last \in 1 .. last
      BY <1>11
    <2>2. <<B, last>> \in P
      BY <1>11, <2>1
    <2> HIDE DEF B, last
    <2>3. QED
      BY <1>3, <2>2
  <1>13. \A i, j \in 1 .. n : i < j => \/ at[i][1] < at[j][1]
                                       \/ /\ at[i][1] = at[j][1]
                                          /\ at[i][2] < at[j][2]
    BY <1>3 DEF Before
  <1>14. at[z][1] = B /\ at[z][2] = last
    BY <1>12
  <1> HIDE DEF B, last
  <1>15. at[b][1] = B
    BY DEF B
  <1>16. b <= z
    <2>1. b \in Int /\ z \in Int /\ 1 <= last /\ last \in Int /\ B \in Int
      BY <1>3, <1>10, <1>11
    <2>2. ~(z < b)
      BY <1>10, <1>13, <1>14, <1>15, <2>1
    <2>3. QED
      BY <2>1, <2>2
  <1>17. \A i \in 1 .. n : b <= i /\ i <= z => at[i][1] = B
    <2>1. ASSUME NEW i \in 1 .. n, b < i, i < z
          PROVE  at[i][1] = B
      <3>1. B <= at[i][1]
        BY <2>1, <1>9, <1>10, <1>13, <1>15
      <3>2. at[i][1] <= B
        BY <2>1, <1>9, <1>12, <1>13, <1>14
      <3>3. QED
        BY <3>1, <3>2, <1>9, <1>11
    <2>2. QED
      BY <1>3, <1>10, <1>14, <1>15, <2>1
  <1>18. e = z
    <2>1. z \in upto
      <3>1. ASSUME NEW c \in starts, b < c, c <= z
            PROVE  FALSE
        <4>1. c \in 1 .. n /\ at[c][2] = 1
          BY <1>8, <3>1
        <4> HIDE DEF starts
        <4>2. at[c][1] = B
          <5>1. b <= c /\ c <= z
            BY <1>3, <1>10, <3>1, <4>1
          <5>2. QED
            BY <1>17, <4>1, <5>1
        <4>3. QED
          BY <1>9, <1>10, <1>11, <1>13, <1>15, <3>1, <4>1, <4>2
      <3>2. starts \subseteq Int /\ b \in Int /\ z \in Int
        BY <1>8, <1>10
      <3>3. \A c \in starts : c <= b \/ z < c
        BY <3>1, <3>2
      <3>4. QED
        BY <1>4, <1>16, <3>3
    <2>2. ASSUME NEW i \in upto, z < i
          PROVE  FALSE
      <3>1. i \in 1 .. n /\ b <= i
        BY <1>4
      <3>2. B < at[i][1]
        <4>1. B <= at[i][1] /\ (at[i][1] = B => last < at[i][2])
          BY <1>9, <1>11, <1>13, <1>14, <2>2, <3>1
        <4>2. at[i][1] # B
          <5>1. at[i][1] = B => at[i][2] <= last
            BY <1>9, <3>1 DEF last
          <5>2. QED
            BY <1>9, <1>11, <3>1, <4>1, <5>1
        <4>3. QED
          BY <1>9, <1>11, <3>1, <4>1, <4>2
      <3>3. 1 \in DOMAIN ring[at[i][1]]
        BY <1>9, <3>1, KeyringIs
      <3>4. <<at[i][1], 1>> \in P
        BY <1>1, <1>3, <3>1, <3>3
      <3>5. PICK c \in 1 .. n : at[c] = <<at[i][1], 1>>
        BY <1>3, <3>4
      <3>6. at[c][1] = at[i][1] /\ at[c][2] = 1
        BY <3>5
      <3>7. c \in starts
        BY <1>8, <3>6
      <3>8. ~(i < c)
        BY <1>9, <1>13, <3>1, <3>6
      <3>9. ~(c <= b)
        <4>1. c = b => FALSE
          BY <1>9, <1>11, <1>15, <3>1, <3>2, <3>6
        <4>2. c < b => FALSE
          BY <1>9, <1>10, <1>11, <1>13, <1>15, <3>1, <3>2, <3>6
        <4>3. QED
          BY <1>10, <4>1, <4>2
      <3>10. c <= b \/ i < c
        BY <3>7
      <3>11. QED
        BY <3>8, <3>9, <3>10
    <2>3. upto \in SUBSET Int /\ \A i \in upto : i <= z
      <3>1. upto \subseteq 1 .. n
        BY <1>4
      <3>2. QED
        BY <2>2, <3>1
    <2> HIDE DEF upto
    <2>4. QED
      BY <2>1, <2>3, MaxIs
  <1>19. /\ DOMAIN block = 1 .. (z - b + 1) /\ Head(block) = records[b]
         /\ \A i \in 1 .. (z - b + 1) : block[i] = records[b + i - 1]
    <2>1. block = SubSeq(records, b, z)
      BY <1>5, <1>18
    <2>2. /\ n \in Nat /\ DOMAIN records = 1 .. n
          /\ b \in 1 .. n /\ z \in 1 .. n /\ b <= z
      BY <1>3, <1>6, <1>10, <1>12, <1>16
    <2> HIDE DEF block
    <2>3. /\ DOMAIN SubSeq(records, b, z) = 1 .. (z - b + 1)
          /\ \A i \in 1 .. (z - b + 1) :
               SubSeq(records, b, z)[i] = records[b + i - 1]
          /\ Head(SubSeq(records, b, z)) = records[b]
      BY <2>2, SubSeqIs
    <2>4. QED
      BY <2>1, <2>3
  <1> HIDE DEF block
  <1>20. z - b + 1 \in Nat \ {0}
    BY <1>10, <1>12, <1>16
  <1>21. \A i \in 1 .. (z - b + 1) : b + i - 1 \in 1 .. n
    BY <1>3, <1>10, <1>12, <1>16
  <1>22. Head(block) = block[1]
    <2>1. 1 \in 1 .. (z - b + 1) /\ b + 1 - 1 = b
      BY <1>10, <1>20
    <2>2. QED
      BY <1>19, <2>1
  <1>23. ASSUME NEW i \in 1 .. (z - b + 1)
         PROVE  \E k \in DOMAIN ring[B] :
                  block[i] = Record(<<B, k>>) /\ (i = 1 <=> k = 1)
    <2> DEFINE j == b + i - 1
    <2>1. /\ j \in 1 .. n /\ b <= j /\ j <= z /\ block[i] = records[j]
          /\ (i = 1 <=> j = b)
      <3>1. j \in 1 .. n /\ block[i] = records[j]
        BY <1>19, <1>21
      <3>2. b \in Int /\ z \in Int /\ i \in Int /\ 1 <= i /\ i <= z - b + 1
        BY <1>3, <1>10, <1>12
      <3>3. QED
        BY <3>1, <3>2
    <2> HIDE DEF j
    <2>2. at[j][1] = B
      BY <1>17, <2>1
    <2>3. at[j] = <<B, at[j][2]>> /\ at[j][2] \in DOMAIN ring[B]
      BY <1>9, <2>1, <2>2
    <2>4. block[i] = Record(<<B, at[j][2]>>)
      BY <1>6, <2>1, <2>3
    <2>5. j = b <=> at[j][2] = 1
      <3>1. b < j => at[j][2] # 1
        BY <1>9, <1>10, <1>11, <1>13, <1>15, <2>1, <2>2
      <3>2. QED
        BY <1>10, <2>1, <3>1
    <2>6. QED
      BY <2>1, <2>3, <2>4, <2>5
  <1>24. ASSUME NEW k \in DOMAIN ring[B]
         PROVE  \E i \in 1 .. (z - b + 1) : block[i] = Record(<<B, k>>)
    <2>1. k \in 1 .. last /\ <<B, k>> \in P
      BY <1>11
    <2>2. PICK j \in 1 .. n : at[j] = <<B, k>>
      BY <1>3, <2>1
    <2>3. at[j][1] = B /\ at[j][2] = k
      BY <2>2
    <2>4. b <= j
      BY <1>9, <1>10, <1>11, <1>13, <1>15, <2>1, <2>3
    <2>5. j <= z
      BY <1>9, <1>11, <1>13, <1>14, <2>1, <2>3
    <2>6. j - b + 1 \in 1 .. (z - b + 1) /\ b + (j - b + 1) - 1 = j
      BY <1>10, <2>4, <2>5
    <2>7. block[j - b + 1] = Record(<<B, k>>)
      BY <1>6, <1>19, <2>2, <2>6
    <2>8. QED
      BY <2>6, <2>7
  <1>25. ReadsBlock(block, B)
    BY <1>19, <1>20, <1>22, <1>23, <1>24 DEF ReadsBlock
  <1>26. QED
    BY <1>11, <1>25 DEF block, rows

(* keyhold reads the fields of a key as gpg has them.                      *)
LEMMA RecordIs ==
    ASSUME NEW p
    PROVE  /\ Record(p).fingerprint = KeyAt(p).fpr
           /\ Record(p).keygrip = KeyAt(p).grip
           /\ Record(p).created = KeyAt(p).created
           /\ Record(p).primary <=> p[2] = 1
           /\ Record(p).usable /\ Record(p).can_sign <=> CanSign(KeyAt(p))
           /\ \A id : MatchesKeyId(Record(p), id) <=> id \in Ids(KeyAt(p))
  <1>1. /\ Row(p).keyid = KeyAt(p).keyid /\ Row(p).short = KeyAt(p).short
        /\ Row(p).created = KeyAt(p).created
        /\ Row(p).validity = KeyAt(p).validity
        /\ Row(p).caps = KeyAt(p).caps
        /\ Row(p).fpr = KeyAt(p).fpr /\ Row(p).grip = KeyAt(p).grip
        /\ Row(p).tag = IF p[2] = 1 THEN "sec" ELSE "ssb"
    BY DEF Row
  <1>2. /\ Record(p).primary = (Row(p).tag = "sec")
        /\ Record(p).keyid = Row(p).keyid /\ Record(p).short = Row(p).short
        /\ Record(p).fingerprint = Row(p).fpr
        /\ Record(p).keygrip = Row(p).grip
        /\ Record(p).created = Row(p).created
        /\ Record(p).can_sign = ("s" \in Row(p).caps)
        /\ Record(p).usable =
             (Row(p).validity \notin {"r", "e", "n", "d", "i"})
    BY DEF Record, KeyRecord
  <1>3. Record(p).primary <=> p[2] = 1
    BY <1>1, <1>2
  <1>4. Record(p).usable /\ Record(p).can_sign <=> CanSign(KeyAt(p))
    BY <1>1, <1>2 DEF CanSign
  <1>5. \A id : MatchesKeyId(Record(p), id) <=> id \in Ids(KeyAt(p))
    BY <1>1, <1>2 DEF MatchesKeyId, Ids
  <1>6. QED
    BY <1>1, <1>2, <1>3, <1>4, <1>5

(* An id names one key.                                                    *)
LEMMA OnePlace ==
    ASSUME ring \in Rings, NEW p \in PlacesIn(ring), NEW q \in PlacesIn(ring),
           NEW id, id \in Ids(KeyAt(p)), id \in Ids(KeyAt(q))
    PROVE  p = q
  BY KeyringAssumption DEF KeyAt

TargetOfKey(k) == [fingerprint |-> k.fpr, keygrip |-> k.grip]

(* What is found under the fingerprint that gpg reports is that key.       *)
LEMMA FoundIsKey ==
    ASSUME ring \in Rings, NEW selector, NEW k \in Keys,
           NEW r \in FindById(ParseKeyBlocks(Listing(selector)), k.fpr)
    PROVE  TargetOf(r) = TargetOfKey(k)
  <1> DEFINE blocks == ParseKeyBlocks(Listing(selector))
  <1>1. PICK b \in DOMAIN blocks :
          \E n \in DOMAIN blocks[b] : /\ r = blocks[b][n]
                                      /\ MatchesKeyId(r, k.fpr)
    BY DEF FindById, First
  <1>2. PICK n \in DOMAIN blocks[b] : /\ r = blocks[b][n]
                                      /\ MatchesKeyId(r, k.fpr)
    BY <1>1
  <1>3. PICK B \in DOMAIN ring : ReadsBlock(blocks[b], B)
    BY BlockIs
  <1> HIDE DEF blocks
  <1>4. PICK i \in DOMAIN ring[B] : r = Record(<<B, i>>)
    BY <1>2, <1>3 DEF ReadsBlock
  <1>5. k.fpr \in Ids(KeyAt(<<B, i>>))
    BY <1>2, <1>4, RecordIs
  <1>6. PICK p \in PlacesIn(ring) : k = KeyAt(p)
    BY PlacesAre
  <1>7. <<B, i>> \in PlacesIn(ring) /\ k.fpr \in Ids(KeyAt(p))
    BY <1>6, PlacesAre DEF Ids
  <1>8. p = <<B, i>>
    BY <1>5, <1>7, OnePlace
  <1>9. r.fingerprint = k.fpr /\ r.keygrip = k.grip
    BY <1>4, <1>6, <1>8, RecordIs
  <1>10. QED
    BY <1>9 DEF TargetOf, TargetOfKey

(* The newest signing key of a block, as keyhold chooses it, is gpg's, if  *)
(* the primary is the oldest.                                              *)
LEMMA NewestIs ==
    ASSUME ring \in Rings, NEW B \in DOMAIN ring, NEW block,
           ReadsBlock(block, B), NEW r \in Newest(block),
           \A i \in 2 .. Len(ring[B]) :
             CanSign(ring[B][1]) /\ CanSign(ring[B][i]) =>
               ring[B][1].created < ring[B][i].created
    PROVE  \E k \in SignerOfBlock(B) : TargetOf(r) = TargetOfKey(k)
  <1> DEFINE key(i) == KeyAt(<<B, i>>)
             able(i) == block[i].usable /\ block[i].can_sign
             older(s, t) == \/ Age(s) < Age(t)
                            \/ Age(s) = Age(t) /\ ~s.primary /\ t.primary
             subkeys == {k \in ToSet(Tail(ring[B])) : CanSign(k)}
  <1>1. PICK n \in DOMAIN block :
          /\ able(n) /\ r = block[n]
          /\ \A j \in DOMAIN block : able(j) => ~older(block[n], block[j])
    BY DEF Newest
  <1>2. PICK x \in DOMAIN ring[B] : block[n] = Record(<<B, x>>)
    BY <1>1 DEF ReadsBlock
  <1>3. CanSign(key(x)) /\ TargetOf(r) = TargetOfKey(key(x))
    <2>1. r.fingerprint = key(x).fpr /\ r.keygrip = key(x).grip
      BY <1>1, <1>2, RecordIs
    <2>2. CanSign(key(x))
      BY <1>1, <1>2, RecordIs
    <2>3. QED
      BY <2>1, <2>2 DEF TargetOf, TargetOfKey
  <1>4. ASSUME NEW y \in DOMAIN ring[B], CanSign(key(y))
        PROVE  ~older(Record(<<B, x>>), Record(<<B, y>>))
    <2>1. PICK j \in DOMAIN block : block[j] = Record(<<B, y>>)
      BY DEF ReadsBlock
    <2>2. able(j)
      BY <1>4, <2>1, RecordIs
    <2>3. QED
      BY <1>1, <1>2, <2>1, <2>2
  <1>5. ASSUME NEW y \in DOMAIN ring[B]
        PROVE  /\ Age(Record(<<B, y>>)) = key(y).created
               /\ key(y).created \in Nat
               /\ y > 1 /\ CanSign(key(y)) /\ CanSign(key(1)) =>
                    key(1).created < key(y).created
    <2>1. <<B, y>> \in PlacesIn(ring)
      BY PlacesAre
    <2>2. key(y).created \in Nat
      BY <2>1, KeyringAssumption DEF KeyAt
    <2>3. Age(Record(<<B, y>>)) = key(y).created
      BY <2>2, RecordIs, AdapterAssumption DEF Age
    <2>4. y > 1 => y \in 2 .. Len(ring[B])
      BY KeyringIs
    <2>5. y > 1 /\ CanSign(key(y)) /\ CanSign(key(1)) =>
            key(1).created < key(y).created
      BY <2>4 DEF KeyAt
    <2>6. QED
      BY <2>2, <2>3, <2>5
  <1>6. /\ Head(ring[B]) = key(1) /\ DOMAIN ring[B] = 1 .. Len(ring[B])
        /\ ToSet(Tail(ring[B])) = {key(i) : i \in 2 .. Len(ring[B])}
        /\ Len(ring[B]) \in Nat \ {0}
    BY KeyringIs DEF KeyAt
  <1>7. \A y \in DOMAIN ring[B] :
          CanSign(key(y)) => ~(key(x).created < key(y).created)
    BY <1>4, <1>5
  <1> HIDE DEF key, older
  <1>8. CASE x = 1
    <2>1. subkeys = {}
      <3>1. ASSUME NEW k \in subkeys PROVE FALSE
        <4>1. PICK y \in 2 .. Len(ring[B]) : k = key(y)
          BY <1>6
        <4>2. y \in DOMAIN ring[B] /\ y > 1 /\ CanSign(key(y))
          BY <1>6, <4>1
        <4>3. QED
          BY <1>3, <1>5, <1>7, <1>8, <4>2
      <3>2. QED
        BY <3>1
    <2>2. key(1) \in SignerOfBlock(B)
      BY <1>3, <1>6, <1>8, <2>1 DEF SignerOfBlock
    <2>3. QED
      BY <1>3, <1>8, <2>2
  <1>9. CASE x # 1
    <2>1. x \in 2 .. Len(ring[B])
      BY <1>6, <1>9
    <2>2. key(x) \in subkeys
      BY <1>3, <1>6, <2>1
    <2>3. ASSUME NEW l \in subkeys PROVE l.created <= key(x).created
      <3>1. PICK y \in 2 .. Len(ring[B]) : l = key(y)
        BY <1>6
      <3>2. y \in DOMAIN ring[B] /\ CanSign(key(y))
        BY <1>6, <3>1
      <3>3. key(x).created \in Nat /\ key(y).created \in Nat
        BY <1>5, <3>2
      <3>4. QED
        BY <1>7, <3>1, <3>2, <3>3
    <2>4. key(x) \in SignerOfBlock(B)
      BY <2>2, <2>3 DEF SignerOfBlock
    <2>5. QED
      BY <1>3, <2>4
  <1>10. QED
    BY <1>8, <1>9

(* default_signing_key: of a block that gpg considers for a selector, none, *)
(* an id in any form, with or without the force mark, or a user id, it     *)
(* takes a key that gpg signs with, provided there is one and, unless the  *)
(* selector is exact, primaries that sign are older than signing subkeys.  *)
LEMMA DefaultIs ==
    ASSUME ring \in Rings, NEW selector, NEW B \in Considered(selector),
           selector # None => \A p \in PlacesIn(ring) :
             selector.body \in Ids(KeyAt(p)) => selector.hex,
           Signer(selector) # {},
           Exact(selector) # {} \/ PrimaryIsOldest(selector),
           NEW block, ReadsBlock(block, B),
           NEW r \in DefaultSigningKey(block, selector)
    PROVE  \E k \in Signer(selector) : TargetOf(r) = TargetOfKey(k)
  <1> DEFINE byId == {k \in Keys : selector.body \in Ids(k)}
             named == {i \in DOMAIN block :
                         MatchesKeyId(block[i], selector.body)}
             exact == IF selector.forced /\ named = {1}
                        THEN named ELSE named \ {1}
             gpgExact == {k \in Named(selector) :
                            /\ selector.body \in Ids(k)
                            /\ selector.forced \/ ~Primary(k)}
             exactly == IF selector = None THEN {} ELSE gpgExact
  <1>1. B \in DOMAIN ring
    BY ConsideredIs
  <1>2. /\ Signer(selector) =
             IF selector # None /\ gpgExact # {}
               THEN {k \in gpgExact : CanSign(k)}
               ELSE UNION {SignerOfBlock(b) : b \in Considered(selector)}
        /\ DefaultSigningKey(block, selector) =
             IF selector = None \/ ~selector.hex \/ exact = {}
               THEN Newest(block) ELSE {block[Min(exact)]}
    <2>1. Exact(selector) = exactly
      BY DEF Exact
    <2>2. Signer(selector) =
            IF exactly # {}
              THEN {k \in exactly : CanSign(k)}
              ELSE UNION {SignerOfBlock(b) : b \in Considered(selector)}
      BY <2>1 DEF Signer
    <2> HIDE DEF gpgExact
    <2>3. QED
      BY <2>2 DEF DefaultSigningKey
  <1>3. ASSUME r \in Newest(block), selector = None \/ gpgExact = {}
        PROVE  \E k \in Signer(selector) : TargetOf(r) = TargetOfKey(k)
    <2>0. Exact(selector) = {}
      BY <1>3 DEF Exact
    <2>1. PICK k \in SignerOfBlock(B) : TargetOf(r) = TargetOfKey(k)
      BY <1>1, <1>3, <2>0, NewestIs DEF PrimaryIsOldest
    <2> HIDE DEF gpgExact
    <2>2. k \in Signer(selector)
      BY <1>2, <1>3
    <2>3. QED
      BY <2>1, <2>2
  <1>4. CASE selector = None
    BY <1>2, <1>3, <1>4
  <1>5. ASSUME NEW n \in DOMAIN block,
               MatchesKeyId(block[n], selector.body)
        PROVE  \E i \in DOMAIN ring[B] :
                 /\ block[n] = Record(<<B, i>>) /\ (n = 1 <=> i = 1)
                 /\ selector.body \in Ids(KeyAt(<<B, i>>))
                 /\ <<B, i>> \in PlacesIn(ring)
    <2>1. PICK i \in DOMAIN ring[B] :
            block[n] = Record(<<B, i>>) /\ (n = 1 <=> i = 1)
      BY DEF ReadsBlock
    <2>2. QED
      BY <1>1, <1>5, <2>1, RecordIs, PlacesAre
  <1>6. CASE selector # None /\ byId = {}
    <2>1. named = {}
      <3>1. ASSUME NEW n \in named PROVE FALSE
        <4>1. PICK i \in DOMAIN ring[B] :
                 /\ selector.body \in Ids(KeyAt(<<B, i>>))
                 /\ <<B, i>> \in PlacesIn(ring)
          BY <1>5
        <4>2. QED
          BY <1>6, <4>1, PlacesAre
      <3>2. QED
        BY <3>1
    <2>2. exact = {}
      BY <2>1
    <2>3. gpgExact = {}
      BY <1>6 DEF Named
    <2>4. r \in Newest(block)
      <3> HIDE DEF exact
      <3>1. QED
        BY <1>2, <2>2
    <2>5. QED
      BY <1>3, <2>3, <2>4
  <1>7. CASE selector # None /\ byId # {}
    <2>1. Named(selector) = byId
      BY <1>7 DEF Named
    <2>2. PICK x \in DOMAIN ring[B] : KeyAt(<<B, x>>) \in byId
      BY <1>7, <2>1, ConsideredIs
    <2> DEFINE k == KeyAt(<<B, x>>)
    <2>3. <<B, x>> \in PlacesIn(ring) /\ selector.body \in Ids(k)
      BY <1>1, <2>2, PlacesAre
    <2>4. \A p \in PlacesIn(ring) :
            selector.body \in Ids(KeyAt(p)) => p = <<B, x>>
      BY <2>3, OnePlace
    <2>5. selector.hex
      BY <1>7, <2>3
    <2>6. byId = {k}
      BY <2>2, <2>3, <2>4, PlacesAre
    <2>7. \A n \in named : /\ block[n] = Record(<<B, x>>)
                           /\ n = 1 <=> x = 1
      <3>1. ASSUME NEW n \in named
            PROVE  block[n] = Record(<<B, x>>) /\ (n = 1 <=> x = 1)
        <4>1. PICK i \in DOMAIN ring[B] :
                /\ block[n] = Record(<<B, i>>) /\ (n = 1 <=> i = 1)
                /\ selector.body \in Ids(KeyAt(<<B, i>>))
                /\ <<B, i>> \in PlacesIn(ring)
          BY <1>5
        <4>2. <<B, i>> = <<B, x>>
          BY <2>4, <4>1
        <4>3. i = x
          BY <4>2
        <4>4. QED
          BY <4>1, <4>3
      <3>2. QED
        BY <3>1
    <2>8. named # {}
      <3>1. PICK n \in DOMAIN block : block[n] = Record(<<B, x>>)
        BY DEF ReadsBlock
      <3>2. MatchesKeyId(block[n], selector.body)
        BY <2>3, <3>1, RecordIs
      <3>3. QED
        BY <3>2
    <2>9. TargetOf(Record(<<B, x>>)) = TargetOfKey(k)
      BY RecordIs DEF TargetOf, TargetOfKey
    <2>10. Primary(k) <=> x = 1
      <3>1. x = 1 => Primary(k)
        BY <1>1, KeyringIs DEF Primary, KeyAt
      <3>2. ASSUME NEW i \in DOMAIN ring, Head(ring[i]) = k
            PROVE  x = 1
        <4>1. Head(ring[i]) = KeyAt(<<i, 1>>) /\ 1 \in DOMAIN ring[i]
          BY KeyringIs DEF KeyAt
        <4>2. /\ <<i, 1>> \in PlacesIn(ring)
              /\ selector.body \in Ids(KeyAt(<<i, 1>>))
          BY <2>3, <3>2, <4>1, PlacesAre
        <4>3. <<i, 1>> = <<B, x>>
          BY <2>4, <4>2
        <4>4. QED
          BY <4>3
      <3>3. QED
        BY <3>1, <3>2 DEF Primary
    <2>11. named \in SUBSET Nat
      <3>1. DOMAIN block \subseteq Nat
        BY DEF ReadsBlock
      <3>2. QED
        BY <3>1
    <2>12. gpgExact = IF selector.forced \/ x # 1 THEN {k} ELSE {}
      BY <2>1, <2>3, <2>6, <2>10
    <2> HIDE DEF named, gpgExact, byId, k
    <2>13. CASE exact # {}
      <3>1. r = block[Min(exact)]
        BY <1>2, <1>7, <2>5, <2>13
      <3>2. exact \in SUBSET named
        OBVIOUS
      <3>3. Min(exact) \in exact
        <4>1. exact \in SUBSET Nat
          BY <2>11, <3>2
        <4>2. QED
          BY <2>13, <4>1, MinOfNats
      <3>4. r = Record(<<B, x>>)
        BY <2>7, <3>1, <3>2, <3>3
      <3>5. selector.forced \/ x # 1
        BY <2>7, <2>13
      <3>6. Signer(selector) = {j \in {k} : CanSign(j)}
        BY <1>2, <1>7, <2>12, <3>5
      <3>7. k \in Signer(selector)
        BY <3>6
      <3>8. QED
        BY <2>9, <3>4, <3>7
    <2>14. CASE exact = {}
      <3>1. r \in Newest(block)
        BY <1>2, <2>14
      <3>2. named = {1} /\ ~selector.forced
        BY <2>8, <2>14
      <3>3. x = 1
        BY <2>7, <3>2
      <3>4. gpgExact = {}
        BY <2>12, <3>2, <3>3
      <3>5. QED
        BY <1>3, <3>1, <3>4
    <2>15. QED
      BY <2>13, <2>14
  <1>8. QED
    BY <1>4, <1>6, <1>7

(* What is read of the status is in one of its lines.                      *)
LEMMA StatusIsRead ==
    ASSUME NEW T, NEW lines \in Seq(T)
    PROVE  LET status == ParseStatus(lines)
           IN  /\ status.sig_created # None =>
                    \E w \in T : /\ w.word = "SIG_CREATED"
                                 /\ w.arg = status.sig_created
               /\ status.key_considered # None =>
                    \E w \in T : /\ w.word = "KEY_CONSIDERED"
                                 /\ w.arg = status.key_considered
               /\ status.failure_code # None =>
                    \E w \in T : /\ w.word = "FAILURE"
                                 /\ w.arg = status.failure_code
  <1> DEFINE of(word) == {i \in DOMAIN lines :
                            lines[i].word = word /\ lines[i].arg # None}
             last(S) == IF S = {} THEN None ELSE lines[Max(S)].arg
             firsts == {i \in of("KEY_CONSIDERED") :
                          \A j \in of("KEY_CONSIDERED") :
                            j < i => lines[j].arg # lines[i].arg}
  <1>1. /\ ParseStatus(lines).sig_created = last(of("SIG_CREATED"))
        /\ ParseStatus(lines).key_considered = last(firsts)
        /\ ParseStatus(lines).failure_code = last(of("FAILURE"))
    BY DEF ParseStatus
  <1>2. ASSUME NEW word, NEW S \in SUBSET of(word), last(S) # None
        PROVE  \E w \in T : w.word = word /\ w.arg = last(S)
    <2>1. S # {} /\ last(S) = lines[Max(S)].arg
      BY <1>2
    <2>2. S \in SUBSET (1 .. Len(lines)) /\ Len(lines) \in Nat
      OBVIOUS
    <2> HIDE DEF last
    <2>3. Max(S) \in S
      BY <2>1, <2>2, MaxOfNats
    <2>4. lines[Max(S)] \in T /\ lines[Max(S)].word = word
      BY <2>3
    <2>5. QED
      BY <2>1, <2>4
  <1> HIDE DEF last
  <1>3. firsts \in SUBSET of("KEY_CONSIDERED")
    OBVIOUS
  <1> HIDE DEF of, firsts
  <1>4. QED
    BY <1>1, <1>2, <1>3

(* What gpg says of a signature, with which key or why not, and of the     *)
(* block whose key it did not get to.                                      *)
StatusFrank(selector, r) ==
    LET status == ParseStatus(r.lines)
    IN  /\ status.sig_created # None =>
             \E k \in Signer(selector) : status.sig_created = k.fpr
        /\ HasFailure(status, GPG_ERR_CANCELED) => Signer(selector) # {}
        /\ status.key_considered # None =>
             status.key_considered \in Heads(selector)

LEMMA SignIsFrank ==
    ASSUME ring \in Rings, NEW req, req.op \in {"probe", "use"},
           NEW r \in SignAnswers(req)
    PROVE  StatusFrank(req.key, r)
  <1> DEFINE key == req.key
             Lines == {Word("KEY_CONSIDERED", a) : a \in Heads(key)}
  <1>1. ConsideredLines(key) \in Seq(Lines)
    BY ConsideredAreLines
  <1>2. \A w \in Lines : w.word = "KEY_CONSIDERED" /\ w.arg \in Heads(key)
    BY DEF Word
  <1> HIDE DEF Lines
  <1>3. ASSUME NEW code, NEW fact, r = Failure(key, code, fact),
               Masked(code) = GPG_ERR_CANCELED => Signer(key) # {}
        PROVE  StatusFrank(key, r)
    <2> DEFINE last == Word("FAILURE", code)
               T == Lines \cup {last}
    <2>1. r.lines = ConsideredLines(key) \o <<last>>
      BY <1>3 DEF Failure, Answer
    <2>2. last.word = "FAILURE" /\ last.arg = code
      BY DEF Word
    <2> HIDE DEF last
    <2>3. r.lines \in Seq(T)
      BY <1>1, <2>1
    <2>4. \A w \in T : \/ w.word = "KEY_CONSIDERED" /\ w.arg \in Heads(key)
                       \/ w.word = "FAILURE" /\ w.arg = code
      BY <1>2, <2>2
    <2> HIDE DEF T
    <2>5. /\ ParseStatus(r.lines).sig_created = None
          /\ ParseStatus(r.lines).key_considered # None =>
               ParseStatus(r.lines).key_considered \in Heads(key)
          /\ ParseStatus(r.lines).failure_code # None =>
               ParseStatus(r.lines).failure_code = code
      BY <2>3, <2>4, StatusIsRead
    <2>6. QED
      BY <1>3, <2>5 DEF StatusFrank, HasFailure
  <1>4. ASSUME NEW k \in Signer(key), NEW pinentry, NEW fact,
               r = Signature(key, k, pinentry, fact)
        PROVE  StatusFrank(key, r)
    <2> DEFINE asks == Word("PINENTRY_LAUNCHED", None)
               last == Word("SIG_CREATED", k.fpr)
               T == Lines \cup {asks, last}
    <2>1. r.lines = ConsideredLines(key)
                      \o (IF pinentry THEN <<asks>> ELSE <<>>) \o <<last>>
      BY <1>4 DEF Signature, Answer
    <2>2. /\ last.word = "SIG_CREATED" /\ last.arg = k.fpr
          /\ asks.word = "PINENTRY_LAUNCHED"
      BY DEF Word
    <2> HIDE DEF asks, last
    <2>3. r.lines \in Seq(T)
      <3> DEFINE asked == IF pinentry THEN <<asks>> ELSE <<>>
      <3>1. asked \in Seq(T) /\ <<last>> \in Seq(T)
        <4>1. asks \in T /\ last \in T
          OBVIOUS
        <4> HIDE DEF T
        <4>2. <<asks>> \in Seq(T) /\ <<last>> \in Seq(T) /\ <<>> \in Seq(T)
          BY <4>1
        <4>3. QED
          BY <4>2
      <3>2. ConsideredLines(key) \in Seq(T)
        BY <1>1
      <3> HIDE DEF T, asked
      <3>3. QED
        BY <2>1, <3>1, <3>2 DEF asked
    <2>4. \A w \in T : \/ w.word = "KEY_CONSIDERED" /\ w.arg \in Heads(key)
                       \/ w.word = "SIG_CREATED" /\ w.arg = k.fpr
                       \/ w.word = "PINENTRY_LAUNCHED"
      BY <1>2, <2>2
    <2> HIDE DEF T
    <2>5. /\ ParseStatus(r.lines).sig_created # None =>
               ParseStatus(r.lines).sig_created = k.fpr
          /\ ParseStatus(r.lines).key_considered # None =>
               ParseStatus(r.lines).key_considered \in Heads(key)
          /\ ParseStatus(r.lines).failure_code = None
      BY <2>3, <2>4, StatusIsRead
    <2>6. QED
      BY <2>5 DEF StatusFrank, HasFailure
  <1>5. CASE r = Answer(FALSE, <<>>, entries, "failed")
    <2>1. r.lines \in Seq({})
      BY <1>5 DEF Answer
    <2>2. /\ ParseStatus(r.lines).sig_created = None
          /\ ParseStatus(r.lines).key_considered = None
          /\ ParseStatus(r.lines).failure_code = None
      BY <2>1, StatusIsRead
    <2>3. QED
      BY <2>2 DEF StatusFrank, HasFailure
  <1>6. \/ r = Failure(key, FromGpg(1), "failed")
        \/ r = Answer(FALSE, <<>>, entries, "failed")
        \/ \E k \in Signer(key) : \E pinentry \in BOOLEAN :
             r = Signature(key, k, pinentry, "signed")
        \/ /\ Signer(key) # {}
           /\ r = Failure(key, FromGpg(GPG_ERR_CANCELED), "locked")
    BY DEF SignAnswers
  <1>7. Masked(FromGpg(1)) # GPG_ERR_CANCELED
    BY DEF Masked, FromGpg, GPG_ERR_CANCELED
  <1>8. QED
    BY <1>3, <1>4, <1>5, <1>6, <1>7

(* gpg signs with keys of the ring.                                        *)
LEMMA SignersAreKeys ==
    ASSUME ring \in Rings, NEW selector
    PROVE  Signer(selector) \subseteq Keys
  <1>1. \A b \in Considered(selector) : SignerOfBlock(b) \subseteq Keys
    <2>1. ASSUME NEW b \in Considered(selector)
          PROVE  SignerOfBlock(b) \subseteq Keys
      <3>1. b \in DOMAIN ring
        BY ConsideredIs
      <3>2. /\ DOMAIN ring[b] = 1 .. Len(ring[b]) /\ Len(ring[b]) \in Nat \ {0}
            /\ Head(ring[b]) = ring[b][1]
            /\ ToSet(Tail(ring[b])) = {ring[b][i] : i \in 2 .. Len(ring[b])}
        BY <3>1, KeyringIs
      <3>3. SignerOfBlock(b) \subseteq
              {ring[b][1]} \cup {ring[b][i] : i \in 2 .. Len(ring[b])}
        BY <3>2 DEF SignerOfBlock
      <3>4. \A i \in DOMAIN ring[b] : ring[b][i] \in ToSet(ring[b])
        BY DEF ToSet
      <3>5. ToSet(ring[b]) \subseteq Keys
        BY <3>1 DEF Keys
      <3>6. QED
        BY <3>2, <3>3, <3>4, <3>5
    <2>2. QED
      BY <2>1
  <1>2. Named(selector) \subseteq Keys
    BY DEF Named
  <1>3. QED
    BY <1>1, <1>2 DEF Signer, Exact

(* The selector whose keys are listed in the second child.                 *)
Selected(c) ==
    IF c.req.op = "probe" /\ c.signed = None THEN c.req.key ELSE None

(* Why a listing is asked for.                                             *)
ListFrank(c) ==
    IF c.signed # None
      THEN \E k \in Signer(c.req.key) : c.signed = k.fpr
      ELSE /\ c.req.op = "probe"
           /\ Signer(c.req.key) # {}
           /\ c.considered \in Heads(c.req.key)

(* Whether a target is the key that gpg signs with.                        *)
SignerNamed(c, target) ==
    LET key == c.req.key
    IN  IF c.signed # None
          THEN \E k \in Signer(key) :
                 k.fpr = c.signed /\ target = TargetOfKey(k)
          ELSE Exact(key) # {} \/ PrimaryIsOldest(key) =>
                 \E k \in Signer(key) : target = TargetOfKey(k)

(* What is found in gpg's listing is the key that gpg signs with.          *)
LEMMA ListedIsSigner ==
    ASSUME ring \in Rings, call.req \in Requests,
           call.req.op \in {"probe", "use"}, ListFrank(call),
           NEW r \in ListedTarget(Listing(Selected(call)))
    PROVE  SignerNamed(call, TargetOf(r))
  <1> DEFINE key == call.req.key
             blocks == ParseKeyBlocks(Listing(Selected(call)))
  <1>1. CASE call.signed # None
    <2>1. PICK k \in Signer(key) : call.signed = k.fpr
      BY <1>1 DEF ListFrank
    <2>2. r \in FindById(blocks, k.fpr)
      BY <1>1, <2>1 DEF ListedTarget
    <2>3. k \in Keys
      BY SignersAreKeys
    <2>4. TargetOf(r) = TargetOfKey(k)
      BY <2>2, <2>3, FoundIsKey
    <2>5. QED
      BY <1>1, <2>1, <2>4 DEF SignerNamed
  <1>2. CASE call.signed = None
    <2>1. Signer(key) # {} /\ call.considered \in Heads(key)
      BY <1>2 DEF ListFrank
    <2>2. PICK C \in Considered(key) : call.considered = Head(ring[C]).fpr
      BY <2>1 DEF Heads
    <2>3. PICK b \in DOMAIN blocks :
            /\ Head(blocks[b]).fingerprint = call.considered
            /\ r \in DefaultSigningKey(blocks[b], key)
      BY <1>2 DEF ListedTarget, First
    <2>4. PICK B \in DOMAIN ring : ReadsBlock(blocks[b], B)
      BY BlockIs
    <2> HIDE DEF blocks
    <2>5. Head(blocks[b]) = Record(<<B, 1>>)
      <3>1. Head(blocks[b]) = blocks[b][1] /\ 1 \in DOMAIN blocks[b]
        BY <2>4 DEF ReadsBlock
      <3>2. QED
        BY <2>4, <3>1 DEF ReadsBlock
    <2>6. C = B
      <3>1. C \in DOMAIN ring
        BY ConsideredIs
      <3>2. /\ Head(ring[C]) = KeyAt(<<C, 1>>)
            /\ 1 \in DOMAIN ring[C] /\ 1 \in DOMAIN ring[B]
        BY <3>1, KeyringIs DEF KeyAt
      <3>3. /\ <<C, 1>> \in PlacesIn(ring) /\ <<B, 1>> \in PlacesIn(ring)
        BY <3>1, <3>2, PlacesAre
      <3>4. KeyAt(<<B, 1>>).fpr = KeyAt(<<C, 1>>).fpr
        BY <2>2, <2>3, <2>5, <3>2, RecordIs
      <3>5. <<C, 1>> = <<B, 1>>
        BY <3>3, <3>4, OnePlace DEF Ids
      <3>6. QED
        BY <3>5
    <2>7. key # None => \A p \in PlacesIn(ring) :
            key.body \in Ids(KeyAt(p)) => key.hex
      BY SelectorAssumption DEF KeyAt
    <2>8. B \in Considered(key)
      BY <2>6
    <2>9. ASSUME Exact(key) # {} \/ PrimaryIsOldest(key)
          PROVE  \E k \in Signer(key) : TargetOf(r) = TargetOfKey(k)
      BY <2>1, <2>3, <2>4, <2>7, <2>8, <2>9, DefaultIs
    <2>10. QED
      BY <1>2, <2>9 DEF SignerNamed
  <1>3. QED
    BY <1>1, <1>2

(* What gpg chooses depends on the ring alone, which no step changes.      *)
LEMMA KeysKept == ring' = ring => Keys' = Keys
  BY DEF Keys

LEMMA NamedKept ==
    ASSUME ring' = ring, NEW selector
    PROVE  Named(selector)' = Named(selector)
  BY KeysKept DEF Named

LEMMA BlockKept ==
    ASSUME ring' = ring, NEW k
    PROVE  BlockOf(k)' = BlockOf(k)
  BY DEF BlockOf

LEMMA RingKept ==
    ASSUME ring' = ring, NEW selector
    PROVE  /\ Signer(selector)' = Signer(selector)
           /\ Heads(selector)' = Heads(selector)
           /\ Listing(selector)' = Listing(selector)
           /\ Exact(selector)' = Exact(selector)
           /\ PrimaryIsOldest(selector)' = PrimaryIsOldest(selector)
  <1>1. \A b : SignerOfBlock(b)' = SignerOfBlock(b)
    BY DEF SignerOfBlock
  <1>2. Named(selector)' = Named(selector)
    BY NamedKept
  <1>3. Considered(selector)' = Considered(selector)
    BY <1>1, <1>2, BlockKept DEF Considered
  <1>4. \A k : Primary(k)' = Primary(k)
    BY DEF Primary
  <1>5. Exact(selector)' = Exact(selector)
    BY <1>2, <1>4 DEF Exact
  <1>6. Signer(selector)' = Signer(selector)
    BY <1>1, <1>3, <1>5 DEF Signer
  <1>7. Heads(selector)' = Heads(selector)
    BY <1>3 DEF Heads
  <1>8. Listing(selector)' = Listing(selector)
    BY <1>2 DEF Listing, Row, KeyAt, PlacesIn
  <1>9. PrimaryIsOldest(selector)' = PrimaryIsOldest(selector)
    BY <1>3 DEF PrimaryIsOldest
  <1>10. QED
    BY <1>5, <1>6, <1>7, <1>8, <1>9

(***************************************************************************)
(* The target, step by step.                                               *)
(***************************************************************************)

(* The child of a probe or a use tells what gpg signs with and has.        *)
AnswerFrank(c, r) ==
    /\ Shaped(r)
    /\ c.step = "sign" => StatusFrank(c.req.key, r)
    /\ c.step = "list" /\ r.exit => r.lines = Listing(Selected(c))

(* A probe or a use, at its first child or its second.                     *)
QuestionInv ==
    call.step \in Busy /\ call.req.op \in {"probe", "use"} =>
      /\ call.step \in {"sign", "list"}
      /\ call.step = "list" => ListFrank(call)
      /\ child.proc # "started" => AnswerFrank(call, child.reply)

(* It is not inductive without GpgInv, which says that all was read.       *)
TargetInv == QuestionInv /\ TargetIsSigner

(* It stays true of an answer while the ring stays.                        *)
LEMMA FrankKept ==
    ASSUME ring' = ring, NEW selector, NEW r, NEW c
    PROVE  /\ StatusFrank(selector, r)' <=> StatusFrank(selector, r)
           /\ ListFrank(c)' <=> ListFrank(c)
           /\ AnswerFrank(c, r)' <=> AnswerFrank(c, r)
  <1>1. ASSUME NEW s
        PROVE  StatusFrank(s, r)' <=> StatusFrank(s, r)
    BY RingKept DEF StatusFrank
  <1>2. ListFrank(c)' <=> ListFrank(c)
    BY RingKept DEF ListFrank
  <1>3. Listing(Selected(c))' = Listing(Selected(c))
    BY RingKept DEF Selected
  <1>4. AnswerFrank(c, r)' <=> AnswerFrank(c, r)
    BY <1>1, <1>3 DEF AnswerFrank, Shaped
  <1>5. QED
    BY <1>1, <1>2, <1>4

(* The call and what its child has said stay.                              *)
LEMMA AnswerStands ==
    ASSUME TargetInv, ring' = ring, call' = call,
           call.step \in Busy /\ call.req.op \in {"probe", "use"} =>
             \/ child'.proc = "started"
             \/ child.proc # "started" /\ child'.reply = child.reply
    PROVE  TargetInv'
  <1>1. QuestionInv'
    BY FrankKept DEF TargetInv, QuestionInv
  <1>2. TargetIsSigner'
    BY RingKept DEF TargetInv, TargetIsSigner, Done
  <1>3. QED
    BY <1>1, <1>2 DEF TargetInv

(* The child goes on, or another uses the agent.                           *)
LEMMA WorldTargetStep ==
    ASSUME GpgInv, TargetInv,
           \/ \E p \in Pipes : Write(p) \/ DrainPipe(p)
           \/ Exit \/ Reap \/ HeirLeaves \/ CacheChanges
           \/ UNCHANGED gpgVars
    PROVE  TargetInv'
  <1>1. CASE CacheChanges \/ UNCHANGED gpgVars
    <2>1. ring' = ring /\ call' = call /\ child' = child
      BY <1>1 DEF CacheChanges, gpgVars
    <2>2. QED
      BY <2>1, AnswerStands
  <1>2. CASE \/ \E p \in Pipes : Write(p) \/ DrainPipe(p)
             \/ Exit \/ Reap \/ HeirLeaves
    <2>1. child # None /\ ring' = ring /\ call' = call
      BY <1>2 DEF Write, Live, DrainPipe, Exit, Reap, HeirLeaves
    <2>2. child \in ChildSet(child.reply)
      BY <2>1 DEF GpgInv, CallInv
    <2>3. child'.reply = child.reply
      BY <1>2, <2>2 DEF Write, DrainPipe, Exit, Reap, HeirLeaves, ChildSet
    <2>4. child.proc # "started" \/ child'.proc = child.proc
      BY <1>2, <2>2 DEF Write, DrainPipe, Exit, Reap, HeirLeaves, ChildSet
    <2>5. QED
      BY <2>1, <2>3, <2>4, AnswerStands
  <1>3. QED
    BY <1>1, <1>2

(* What an operation may return for a target.                              *)
RightTarget(result) ==
    call.req.op \in {"probe", "use"} /\ result.ok
      /\ result.value.target # None =>
        SignerNamed(call, result.value.target)

LEMMA TargetReturns ==
    ASSUME ring' = ring, NEW result, call' = Returned(result),
           RightTarget(result)
    PROVE  TargetInv'
  <1>1. /\ call'.step = "returned" /\ call'.req = call.req
        /\ call'.signed = call.signed /\ call'.result = result
    BY DEF Returned
  <1>2. QuestionInv'
    BY <1>1 DEF QuestionInv, Busy
  <1>3. TargetIsSigner'
    BY <1>1, RingKept
       DEF TargetIsSigner, Done, RightTarget, SignerNamed, TargetOfKey
  <1>4. QED
    BY <1>2, <1>3 DEF TargetInv

(* An error is no target, and neither is what the keepalive does without.  *)
LEMMA ErrorIsNoTarget ==
    ASSUME NEW variant
    PROVE  RightTarget(Err(variant)) /\ RightTarget(Failed(variant))
  <1>1. RightTarget(Err(variant))
    BY DEF RightTarget, Err
  <1>2. \A pinentry :
          RightTarget(Ok([target |-> None, pinentry |-> pinentry]))
    BY DEF RightTarget, Ok
  <1>3. QED
    BY <1>1, <1>2 DEF Failed

LEMMA EndsWithoutTarget ==
    ASSUME SpawnError \/ Deadline
    PROVE  TargetInv'
  <1>1. PICK variant : call' = Returned(Failed(variant)) /\ ring' = ring
    BY DEF SpawnError, Deadline
  <1>2. QED
    BY <1>1, ErrorIsNoTarget, TargetReturns

LEMMA StartTargetStep ==
    ASSUME NEW req \in Requests, Start(req) PROVE TargetInv'
  <1>1. /\ call'.step = FirstStep(req) /\ call'.req = req
        /\ child'.proc = "started"
    BY DEF Start, Children
  <1>2. req.op \in {"probe", "use"} => FirstStep(req) = "sign"
    BY DEF FirstStep
  <1>3. FirstStep(req) # "returned"
    BY AdapterAssumption DEF FirstStep
  <1>4. QuestionInv'
    BY <1>1, <1>2 DEF QuestionInv
  <1>5. TargetIsSigner'
    BY <1>1, <1>3 DEF TargetIsSigner, Done
  <1>6. QED
    BY <1>4, <1>5 DEF TargetInv

LEMMA TakeTargetStep == ASSUME Take PROVE TargetInv'
  <1>1. call'.step = "idle"
    BY DEF Take, NoCall
  <1>2. QED
    BY <1>1 DEF TargetInv, QuestionInv, TargetIsSigner, Done, Busy

(* A listing is asked for with a reason.                                   *)
LEMMA ListTargetStep ==
    ASSUME NEW signed, NEW considered, NEW pinentry,
           List(signed, considered, pinentry),
           IF signed # None
             THEN \E k \in Signer(call.req.key) : signed = k.fpr
             ELSE /\ call.req.op = "probe"
                  /\ Signer(call.req.key) # {}
                  /\ considered \in Heads(call.req.key)
    PROVE  TargetInv'
  <1>1. /\ call'.step = "list" /\ call'.req = call.req
        /\ call'.signed = signed /\ call'.considered = considered
        /\ child'.proc = "started" /\ ring' = ring
    BY DEF List, Children
  <1>2. ListFrank(call)'
    BY <1>1, RingKept DEF ListFrank
  <1>3. QuestionInv'
    BY <1>1, <1>2 DEF QuestionInv
  <1>4. TargetIsSigner'
    BY <1>1 DEF TargetIsSigner, Done
  <1>5. QED
    BY <1>3, <1>4 DEF TargetInv

LEMMA ActTargetStep ==
    ASSUME GpgInv, TargetInv, Act PROVE TargetInv'
  <1>1. child # None /\ child.proc = "started" /\ ring' = ring
    BY DEF Act
  <1>2. PICK answer \in Answers(call) :
          /\ child' = [child EXCEPT !.proc = "running", !.reply = answer,
                                    !.left = [p \in Pipes |-> OutputSize]]
          /\ call' = [call EXCEPT !.facts = @ \cup {answer.fact}]
    BY DEF Act
  <1>3. /\ call.step \in Busy /\ child \in ChildSet(child.reply)
        /\ DOMAIN call = {"step", "req", "facts", "signed", "considered",
                          "pinentry"}
        /\ ring \in Rings
    BY <1>1, SomebodyWaits DEF GpgInv, CallInv
  <1>4. /\ call'.step = call.step /\ call'.req = call.req
        /\ call'.signed = call.signed
        /\ call'.considered = call.considered
        /\ child'.reply = answer
    BY <1>2, <1>3 DEF ChildSet
  <1>5. ASSUME call.req.op \in {"probe", "use"}
        PROVE  /\ call.step \in {"sign", "list"}
               /\ call.step = "list" => ListFrank(call)
               /\ AnswerFrank(call, answer)
    <2>1. /\ call.step \in {"sign", "list"}
          /\ call.step = "list" => ListFrank(call)
      BY <1>3, <1>5 DEF TargetInv, QuestionInv
    <2>2. CASE call.step = "sign"
      <3>1. answer \in SignAnswers(call.req)
        BY <2>2 DEF Answers
      <3>2. Shaped(answer) /\ StatusFrank(call.req.key, answer)
        BY <1>3, <1>5, <3>1, AnswersAreShaped, SignIsFrank
      <3>3. QED
        BY <2>1, <2>2, <3>2 DEF AnswerFrank
    <2>3. CASE call.step = "list"
      <3>1. answer \in ListAnswers(Selected(call))
        BY <2>3 DEF Answers, Selected
      <3>2. Shaped(answer)
        <4>1. \A exit \in BOOLEAN : \A lines, cache, fact :
                Shaped(Answer(exit, lines, cache, fact))
          BY DEF Shaped, Answer
        <4>2. QED
          BY <3>1, <4>1 DEF ListAnswers
      <3>3. answer.exit => answer.lines = Listing(Selected(call))
        BY <3>1 DEF ListAnswers, Answer
      <3>4. QED
        BY <2>1, <2>3, <3>2, <3>3 DEF AnswerFrank
    <2>4. QED
      BY <2>1, <2>2, <2>3
  <1>6. Selected(call') = Selected(call)
    BY <1>4 DEF Selected
  <1>7. QuestionInv'
    <2>1. ASSUME call.req.op \in {"probe", "use"}
          PROVE  AnswerFrank(call', child'.reply)
      BY <1>4, <1>5, <1>6, <2>1 DEF AnswerFrank
    <2>2. ASSUME ListFrank(call) PROVE ListFrank(call')
      BY <1>4, <2>2 DEF ListFrank
    <2>3. QED
      BY <1>1, <1>3, <1>4, <1>5, <2>1, <2>2, FrankKept DEF QuestionInv
  <1>8. TargetIsSigner'
    BY <1>3, <1>4 DEF TargetIsSigner, Done, Busy
  <1>9. QED
    BY <1>7, <1>8 DEF TargetInv

(* What is read of a question's child is what it said.                     *)
LEMMA QuestionIsAnswered ==
    ASSUME GpgInv, TargetInv, NEW step \in Busy, Collected(step),
           call.req.op \in {"probe", "use"}
    PROVE  /\ Output.exit = child.reply.exit
           /\ Output.lines = child.reply.lines
           /\ call.step \in {"sign", "list"} /\ call.step = step
           /\ call.req \in Requests /\ ring \in Rings
           /\ call.step = "list" => ListFrank(call)
           /\ AnswerFrank(call, child.reply)
  <1>1. call.step = step /\ child.proc = "reaped"
    BY DEF Collected
  <1>2. AnswerFrank(call, child.reply)
    BY <1>1 DEF TargetInv, QuestionInv
  <1>3. /\ Output.exit = child.reply.exit
        /\ Output.lines = child.reply.lines
    BY <1>2, AllIsRead DEF AnswerFrank
  <1>4. QED
    BY <1>1, <1>2, <1>3 DEF TargetInv, QuestionInv, GpgInv, CallInv, Busy

LEMMA UseKeyTargetStep ==
    ASSUME GpgInv, TargetInv, UseKey PROVE TargetInv'
  <1>1. Collected("sign") /\ "sign" \in Busy /\ call.req.op = "use"
    BY DEF UseKey, Busy
  <1>2. /\ Output.lines = child.reply.lines
        /\ StatusFrank(call.req.key, child.reply)
    BY <1>1, QuestionIsAnswered DEF AnswerFrank, Collected
  <1>3. Status.sig_created # None =>
          \E k \in Signer(call.req.key) : Status.sig_created = k.fpr
    BY <1>2 DEF StatusFrank, Status
  <1>4. \/ Return(Err("GpgFailed"))
        \/ \E pinentry :
             Return(Ok([target |-> None, pinentry |-> pinentry]))
        \/ /\ Status.sig_created # None
           /\ \E pinentry : List(Status.sig_created, None, pinentry)
    BY DEF UseKey
  <1>5. CASE Return(Err("GpgFailed"))
    BY <1>5, ErrorIsNoTarget, TargetReturns DEF Return
  <1>6. ASSUME NEW pinentry,
               Return(Ok([target |-> None, pinentry |-> pinentry]))
        PROVE  TargetInv'
    <2>1. RightTarget(Ok([target |-> None, pinentry |-> pinentry]))
      BY DEF RightTarget, Ok
    <2>2. QED
      BY <1>6, <2>1, TargetReturns DEF Return
  <1>7. ASSUME NEW pinentry, Status.sig_created # None,
               List(Status.sig_created, None, pinentry)
        PROVE  TargetInv'
    BY <1>3, <1>7, ListTargetStep
  <1>8. QED
    BY <1>4, <1>5, <1>6, <1>7

LEMMA ProbeTargetTargetStep ==
    ASSUME GpgInv, TargetInv, ProbeTarget PROVE TargetInv'
  <1>1. Collected("sign") /\ "sign" \in Busy /\ call.req.op = "probe"
    BY DEF ProbeTarget, Busy
  <1>2. /\ Output.lines = child.reply.lines
        /\ StatusFrank(call.req.key, child.reply)
    BY <1>1, QuestionIsAnswered DEF AnswerFrank, Collected
  <1>3. /\ Status.sig_created # None =>
             \E k \in Signer(call.req.key) : Status.sig_created = k.fpr
        /\ HasFailure(Status, GPG_ERR_CANCELED) => Signer(call.req.key) # {}
        /\ Status.key_considered # None =>
             Status.key_considered \in Heads(call.req.key)
    BY <1>2 DEF StatusFrank, Status
  <1>4. \/ /\ Status.sig_created # None
           /\ List(Status.sig_created, None, None)
        \/ Return(Err("GpgTarget"))
        \/ Return(Err("GpgFailed"))
        \/ /\ Status.key_considered # None
           /\ HasFailure(Status, GPG_ERR_CANCELED)
           /\ List(None, Status.key_considered, None)
    BY DEF ProbeTarget
  <1>5. ASSUME NEW variant, Return(Err(variant))
        PROVE  TargetInv'
    BY <1>5, ErrorIsNoTarget, TargetReturns DEF Return
  <1>6. CASE /\ Status.sig_created # None
             /\ List(Status.sig_created, None, None)
    BY <1>3, <1>6, ListTargetStep
  <1>7. CASE /\ Status.key_considered # None
             /\ HasFailure(Status, GPG_ERR_CANCELED)
             /\ List(None, Status.key_considered, None)
    BY <1>1, <1>3, <1>7, ListTargetStep
  <1>8. QED
    BY <1>4, <1>5, <1>6, <1>7

LEMMA ListedTargetStep ==
    ASSUME GpgInv, TargetInv, Listed PROVE TargetInv'
  <1> DEFINE targets == IF Output.exit
                          THEN {TargetOf(r) : r \in ListedTarget(Output.lines)}
                          ELSE {}
  <1>1. Collected("list") /\ "list" \in Busy /\ call.step \in Busy
    BY DEF Listed, Collected, Busy
  <1>2. PICK target \in IF targets = {} THEN {None} ELSE targets :
          \/ \E pinentry :
               Return(Ok([target |-> target, pinentry |-> pinentry]))
          \/ Return(Err("GpgFailed"))
          \/ Return(Err("GpgTarget"))
    BY DEF Listed
  <1>3. ASSUME call.req.op \in {"probe", "use"}, target # None
        PROVE  SignerNamed(call, target)
    <2>1. /\ Output.exit = child.reply.exit
          /\ Output.lines = child.reply.lines
          /\ call.req \in Requests /\ ring \in Rings /\ ListFrank(call)
          /\ AnswerFrank(call, child.reply) /\ call.step = "list"
      BY <1>1, <1>3, QuestionIsAnswered
    <2>2. Output.exit /\ target \in targets
      BY <1>3
    <2>3. PICK r \in ListedTarget(Output.lines) : target = TargetOf(r)
      BY <2>2
    <2>4. Output.lines = Listing(Selected(call))
      BY <2>1, <2>2 DEF AnswerFrank
    <2>5. r \in ListedTarget(Listing(Selected(call)))
      BY <2>3, <2>4
    <2>6. QED
      BY <1>3, <2>1, <2>3, <2>5, ListedIsSigner
  <1> HIDE DEF targets
  <1>4. ASSUME NEW variant, Return(Err(variant))
        PROVE  TargetInv'
    BY <1>4, ErrorIsNoTarget, TargetReturns DEF Return
  <1>5. ASSUME NEW pinentry,
               Return(Ok([target |-> target, pinentry |-> pinentry]))
        PROVE  TargetInv'
    <2>1. RightTarget(Ok([target |-> target, pinentry |-> pinentry]))
      BY <1>3 DEF RightTarget, Ok
    <2>2. QED
      BY <1>5, <2>1, TargetReturns DEF Return
  <1>6. QED
    BY <1>2, <1>4, <1>5

(* The other operations have no target.                                    *)
LEMMA OtherTargetStep ==
    ASSUME UseKeyWithPassphrase \/ KeyState \/ ClearPassphrase
    PROVE  TargetInv'
  <1>1. PICK result : Return(result)
    BY DEF UseKeyWithPassphrase, KeyState, ClearPassphrase
  <1>2. RightTarget(result)
    BY DEF UseKeyWithPassphrase, KeyState, ClearPassphrase, RightTarget
  <1>3. QED
    BY <1>1, <1>2, TargetReturns DEF Return

LEMMA CachePolicyTargetStep ==
    ASSUME GpgInv, TargetInv, CachePolicy PROVE TargetInv'
  <1>1. /\ call.step = "gpgconf" /\ \E result : Return(result)
    BY DEF CachePolicy, Collected
  <1>2. call.req.op \notin {"probe", "use"}
    BY <1>1 DEF TargetInv, QuestionInv, Busy
  <1>3. QED
    BY <1>1, <1>2, TargetReturns DEF Return, RightTarget

LEMMA TargetPreserved ==
    ASSUME GpgInv, TargetInv, [GpgNext]_gpgVars
    PROVE  TargetInv'
  <1>1. ASSUME Concludes PROVE TargetInv'
    BY <1>1, UseKeyTargetStep, ProbeTargetTargetStep, ListedTargetStep,
       OtherTargetStep, CachePolicyTargetStep DEF Concludes
  <1>2. ASSUME GpgNext PROVE TargetInv'
    BY <1>1, <1>2, StartTargetStep, TakeTargetStep, EndsWithoutTarget,
       ActTargetStep, WorldTargetStep DEF GpgNext
  <1>3. QED
    BY <1>2, WorldTargetStep

(* probe_target and use_key report the key that gpg signs with for the     *)
(* selector.  Where gpg has signed it is the very key the status names, in *)
(* every keyring; where the key is locked, default_signing_key makes gpg's *)
(* choice in the block that gpg came to last, for an exact selector in     *)
(* every keyring, and otherwise if primaries that sign are older than the  *)
(* signing subkeys.                                                        *)
THEOREM TargetIsTheSigner == GpgSpec => []TargetIsSigner
  <1>1. GpgInit => TargetInv
    BY DEF GpgInit, NoCall, TargetInv, QuestionInv, TargetIsSigner, Done,
           Busy
  <1>2. GpgInv /\ TargetInv /\ [GpgNext]_gpgVars => TargetInv'
    BY TargetPreserved
  <1>3. TargetInv => TargetIsSigner
    BY DEF TargetInv
  <1>4. QED
    BY <1>1, <1>2, <1>3, RepliesAreWhole, PTL DEF GpgSpec
==============================================================================
