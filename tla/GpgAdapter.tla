----------------------------- MODULE GpgAdapter -----------------------------
(***************************************************************************)
(* src/gpg.rs: each operation runs one or two children, waits for them     *)
(* under a bound, and decides from what they printed.  gpg, gpg-agent and  *)
(* gpgconf are external: what they answer and do is modelled from the      *)
(* forms the code and its tests name.  Output counts in pieces of the size *)
(* of a pipe's buffer.                                                     *)
(***************************************************************************)
EXTENDS KeyListing, FiniteSets

CONSTANTS
    Rings,      \* keyrings: sequences of blocks, the primary's key first
    Requests,   \* the operations callers may ask for
    Options,    \* what gpgconf may list
    PipeSize,   \* pieces a pipe holds before its writer blocks
    OutputSize  \* pieces a child writes to each of its two pipes

(* The forms of an id that gpg accepts for a key.                          *)
Ids(key) == {key.fpr, key.grip, key.keyid, key.short}

CanSign(k) == "s" \in k.caps /\ k.validity \notin {"r", "e", "n", "d", "i"}

(* Where the keys of a ring are: their blocks, and their places in those.  *)
PlacesIn(r) == UNION {{b} \X DOMAIN r[b] : b \in DOMAIN r}

(* A block has a primary; an id names one key.                             *)
ASSUME KeyringAssumption ==
    \A r \in Rings :
      /\ r \in Seq(Seq(UNION {ToSet(r[b]) : b \in DOMAIN r}) \ {<<>>})
      /\ \A p, q \in PlacesIn(r) :
           Ids(r[p[1]][p[2]]) \cap Ids(r[q[1]][q[2]]) # {} => p = q
      /\ \A p \in PlacesIn(r) : r[p[1]][p[2]].created \in Nat

(* An id is hexadecimal.                                                   *)
ASSUME SelectorAssumption ==
    \A req \in Requests :
      req.op \in {"probe", "use"} /\ req.key # None =>
        \A r \in Rings : \A p \in PlacesIn(r) :
          req.key.body \in Ids(r[p[1]][p[2]]) => req.key.hex

(* A pipe holds something.                                                 *)
ASSUME AdapterAssumption ==
    /\ None \notin Nat
    /\ PipeSize \in Nat \ {0}
    /\ OutputSize \in Nat
    /\ \A req \in Requests :
         req.op \in {"probe", "use", "pass", "state", "clear", "policy"}

VARIABLES
    ring,       \* the secret keys
    entries,    \* keygrips whose passphrase the agent has
    call,       \* the operation in progress or just returned
    child       \* the process it runs

gpgVars == <<ring, entries, call, child>>

Pipes == {"out", "err"}

(* Errors are told apart by the variant of error.rs.                       *)
Err(variant) == [ok |-> FALSE, error |-> variant]
Ok(value) == [ok |-> TRUE, value |-> value]

NoCall == [step |-> "idle"]
Returned(result) ==
    [step |-> "returned", req |-> call.req, facts |-> call.facts,
     signed |-> call.signed, result |-> result]

FirstStep(req) ==
    CASE req.op \in {"probe", "use", "pass"} -> "sign"
      [] req.op \in {"state", "clear"} -> "agent"
      [] req.op = "policy" -> "gpgconf"

(* A person types at the pinentry of a foreground signature.               *)
Prompting(c) == c.step = "sign" /\ c.req.op = "use" /\ c.req.foreground

(* Mutant: only signatures are bounded.                                    *)
BoundedSign(c) == c.step = "sign" /\ ~Prompting(c)

Unattended(c) == ~Prompting(c)

(* A spawned child, with its pipes; it is "running" once it has acted.  It *)
(* may hang ("slow"), and leave a descendant that keeps its pipes open     *)
(* ("heir").                                                               *)
Children ==
    { [ proc |-> "started", slow |-> slow, heir |-> heir, reply |-> None,
        left |-> [p \in Pipes |-> 0], pipe |-> [p \in Pipes |-> 0],
        got |-> [p \in Pipes |-> 0] ] : slow, heir \in BOOLEAN }

-----------------------------------------------------------------------------
(* External: gpg's keys.                                                   *)

Keys == UNION {ToSet(ring[i]) : i \in DOMAIN ring}

Primary(key) == \E i \in DOMAIN ring : Head(ring[i]) = key

BlockOf(key) == CHOOSE i \in DOMAIN ring : key \in ToSet(ring[i])

(* What is not an id is a user id, which names the keys of a block.        *)
Named(selector) ==
    LET byId == {k \in Keys : selector.body \in Ids(k)}
    IN  IF byId # {} THEN byId ELSE {k \in Keys : selector.body = k.uid}

(* The newest signing subkey, and the primary when there is none.          *)
SignerOfBlock(b) ==
    LET subkeys == {k \in ToSet(Tail(ring[b])) : CanSign(k)}
        primary == {k \in {Head(ring[b])} : CanSign(k)}
    IN  IF subkeys # {}
          THEN {k \in subkeys : \A l \in subkeys : l.created <= k.created}
          ELSE primary

(* The blocks gpg looks at, in order: up to the first that can sign, or    *)
(* the one that is named.                                                  *)
Considered(selector) ==
    IF selector = None
      THEN {b \in DOMAIN ring :
              \A a \in 1 .. b - 1 : SignerOfBlock(a) = {}}
      ELSE {BlockOf(k) : k \in Named(selector)}

(* An id of a subkey, or of a primary with the force mark, is exact.       *)
Exact(selector) ==
    IF selector = None
      THEN {}
      ELSE {k \in Named(selector) :
              /\ selector.body \in Ids(k)
              /\ selector.forced \/ ~Primary(k)}

(* The key gpg signs with, as a set: of subkeys of one age it may be any.  *)
Signer(selector) ==
    IF Exact(selector) # {}
      THEN {k \in Exact(selector) : CanSign(k)}
      ELSE UNION {SignerOfBlock(b) : b \in Considered(selector)}

GpgInit ==
    /\ ring \in Rings
    /\ entries \in SUBSET {k.grip : k \in Keys}
    /\ call = NoCall
    /\ child = None

-----------------------------------------------------------------------------
(* External: what the children print and do.  An answer is the exit        *)
(* status, the lines on stdout, the cache afterwards and the fact that     *)
(* has been established.                                                   *)

Answer(exit, lines, cache, fact) ==
    [exit |-> exit, lines |-> lines, warm |-> cache, fact |-> fact]

Word(word, arg) == [word |-> word, arg |-> arg]

KeyAt(p) == ring[p[1]][p[2]]

Before(p, q) == p[1] < q[1] \/ (p[1] = q[1] /\ p[2] < q[2])

(* Places in the order of the keyring.                                     *)
InOrder(places) ==
    [i \in 1 .. Cardinality(places) |->
       CHOOSE p \in places :
         Cardinality({q \in places : Before(q, p)}) = i - 1]

(* A line for each block that is looked at.                                *)
ConsideredLines(selector) ==
    LET heads == InOrder(Considered(selector) \X {1})
    IN  [i \in DOMAIN heads |-> Word("KEY_CONSIDERED", KeyAt(heads[i]).fpr)]

(* libgpg-error values: the source in the upper bits.                      *)
FromGpg(code) == 67108864 + code
SystemError(code) == FromGpg(32768 + code)

Failure(selector, code, fact) ==
    Answer(FALSE, ConsideredLines(selector) \o <<Word("FAILURE", code)>>,
           entries, fact)

Signature(selector, key, pinentry, fact) ==
    Answer(TRUE,
           ConsideredLines(selector)
             \o (IF pinentry THEN <<Word("PINENTRY_LAUNCHED", None)>>
                             ELSE <<>>)
             \o <<Word("SIG_CREATED", key.fpr)>>,
           entries \cup {key.grip}, fact)

(* gpg --detach-sign, with a pinentry, without one, or with a passphrase.  *)
SignAnswers(req) ==
    LET selector == IF req.op = "pass"
                      THEN [body |-> req.fpr, hex |-> TRUE, forced |-> TRUE]
                      ELSE req.key
        hot  == {k \in Signer(selector) : k.grip \in entries}
        cold == Signer(selector) \ hot
    IN  { Failure(selector, FromGpg(1), "failed"),
          Answer(FALSE, <<>>, entries, "failed") }
        \cup {Signature(selector, k, FALSE, "signed") : k \in hot}
        \cup (IF req.op = "pass"
                THEN {IF req.right
                        THEN Signature(selector, k, FALSE, "validated")
                        ELSE Failure(selector,
                                     FromGpg(GPG_ERR_BAD_PASSPHRASE),
                                     "rejected") : k \in cold}
              ELSE {Failure(selector, FromGpg(GPG_ERR_CANCELED), "locked") :
                      k \in cold}
                \cup (IF req.op = "use" /\ req.foreground
                        THEN {Signature(selector, k, TRUE, "signed") :
                                k \in cold}
                        ELSE {}))

(* A key in the listing.                                                   *)
Row(p) ==
    LET key == KeyAt(p)
    IN  [ tag |-> IF p[2] = 1 THEN "sec" ELSE "ssb", keyid |-> key.keyid,
          short |-> key.short, created |-> key.created,
          validity |-> key.validity, caps |-> key.caps, fpr |-> key.fpr,
          grip |-> key.grip ]

(* gpg --list-secret-keys of the blocks the selector names, or of all.     *)
Listing(selector) ==
    LET listed(b) == \/ selector = None
                     \/ ToSet(ring[b]) \cap Named(selector) # {}
        keys == InOrder({p \in PlacesIn(ring) : listed(p[1])})
    IN  [i \in DOMAIN keys |-> Row(keys[i])]

ListAnswers(selector) ==
    { Answer(TRUE, Listing(selector), entries, "listed"),
      Answer(FALSE, <<>>, entries, "failed") }

OkLine == [word |-> "OK"]
ErrLine(code) == [word |-> "ERR", code |-> code]
Blank == [word |-> ""]
InfoLine(grip) ==
    [word |-> "KEYINFO", cached |-> IF grip \in entries THEN "1" ELSE "-",
     letter |-> "P"]

(* The agent refuses, says nothing, is cut short or cannot be reached.     *)
Refusals(before) ==
    { Answer(TRUE, <<ErrLine(SystemError(27)), Blank>>, entries, "refused"),
      Answer(TRUE, <<>>, entries, "refused"),
      Answer(TRUE, before, entries, "refused"),
      Answer(FALSE, <<ErrLine(FromGpg(1))>>, entries, "refused") }

AgentAnswers(req) ==
    LET known == \E k \in Keys : k.grip = req.grip
    IN  IF req.op = "clear"
          THEN {Answer(TRUE, <<OkLine, Blank>>, entries \ {req.grip},
                       "cleared")}
                 \cup Refusals(<<[word |-> "S"]>>)
          ELSE { IF known
                   THEN Answer(TRUE, <<InfoLine(req.grip), OkLine>>, entries,
                               IF req.grip \in entries THEN "hot" ELSE "cold")
                   ELSE Answer(TRUE, <<ErrLine(FromGpg(GPG_ERR_NOT_FOUND))>>,
                               entries, "cold"),
                 Answer(TRUE, <<OkLine>>, entries, "refused") }
               \cup Refusals(<<InfoLine(req.grip)>>)

Answers(c) ==
    CASE c.step = "sign"    -> SignAnswers(c.req)
      [] c.step = "list"    -> ListAnswers(IF c.req.op = "probe"
                                              /\ c.signed = None
                                             THEN c.req.key ELSE None)
      [] c.step = "agent"   -> AgentAnswers(c.req)
      [] c.step = "gpgconf" -> {Answer(FALSE, <<>>, entries, "failed")} \cup
                               {Answer(TRUE, lines, entries, "listed") :
                                  lines \in Options}

-----------------------------------------------------------------------------
(* The child runs.                                                         *)

Live == child # None /\ child.proc \in {"started", "running"}

Act ==
    /\ child # None
    /\ child.proc = "started"
    /\ \E answer \in Answers(call) :
         /\ child' = [child EXCEPT !.proc = "running", !.reply = answer,
                                   !.left = [p \in Pipes |-> OutputSize]]
         /\ entries' = answer.warm
         /\ call' = [call EXCEPT !.facts = @ \cup {answer.fact}]
    /\ UNCHANGED ring

Writable(p) == child.left[p] > 0 /\ child.pipe[p] < PipeSize

Write(p) ==
    /\ Live
    /\ Writable(p)
    /\ child' = [child EXCEPT !.left[p] = @ - 1, !.pipe[p] = @ + 1]
    /\ UNCHANGED <<ring, entries, call>>

Exit ==
    /\ child # None
    /\ child.proc = "running"
    /\ \A p \in Pipes : child.left[p] = 0
    /\ child' = [child EXCEPT !.proc = "zombie"]
    /\ UNCHANGED <<ring, entries, call>>

HeirLeaves ==
    /\ child # None
    /\ child.heir
    /\ child' = [child EXCEPT !.heir = FALSE]
    /\ UNCHANGED <<ring, entries, call>>

(* Somebody else unlocks a key, or the agent forgets one.  It matters only *)
(* until the child has read the cache.                                     *)
CacheChanges ==
    /\ child # None
    /\ child.proc = "started"
    /\ \E k \in Keys :
         entries' = IF k.grip \in entries THEN entries \ {k.grip}
                                          ELSE entries \cup {k.grip}
    /\ UNCHANGED <<ring, call, child>>

-----------------------------------------------------------------------------
(* keyhold waits: drain, join_drain, wait_with_timeout.                    *)

(* Mutant: stderr is read only once stdout is at its end.                  *)
ReadableInTurn(p) ==
    /\ child.pipe[p] > 0
    /\ p = "err" => ~Live /\ child.pipe["out"] = 0

Readable(p) == child.pipe[p] > 0

(* A thread per pipe reads to the end, whatever the waiter does.           *)
DrainPipe(p) ==
    /\ child # None
    /\ Readable(p)
    /\ child' = [child EXCEPT !.pipe[p] = @ - 1, !.got[p] = @ + 1]
    /\ UNCHANGED <<ring, entries, call>>

AtEof(p) == ~Live /\ child.pipe[p] = 0 /\ ~child.heir

DrainsEnded == \A p \in Pipes : AtEof(p)

(* What the waiter gets to see: all of it, or what was read of it.         *)
Output ==
    [child.reply EXCEPT !.lines =
       IF child.got["out"] = OutputSize THEN @ ELSE <<>>]

(* try_wait has found the child's end; now its output is joined.           *)
Reap ==
    /\ child # None
    /\ child.proc = "zombie"
    /\ child' = [child EXCEPT !.proc = "reaped"]
    /\ UNCHANGED <<ring, entries, call>>

KillAndWait == [child EXCEPT !.proc = "reaped"]

(* The bound is long: only a child that is slow, or blocked on a pipe that *)
(* nobody reads, meets it.                                                 *)
Stuck ==
    \/ child.slow
    \/ /\ \E p \in Pipes : child.left[p] > 0
       /\ \A p \in Pipes : ~Writable(p) /\ ~Readable(p)

(* An error after which the operation ends; "on" can do without the target.*)
Failed(variant) ==
    IF call.step = "list" /\ call.req.op = "use"
      THEN Ok([target |-> None, pinentry |-> call.pinentry])
      ELSE Err(variant)

(* The bound passes while try_wait finds the child running: kill and wait, *)
(* and leave the drains to end by themselves.                              *)
Deadline ==
    /\ Live
    /\ Unattended(call)
    /\ Stuck
    /\ child' = KillAndWait
    /\ call' = Returned(Failed("GpgTimeout"))
    /\ UNCHANGED <<ring, entries>>

-----------------------------------------------------------------------------
(* The operations.                                                         *)

Start(req) ==
    /\ call.step = "idle"
    /\ call' = [step |-> FirstStep(req), req |-> req, facts |-> {},
                signed |-> None, considered |-> None, pinentry |-> None]
    /\ child' \in Children
    /\ UNCHANGED <<ring, entries>>

(* The caller goes on with the result; a drain that is left is on its own. *)
Take ==
    /\ call.step = "returned"
    /\ call' = NoCall
    /\ child' = None
    /\ UNCHANGED <<ring, entries>>

(* A child or a drain thread that cannot be started, or a try_wait that    *)
(* fails: what there is of the child is killed and waited for.             *)
SpawnError ==
    /\ Live
    /\ child' = KillAndWait
    /\ call' = Returned(Failed("GpgSpawn"))
    /\ UNCHANGED <<ring, entries>>

Return(result) ==
    /\ call' = Returned(result)
    /\ UNCHANGED <<ring, entries, child>>

(* The second child, for a listing.                                        *)
List(signed, considered, pinentry) ==
    /\ call' = [step |-> "list", req |-> call.req, facts |-> call.facts,
                signed |-> signed, considered |-> considered,
                pinentry |-> pinentry]
    /\ child' \in Children
    /\ UNCHANGED <<ring, entries>>

Collected(step) ==
    /\ call.step = step
    /\ child.proc = "reaped"
    /\ DrainsEnded

Status == ParseStatus(Output.lines)

UseKey ==
    /\ Collected("sign")
    /\ call.req.op = "use"
    /\ LET pinentry == IF Status.saw_status THEN Status.pinentry_launched
                                            ELSE None
       IN  IF ~Output.exit
             THEN Return(Err("GpgFailed"))
           ELSE IF Status.sig_created = None
             THEN Return(Ok([target |-> None, pinentry |-> pinentry]))
           ELSE List(Status.sig_created, None, pinentry)

ProbeTarget ==
    /\ Collected("sign")
    /\ call.req.op = "probe"
    /\ IF Output.exit /\ Status.sig_created # None
         THEN List(Status.sig_created, None, None)
       ELSE IF Status.key_considered = None
         THEN Return(Err("GpgTarget"))
       ELSE IF ~HasFailure(Status, GPG_ERR_CANCELED)
         THEN Return(Err("GpgFailed"))
       ELSE List(None, Status.key_considered, None)

(* list_secret_keys, then target_for_fingerprint or the choice of a locked *)
(* key: the record found, as a set of at most one.                         *)
ListedTarget(lines) ==
    LET blocks == ParseKeyBlocks(lines)
        considered == {b \in DOMAIN blocks :
                         Head(blocks[b]).fingerprint = call.considered}
    IN  IF call.signed # None
          THEN FindById(blocks, call.signed)
          ELSE UNION {DefaultSigningKey(b, call.req.key) :
                        b \in First(blocks, considered)}

Listed ==
    /\ Collected("list")
    /\ LET targets == IF Output.exit
                        THEN {TargetOf(r) : r \in ListedTarget(Output.lines)}
                        ELSE {}
       IN  \E target \in IF targets = {} THEN {None} ELSE targets :
             IF call.req.op = "use"
               THEN Return(Ok([target |-> target,
                               pinentry |-> call.pinentry]))
             ELSE IF ~Output.exit
               THEN Return(Err("GpgFailed"))
             ELSE IF \/ target = None
                     \/ call.signed = None /\ target.keygrip = None
               THEN Return(Err("GpgTarget"))
             ELSE Return(Ok([target |-> target, pinentry |-> None]))

(* use_key_with_passphrase; an empty passphrase or one of several lines is *)
(* refused before a child is started.                                      *)
UseKeyWithPassphrase ==
    /\ Collected("sign")
    /\ call.req.op = "pass"
    /\ Return(IF Output.exit THEN Ok("signed")
              ELSE IF HasFailure(Status, GPG_ERR_BAD_PASSPHRASE)
                THEN Err("BadPassphrase")
              ELSE Err("GpgFailed"))

(* Mutant: the exit status of gpg-connect-agent decides.                   *)
ReplyOfExit ==
    IF Output.exit THEN [kind |-> "ok"] ELSE [kind |-> "failed"]

AgentReply ==
    IF Output.exit THEN ParseAgentReply(Output.lines) ELSE [kind |-> "failed"]

KeyState ==
    /\ Collected("agent")
    /\ call.req.op = "state"
    /\ Return(
         IF HasCode(AgentReply, GPG_ERR_NOT_FOUND)
           THEN Ok([cached |-> FALSE, protection |-> "unknown"])
         ELSE IF AgentReply.kind # "ok" \/ ParseKeyinfo(Output.lines) = None
           THEN Err("AgentCommand")
         ELSE Ok(ParseKeyinfo(Output.lines)))

ClearPassphrase ==
    /\ Collected("agent")
    /\ call.req.op = "clear"
    /\ Return(IF AgentReply.kind = "ok" THEN Ok("cleared")
                                        ELSE Err("AgentCommand"))

CachePolicy ==
    /\ Collected("gpgconf")
    /\ LET policy == ParseCachePolicy(Output.lines)
       IN  Return(IF Output.exit /\ policy # None THEN Ok(policy)
                                                  ELSE Err("CachePolicy"))

Concludes ==
    \/ UseKey \/ ProbeTarget \/ Listed \/ UseKeyWithPassphrase
    \/ KeyState \/ ClearPassphrase \/ CachePolicy

GpgNext ==
    \/ \E req \in Requests : Start(req)
    \/ Take
    \/ SpawnError
    \/ Act
    \/ \E p \in Pipes : Write(p)
    \/ Exit
    \/ HeirLeaves
    \/ CacheChanges
    \/ \E p \in Pipes : DrainPipe(p)
    \/ Reap
    \/ Deadline
    \/ Concludes

(* Threads run, time passes, and a child that is not slow goes on.         *)
GpgFairness ==
    /\ \A p \in Pipes : WF_gpgVars(DrainPipe(p))
    /\ WF_gpgVars(Reap)
    /\ WF_gpgVars(Deadline)
    /\ WF_gpgVars(Concludes)
    /\ WF_gpgVars((Act \/ Exit \/ \E p \in Pipes : Write(p)) /\ ~child.slow)

GpgSpec == GpgInit /\ [][GpgNext]_gpgVars /\ GpgFairness

-----------------------------------------------------------------------------
(* Properties.                                                             *)

Done(op) == call.step = "returned" /\ call.req.op = op

(* A primary that signs is older than every signing subkey of its block.   *)
PrimaryIsOldest(selector) ==
    \A b \in Considered(selector) : \A i \in 2 .. Len(ring[b]) :
      CanSign(ring[b][1]) /\ CanSign(ring[b][i]) =>
        ring[b][1].created < ring[b][i].created

(* The target of probe_target and use_key is the key gpg signs with for    *)
(* that selector.  Where gpg has signed it is the very key that the status *)
(* named, whatever the ages of the keys.  Where the key is locked,         *)
(* default_signing_key has to make gpg's choice: it does for an exact      *)
(* selector, and by age if the primary is the oldest; of subkeys of one    *)
(* age gpg's choice is not known, and keyhold's is one of them.  With a    *)
(* primary as new as a subkey it errs (it prefers the primary).            *)
TargetIsSigner ==
    \A op \in {"probe", "use"} :
      (Done(op) /\ call.result.ok /\ call.result.value.target # None) =>
        LET key == call.req.key
            right(k) == call.result.value.target =
                          [fingerprint |-> k.fpr, keygrip |-> k.grip]
        IN  IF call.signed # None
              THEN \E k \in Signer(key) : k.fpr = call.signed /\ right(k)
              ELSE Exact(key) # {} \/ PrimaryIsOldest(key) =>
                     \E k \in Signer(key) : right(k)

(* key_state reports what the agent answered during the call: a refusal, a *)
(* system error or a reply cut short is never turned into a state.         *)
StateIsTheAgents ==
    (Done("state") /\ call.result.ok) =>
      call.facts = {IF call.result.value.cached THEN "hot" ELSE "cold"}

(* clear_passphrase succeeds only if the agent dropped the entry: "lock"   *)
(* and the rollback of an activation rely on it.                           *)
ClearMeansCleared ==
    (Done("clear") /\ call.result.ok) => call.facts = {"cleared"}

(* Of the agent nothing is believed but what it said in its last line.     *)
AgentIsBelieved == StateIsTheAgents /\ ClearMeansCleared

(* The stored flow asks again only for a passphrase that gpg rejected, and *)
(* an answered rejection is not taken for another failure.                 *)
RejectionIsTold ==
    Done("pass") =>
      /\ call.result.ok => call.facts \in {{"validated"}, {"signed"}}
      /\ call.result = Err("BadPassphrase") => call.facts = {"rejected"}
      /\ call.result = Err("GpgFailed") => call.facts # {"rejected"}

(* What an operation reports is what gpg or its agent did during the call: *)
(* neither a state, nor a cleared entry, nor a rejected passphrase is read *)
(* into a reply that does not say so.                                      *)
ReportsAreTrue == AgentIsBelieved /\ RejectionIsTold

(* Whatever way an operation ends, its children have been waited for.      *)
NoChildLeft ==
    (call.step = "returned" /\ child # None) => child.proc = "reaped"

(* A child that is not slow is never killed, however much it writes to     *)
(* either pipe.                                                            *)
OnlySlowIsKilled ==
    (call.step = "returned" /\ call.result = Err("GpgTimeout")) => child.slow

(* Children are waited for on every path and killed only if they hang.     *)
ChildrenEndWell == NoChildLeft /\ OnlySlowIsKilled

(* An unattended operation returns, with a child that hangs as with one    *)
(* that blocks; only a descendant that keeps the pipes of a child that has *)
(* ended can hold it up.                                                   *)
CallReturns ==
    (call.step \notin {"idle", "returned"} /\ ~Prompting(call)) ~>
      \/ call.step = "returned"
      \/ child # None /\ child.heir /\ child.proc = "reaped"
=============================================================================
