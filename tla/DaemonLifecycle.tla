---------------------------- MODULE DaemonLifecycle ----------------------------
(***************************************************************************)
(* Daemon processes and the one socket path they share: bind with its      *)
(* probe of an existing socket, the accept thread, the handlers of         *)
(* accepted connections, the two-step shutdown, the drain, the removal of  *)
(* the socket file, and the `daemon --stop` client that waits for it       *)
(* (src/daemon.rs, src/main.rs: daemon_stop).                              *)
(*                                                                         *)
(* A shutdown may have to wait for a user: the handler of a Lock and a     *)
(* renewal of the scheduler wait without a bound for a foreground `keyhold *)
(* on`, which may sit at a prompt, and the shutdown waits for both.        *)
(*                                                                         *)
(* A socket file names the process that bound it.  It outlives its         *)
(* listener, and a listener outlives the removal of its file.  An element  *)
(* of Daemons is a process; once that process is gone the name may be used *)
(* for a later one.                                                        *)
(***************************************************************************)
EXTENDS Naturals, FiniteSets

CONSTANTS
    None,
    Daemons,                \* bound: daemon processes alive at one time
    Stoppers,               \* bound: `keyhold daemon --stop` processes
    Lockers,                \* bound: `keyhold lock` processes
    Activators,             \* bound: `keyhold on` processes
    ConcurrentStarts,       \* two daemons may be binding at once
    RestartWhileStopping    \* one may be binding while another shuts down

ASSUME DaemonLifecycleAssumption ==
    /\ None \notin Daemons
    /\ ConcurrentStarts \in BOOLEAN
    /\ RestartWhileStopping \in BOOLEAN

VARIABLES
    sock,       \* the daemon whose socket file is at the path, or None
    main,       \* where each daemon's main thread is
    tries,      \* its rounds through bind
    acceptor,   \* its accept thread
    backlog,    \* connections the kernel holds for its listener
    active,     \* connections it has accepted (active_connections)
    stopping,   \* Shared.stopping
    shutdown,   \* Shared.shutdown
    closer,     \* the connection whose Shutdown closed admission, not acked
    locking,    \* the connection whose Lock is in progress (Shared.locking)
    stop,       \* each --stop client: pc and the daemon it asked
    activating, \* the `keyhold on` that hold activation.lock (shared)
    robbed      \* history: whose live socket another daemon has removed

connections == <<backlog, active>>
flags       == <<stopping, shutdown, closer, locking>>
others      == <<stop, activating, robbed>>
vars        == <<sock, main, tries, acceptor, connections, flags, others>>

(* Connections carry a client's Shutdown, its Lock, or nothing at all (a   *)
(* probe, a poll, the wake-up).  Those that carry nothing count as one,    *)
(* and so do those of one client.                                          *)
Empty      == [from |-> None, request |-> "none"]
AskStop(s) == [from |-> s, request |-> "shutdown"]
AskLock(l) == [from |-> l, request |-> "lock"]

Connections ==
    {Empty} \cup {AskStop(s) : s \in Stoppers}
            \cup {AskLock(l) : l \in Lockers}

Init ==
    /\ sock = None
    /\ main = [d \in Daemons |-> "down"]
    /\ tries = [d \in Daemons |-> 0]
    /\ acceptor = [d \in Daemons |-> "off"]
    /\ backlog = [d \in Daemons |-> {}]
    /\ active = [d \in Daemons |-> {}]
    /\ stopping = [d \in Daemons |-> FALSE]
    /\ shutdown = [d \in Daemons |-> FALSE]
    /\ closer = [d \in Daemons |-> None]
    /\ locking = [d \in Daemons |-> None]
    /\ stop = [s \in Stoppers |-> [pc |-> "idle", daemon |-> None]]
    /\ activating = {}
    /\ robbed = {}

-----------------------------------------------------------------------------
Binding(d) == main[d] \in {"probe", "remove", "bind", "chmod"}

Gone(d) == main[d] \in {"down", "exited", "failed", "crashed"}

(* The listener is open from bind until the accept thread returns.         *)
Listening(d) == main[d] = "chmod" \/ acceptor[d] \in {"accept", "check"}

(* UnixStream::connect on the path succeeds.                               *)
Live == sock # None /\ Listening(sock)

Connect(conn) == backlog' = [backlog EXCEPT ![sock] = @ \cup {conn}]

MainGoto(d, pc) == main' = [main EXCEPT ![d] = pc]

(* The file at the path goes, and with it the way to whoever listens.      *)
RemoveFile ==
    /\ sock' = None
    /\ robbed' = IF Live THEN robbed \cup {sock} ELSE robbed

-----------------------------------------------------------------------------
(* bind, three rounds at most.                                             *)

(* A new process; a name some --stop client still watches is not reused.   *)
Start(d) ==
    /\ Gone(d)
    /\ \A s \in Stoppers : stop[s].daemon # d
    /\ ConcurrentStarts \/ \A e \in Daemons : ~Binding(e)
    /\ RestartWhileStopping \/ \A e \in Daemons : Gone(e) \/ ~stopping[e]
    /\ MainGoto(d, "probe")
    /\ tries' = [tries EXCEPT ![d] = 0]
    /\ acceptor' = [acceptor EXCEPT ![d] = "off"]
    /\ stopping' = [stopping EXCEPT ![d] = FALSE]
    /\ shutdown' = [shutdown EXCEPT ![d] = FALSE]
    /\ robbed' = robbed \ {d}
    /\ UNCHANGED <<sock, connections, closer, locking, stop, activating>>

ProbeFindsDaemon(d) ==
    /\ main[d] = "probe"
    /\ Live
    /\ Connect(Empty)
    /\ MainGoto(d, "failed")
    /\ UNCHANGED <<sock, tries, acceptor, active, flags, others>>

ProbeFindsNothing(d) ==
    /\ main[d] = "probe"
    /\ ~Live
    /\ MainGoto(d, "remove")
    /\ UNCHANGED <<sock, tries, acceptor, connections, flags, others>>

(* Mutant: the file is left where it is. *)
KeepStale(d) ==
    /\ main[d] = "remove"
    /\ MainGoto(d, "bind")
    /\ UNCHANGED <<sock, tries, acceptor, connections, flags, others>>

RemoveStale(d) ==
    /\ main[d] = "remove"
    /\ RemoveFile
    /\ MainGoto(d, "bind")
    /\ UNCHANGED <<tries, acceptor, connections, flags, stop, activating>>

(* Mutant: the socket is bound elsewhere and renamed over the path. *)
BindReplaces(d) ==
    /\ main[d] = "bind"
    /\ sock' = d
    /\ MainGoto(d, "chmod")
    /\ UNCHANGED <<tries, acceptor, connections, flags, others>>

BindSucceeds(d) ==
    /\ main[d] = "bind"
    /\ sock = None
    /\ sock' = d
    /\ MainGoto(d, "chmod")
    /\ UNCHANGED <<tries, acceptor, connections, flags, others>>

AddrInUse(d) ==
    /\ main[d] = "bind"
    /\ sock # None
    /\ tries' = [tries EXCEPT ![d] = @ + 1]
    /\ MainGoto(d, IF tries[d] < 2 THEN "probe" ELSE "failed")
    /\ UNCHANGED <<sock, acceptor, connections, flags, others>>

(* set_permissions acts on whatever file is at the path; without one the   *)
(* daemon gives up and drops its listener.                                 *)
Chmod(d) ==
    /\ main[d] = "chmod"
    /\ IF sock # None
         THEN /\ MainGoto(d, "serving")
              /\ acceptor' = [acceptor EXCEPT ![d] = "accept"]
              /\ UNCHANGED backlog
         ELSE /\ MainGoto(d, "failed")
              /\ backlog' = [backlog EXCEPT ![d] = {}]
              /\ UNCHANGED acceptor
    /\ UNCHANGED <<sock, tries, active, flags, others>>

-----------------------------------------------------------------------------
(* The accept thread.                                                      *)

(* It returns and drops the listener: what is still in the backlog is      *)
(* reset.                                                                  *)
CloseListener(d) ==
    /\ acceptor' = [acceptor EXCEPT ![d] = "returned"]
    /\ backlog' = [backlog EXCEPT ![d] = {}]

Accept(d, conn) ==
    /\ acceptor[d] = "accept"
    /\ conn \in backlog[d]
    /\ IF stopping[d]
         THEN CloseListener(d) /\ UNCHANGED active
         ELSE /\ active' = [active EXCEPT ![d] = @ \cup {conn}]
              /\ backlog' = [backlog EXCEPT ![d] = @ \ {conn}]
              /\ acceptor' = [acceptor EXCEPT ![d] = "check"]
    /\ UNCHANGED <<sock, main, tries, flags, others>>

CheckStopping(d) ==
    /\ acceptor[d] = "check"
    /\ IF stopping[d]
         THEN CloseListener(d)
         ELSE /\ acceptor' = [acceptor EXCEPT ![d] = "accept"]
              /\ UNCHANGED backlog
    /\ UNCHANGED <<sock, main, tries, active, flags, others>>

-----------------------------------------------------------------------------
(* Handlers of accepted connections, and the signal thread.                *)

MayStop(d) ==
    RestartWhileStopping \/ \A e \in Daemons : ~Binding(e)

Drop(d, conn) == active' = [active EXCEPT ![d] = @ \ {conn}]

HandleEmpty(d, conn) ==
    /\ ~Gone(d)
    /\ conn \in active[d]
    /\ conn.request = "none"
    /\ Drop(d, conn)
    /\ UNCHANGED <<sock, main, tries, acceptor, backlog, flags, others>>

(* Admission closes under the mutex, before the acknowledgement.           *)
ApplyShutdown(d, conn) ==
    /\ ~Gone(d)
    /\ conn \in active[d]
    /\ conn.request = "shutdown"
    /\ ~stopping[d]
    /\ MayStop(d)
    /\ stopping' = [stopping EXCEPT ![d] = TRUE]
    /\ closer' = [closer EXCEPT ![d] = conn]
    /\ UNCHANGED <<sock, main, tries, acceptor, connections, shutdown, locking,
                   others>>

(* Refused: admission is closed, another lock is in progress, or the hold, *)
(* now off, has no resolved key.                                           *)
RefuseLock(d, conn) ==
    /\ ~Gone(d)
    /\ conn \in active[d]
    /\ conn.request = "lock"
    /\ locking[d] # conn
    /\ Drop(d, conn)
    /\ UNCHANGED <<sock, main, tries, acceptor, backlog, flags, others>>

BeginLock(d, conn) ==
    /\ ~Gone(d)
    /\ conn \in active[d]
    /\ conn.request = "lock"
    /\ ~stopping[d]
    /\ locking[d] = None
    /\ locking' = [locking EXCEPT ![d] = conn]
    /\ UNCHANGED <<sock, main, tries, acceptor, connections, stopping, shutdown,
                   closer, others>>

(* It waits for activation.lock, as long as that takes; then it has the    *)
(* transaction, clears the cache and answers, though its client may long   *)
(* have given up.                                                          *)
EndLock(d, conn) ==
    /\ ~Gone(d)
    /\ conn \in active[d]
    /\ locking[d] = conn
    /\ activating = {}
    /\ locking' = [locking EXCEPT ![d] = None]
    /\ Drop(d, conn)
    /\ UNCHANGED <<sock, main, tries, acceptor, backlog, stopping, shutdown,
                   closer, others>>


(* The response is written; then the connection that closed admission lets *)
(* the scheduler exit.  One that found admission closed is only answered.  *)
Respond(d, conn) ==
    /\ ~Gone(d)
    /\ conn \in active[d]
    /\ conn.request = "shutdown"
    /\ stopping[d]
    /\ stop' = [stop EXCEPT ![conn.from].pc =
                  IF @ = "asked" THEN "poll" ELSE @]
    /\ IF closer[d] = conn
         THEN /\ shutdown' = [shutdown EXCEPT ![d] = TRUE]
              /\ closer' = [closer EXCEPT ![d] = None]
         ELSE UNCHANGED <<shutdown, closer>>
    /\ Drop(d, conn)
    /\ UNCHANGED <<sock, main, tries, acceptor, backlog, stopping, locking,
                   activating, robbed>>

Signal(d) ==
    /\ main[d] \in {"serving", "renewing"}
    /\ ~shutdown[d]
    /\ MayStop(d)
    /\ stopping' = [stopping EXCEPT ![d] = TRUE]
    /\ shutdown' = [shutdown EXCEPT ![d] = TRUE]
    /\ UNCHANGED <<sock, main, tries, acceptor, connections, closer, locking,
                   others>>

-----------------------------------------------------------------------------
(* The main thread: the scheduler, and what follows once it has returned.  *)

(* A renewal is due, and an activation has the transaction of its key.     *)
(* (One that does not wait ends within gpg's timeout.)                     *)
RenewalWaits(d) ==
    /\ main[d] = "serving"
    /\ ~shutdown[d]
    /\ activating # {}
    /\ MainGoto(d, "renewing")
    /\ UNCHANGED <<sock, tries, acceptor, connections, flags, others>>

RenewalEnds(d) ==
    /\ main[d] = "renewing"
    /\ activating = {}
    /\ MainGoto(d, "serving")
    /\ UNCHANGED <<sock, tries, acceptor, connections, flags, others>>

SchedulerReturns(d) ==
    /\ main[d] = "serving"
    /\ shutdown[d]
    /\ MainGoto(d, "wake")
    /\ UNCHANGED <<sock, tries, acceptor, connections, flags, others>>

(* Mutant: no wake-up. *)
WakeNobody(d) ==
    /\ main[d] = "wake"
    /\ MainGoto(d, "join")
    /\ UNCHANGED <<sock, tries, acceptor, connections, flags, others>>

(* Wake the accept thread by a connection to the path, whoever answers.    *)
WakeAcceptor(d) ==
    /\ main[d] = "wake"
    /\ MainGoto(d, "join")
    /\ IF Live THEN Connect(Empty) ELSE UNCHANGED backlog
    /\ UNCHANGED <<sock, tries, acceptor, active, flags, others>>

JoinAcceptor(d) ==
    /\ main[d] = "join"
    /\ acceptor[d] = "returned"
    /\ MainGoto(d, "drain")
    /\ UNCHANGED <<sock, tries, acceptor, connections, flags, others>>

(* Mutant: accepted requests are not waited for. *)
SkipDrain(d) ==
    /\ main[d] = "drain"
    /\ MainGoto(d, "cleanup")
    /\ UNCHANGED <<sock, tries, acceptor, connections, flags, others>>

Drain(d) ==
    /\ main[d] = "drain"
    /\ active[d] = {}
    /\ MainGoto(d, "cleanup")
    /\ UNCHANGED <<sock, tries, acceptor, connections, flags, others>>

(* shutdown_cleanup: whatever the policies do, failures never stop it.     *)
Cleanup(d) ==
    /\ main[d] = "cleanup"
    /\ MainGoto(d, "unlink")
    /\ UNCHANGED <<sock, tries, acceptor, connections, flags, others>>

RemoveSocket(d) ==
    /\ main[d] = "unlink"
    /\ RemoveFile
    /\ MainGoto(d, "exited")
    /\ UNCHANGED <<tries, acceptor, connections, flags, stop, activating>>

(* SIGKILL or a crash: the kernel closes everything but the socket file.   *)
Crash(d) ==
    /\ ~Gone(d)
    /\ MainGoto(d, "crashed")
    /\ acceptor' = [acceptor EXCEPT ![d] = "off"]
    /\ backlog' = [backlog EXCEPT ![d] = {}]
    /\ active' = [active EXCEPT ![d] = {}]
    /\ closer' = [closer EXCEPT ![d] = None]
    /\ locking' = [locking EXCEPT ![d] = None]
    /\ UNCHANGED <<sock, tries, stopping, shutdown, others>>

-----------------------------------------------------------------------------
(* `keyhold daemon --stop`.                                                *)

StopGoto(s, pc) == stop' = [stop EXCEPT ![s].pc = pc]

AskToStop(s) ==
    /\ stop[s].pc = "idle"
    /\ Live
    /\ Connect(AskStop(s))
    /\ stop' = [stop EXCEPT ![s] = [pc |-> "asked", daemon |-> sock]]
    /\ UNCHANGED <<sock, main, tries, acceptor, active, flags, activating,
                   robbed>>

(* Its connection is reset before a response.                              *)
AskFails(s) ==
    /\ stop[s].pc = "asked"
    /\ AskStop(s) \notin backlog[stop[s].daemon] \cup active[stop[s].daemon]
    /\ StopGoto(s, "error")
    /\ UNCHANGED <<sock, main, tries, acceptor, connections, flags, activating,
                   robbed>>

(* Mutant: a refused connection is enough. *)
TrustRefusal(s) ==
    /\ stop[s].pc = "poll"
    /\ IF Live
         THEN Connect(Empty) /\ UNCHANGED stop
         ELSE StopGoto(s, "stopped") /\ UNCHANGED backlog
    /\ UNCHANGED <<sock, main, tries, acceptor, active, flags, activating,
                   robbed>>

(* wait_until_stopped: a connection attempt, then a look at the path.      *)
Poll(s) ==
    /\ stop[s].pc = "poll"
    /\ IF Live
         THEN Connect(Empty) /\ UNCHANGED stop
         ELSE StopGoto(s, "look") /\ UNCHANGED backlog
    /\ UNCHANGED <<sock, main, tries, acceptor, active, flags, activating,
                   robbed>>

Look(s) ==
    /\ stop[s].pc = "look"
    /\ StopGoto(s, IF sock = None THEN "stopped" ELSE "poll")
    /\ UNCHANGED <<sock, main, tries, acceptor, connections, flags, activating,
                   robbed>>

PollTimesOut(s) ==
    /\ stop[s].pc = "poll"
    /\ StopGoto(s, "error")
    /\ UNCHANGED <<sock, main, tries, acceptor, connections, flags, activating,
                   robbed>>

-----------------------------------------------------------------------------
(* `keyhold lock` and `keyhold on`.                                        *)

SendLock(l) ==
    /\ Live
    /\ Connect(AskLock(l))
    /\ UNCHANGED <<sock, main, tries, acceptor, active, flags, others>>

(* A foreground activation takes activation.lock, which a lock that has it *)
(* excludes, and its key's transaction, ...                                *)
ActivationBegins(a) ==
    /\ activating' = activating \cup {a}
    /\ UNCHANGED <<sock, main, tries, acceptor, connections, flags, stop,
                   robbed>>

(* ... and leaves, once its prompt is answered, if ever.                   *)
ActivationEnds(a) ==
    /\ a \in activating
    /\ activating' = activating \ {a}
    /\ UNCHANGED <<sock, main, tries, acceptor, connections, flags, stop,
                   robbed>>

-----------------------------------------------------------------------------
(* The run is over: no daemon is left, or nobody has anything for it.      *)
Terminated ==
    /\ \A d \in Daemons : main[d] \notin {"down", "serving"}
    /\ UNCHANGED vars

MainStep(d) ==
    \/ ProbeFindsDaemon(d)
    \/ ProbeFindsNothing(d)
    \/ RemoveStale(d)
    \/ BindSucceeds(d)
    \/ AddrInUse(d)
    \/ Chmod(d)
    \/ RenewalEnds(d)
    \/ SchedulerReturns(d)
    \/ WakeAcceptor(d)
    \/ JoinAcceptor(d)
    \/ Drain(d)
    \/ Cleanup(d)
    \/ RemoveSocket(d)

AcceptStep(d) ==
    \/ \E conn \in Connections : Accept(d, conn)
    \/ CheckStopping(d)

HandlerStep(d, conn) ==
    \/ HandleEmpty(d, conn)
    \/ ApplyShutdown(d, conn)
    \/ Respond(d, conn)
    \/ RefuseLock(d, conn)
    \/ BeginLock(d, conn)
    \/ EndLock(d, conn)

StopperStep(s) ==
    \/ AskToStop(s)
    \/ AskFails(s)
    \/ Poll(s)
    \/ Look(s)
    \/ PollTimesOut(s)

Next ==
    \/ \E d \in Daemons : Start(d) \/ MainStep(d) \/ AcceptStep(d)
    \/ \E d \in Daemons, conn \in Connections : HandlerStep(d, conn)
    \/ \E d \in Daemons : Signal(d)
    \/ \E d \in Daemons : RenewalWaits(d)
    \/ \E d \in Daemons : Crash(d)
    \/ \E s \in Stoppers : StopperStep(s)
    \/ \E l \in Lockers : SendLock(l)
    \/ \E a \in Activators : ActivationBegins(a) \/ ActivationEnds(a)
    \/ Terminated

(***************************************************************************)
(* Each thread of a daemon takes its next step when it can: its socket and *)
(* its gpg have timeouts, while the two waits for an activation (EndLock,  *)
(* RenewalEnds) are enabled only when there is none.  A handler is a       *)
(* thread of its own.  An activation need not end; signals, crashes,       *)
(* starts and clients owe nothing.                                         *)
(***************************************************************************)
Fairness ==
    \A d \in Daemons :
        /\ WF_vars(MainStep(d))
        /\ WF_vars(AcceptStep(d))
        /\ \A conn \in Connections : WF_vars(HandlerStep(d, conn))

Spec == Init /\ [][Next]_vars

FairSpec == Spec /\ Fairness

-----------------------------------------------------------------------------
(* Properties.                                                             *)

MainPCs ==
    { "down", "probe", "remove", "bind", "chmod", "serving", "renewing",
      "wake", "join", "drain", "cleanup", "unlink", "exited", "failed",
      "crashed" }

(* Every variable stays in its type.                                       *)
TypeOK ==
    /\ sock \in Daemons \cup {None}
    /\ main \in [Daemons -> MainPCs]
    /\ tries \in [Daemons -> 0..3]
    /\ acceptor \in [Daemons -> {"off", "accept", "check", "returned"}]
    /\ backlog \in [Daemons -> SUBSET Connections]
    /\ active \in [Daemons -> SUBSET Connections]
    /\ stopping \in [Daemons -> BOOLEAN]
    /\ shutdown \in [Daemons -> BOOLEAN]
    /\ closer \in [Daemons -> Connections \cup {None}]
    /\ locking \in [Daemons -> Connections \cup {None}]
    /\ stop \in [ Stoppers ->
                    [ pc : {"idle", "asked", "poll", "look", "stopped", "error"},
                      daemon : Daemons \cup {None} ] ]
    /\ activating \subseteq Activators
    /\ robbed \subseteq Daemons

(* The shutdown policies run only once every accepted connection has been  *)
(* answered and no other can be accepted (the drain before                 *)
(* shutdown_cleanup): no lock is clearing the key beside them, and the     *)
(* client whose request is honoured has its acknowledgement by then.       *)
CleanupIsExclusive ==
    \A d \in Daemons :
        main[d] \in {"cleanup", "unlink", "exited"} =>
            /\ acceptor[d] = "returned"
            /\ active[d] = {}
            /\ closer[d] = None
            /\ locking[d] = None

(* However daemons crash, stop and start after one another, the path leads *)
(* to the one daemon that listens or still runs its scheduler.             *)
OneDaemonServes ==
    \A d \in Daemons :
        Listening(d) \/ main[d] \in {"serving", "renewing"} => sock = d

(* And however they overlap: of the daemons that listen the path leads to  *)
(* all, hence there is one, but for those whose live socket another has    *)
(* removed.  Only the two removals that do not look (in bind, after the    *)
(* probe, and at the end of a shutdown) cut a daemon off; the bind itself, *)
(* a crash, a stale file, a failed start or a lost race for the path       *)
(* never does.                                                             *)
OnlyRobbedAreCutOff ==
    \A d \in Daemons : Listening(d) /\ d \notin robbed => sock = d

(* `daemon --stop` reports success only after the daemon that acknowledged *)
(* it has cleaned up.                                                      *)
StopMeansCleanedUp ==
    \A s \in Stoppers :
        stop[s].pc = "stopped" => main[stop[s].daemon] \in {"exited", "crashed"}

(* A lock or a renewal of d waits for a foreground activation.             *)
WaitsForUser(d) ==
    activating # {} /\ (locking[d] # None \/ main[d] = "renewing")

(* Its path was taken, so the connection that should wake its accept       *)
(* thread has gone to another daemon or nowhere.                           *)
LostItsPath(d) ==
    d \in robbed /\ main[d] = "join" /\ acceptor[d] = "accept"

(* A shutdown that was accepted or signalled ends with the process,        *)
(* whatever overlaps; only an activation at its prompt, or activations one *)
(* after another, or the loss of its path can keep it from that for ever.  *)
ShutdownCompletes ==
    \A d \in Daemons :
        \/ stopping[d] ~> Gone(d)
        \/ []<>WaitsForUser(d)
        \/ []<>LostItsPath(d)

(* A start that finds no daemon serves in the end, also when the last one  *)
(* crashed and left its socket file: bind recovers from a stale socket.    *)
StaleSocketIsRecovered ==
    \A d \in Daemons :
        (main[d] = "probe" /\ ~Live) ~> main[d] \in {"serving", "crashed"}

=============================================================================
