------------------------ MODULE DaemonLifecycleProofs ------------------------
(***************************************************************************)
(* Theorems about DaemonLifecycle, for any number of daemons and of --stop *)
(* clients: what holds of the shutdown and of the socket path whatever     *)
(* overlaps, and what else holds when starts and stops do not overlap.     *)
(***************************************************************************)
EXTENDS DaemonLifecycle, TLAPS

-----------------------------------------------------------------------------
(***************************************************************************)
(* Types.                                                                  *)
(***************************************************************************)

(* A fourth round through bind is never begun.                             *)
RoundsBounded == \A d \in Daemons : Binding(d) => tries[d] \in 0..2

(* Connections are made by processes.                                      *)
LEMMA ConnectType ==
    ASSUME TypeOK, Live, NEW conn \in Connections, Connect(conn)
    PROVE  backlog' \in [Daemons -> SUBSET Connections]
  BY DEF TypeOK, Live, Connect

(* Only stop is typed by position: a response moves its client from asked  *)
(* to poll, whoever that is.                                               *)
LEMMA RespondType ==
    ASSUME TypeOK, NEW d \in Daemons, NEW conn \in Connections,
           Respond(d, conn)
    PROVE  TypeOK'
  <1>1. stop' \in [ Stoppers ->
                     [ pc : {"idle", "asked", "poll", "look", "stopped",
                             "error"},
                       daemon : Daemons \cup {None} ] ]
    <2> DEFINE pcs == {"idle", "asked", "poll", "look", "stopped", "error"}
               next == IF stop[conn.from].pc = "asked"
                         THEN "poll" ELSE stop[conn.from].pc
    <2>1. stop' = [stop EXCEPT ![conn.from].pc = next]
      BY DEF Respond
    <2>2. ASSUME NEW s \in Stoppers
          PROVE  stop'[s] \in [pc : pcs, daemon : Daemons \cup {None}]
      <3>1. stop[s] \in [pc : pcs, daemon : Daemons \cup {None}]
        BY DEF TypeOK
      <3>2. CASE s = conn.from
        <4>1. next \in pcs
          BY <3>1, <3>2
        <4>2. stop'[s] = [stop[s] EXCEPT !.pc = next]
          BY <2>1, <3>2 DEF TypeOK
        <4>3. QED
          BY <3>1, <4>1, <4>2
      <3>3. CASE s # conn.from
        BY <2>1, <3>1, <3>3 DEF TypeOK
      <3>4. QED
        BY <3>2, <3>3
    <2>3. stop' = [s \in Stoppers |-> stop'[s]]
      BY <2>1 DEF TypeOK
    <2>4. QED
      BY <2>2, <2>3
  <1>2. UNCHANGED <<sock, main, tries, acceptor, backlog, stopping, locking,
                    activating, robbed>>
    BY DEF Respond
  <1>3. active' \in [Daemons -> SUBSET Connections]
    BY DEF TypeOK, Respond, Drop
  <1>4. shutdown' \in [Daemons -> BOOLEAN]
    BY DEF TypeOK, Respond
  <1>5. closer' \in [Daemons -> Connections \cup {None}]
    BY DEF TypeOK, Respond
  <1>6. QED
    BY <1>1, <1>2, <1>3, <1>4, <1>5 DEF TypeOK

(* The types are inductive with the bound on the rounds.                   *)
LEMMA TypeNext ==
    ASSUME TypeOK, RoundsBounded, [Next]_vars
    PROVE  TypeOK' /\ RoundsBounded'
  <1> USE DEF MainPCs, MainGoto, Binding
  <1>1. ASSUME NEW d \in Daemons,
               \/ Start(d) \/ ProbeFindsNothing(d) \/ RemoveStale(d)
               \/ BindSucceeds(d) \/ AddrInUse(d)
        PROVE  TypeOK' /\ RoundsBounded'
    <2>1. CASE Start(d)
      BY <2>1 DEF TypeOK, RoundsBounded, Start, connections
    <2>2. CASE ProbeFindsNothing(d) \/ RemoveStale(d) \/ BindSucceeds(d)
      BY <2>2 DEF TypeOK, RoundsBounded, ProbeFindsNothing, RemoveStale,
                  RemoveFile, Live, BindSucceeds, connections, flags, others
    <2>3. CASE AddrInUse(d)
      <3>1. tries[d] \in 0..2
        BY <2>3 DEF AddrInUse, RoundsBounded
      <3>2. tries' \in [Daemons -> 0..3] /\ tries'[d] = tries[d] + 1
        BY <2>3, <3>1 DEF AddrInUse, TypeOK
      <3>3. \A e \in Daemons : e # d => tries'[e] = tries[e]
        BY <2>3 DEF AddrInUse, TypeOK
      <3>4. main' \in [Daemons -> MainPCs]
        BY <2>3 DEF AddrInUse, TypeOK
      <3>5. RoundsBounded'
        BY <2>3, <3>1, <3>2, <3>3 DEF AddrInUse, RoundsBounded, TypeOK
      <3>6. QED
        BY <2>3, <3>2, <3>4, <3>5
        DEF AddrInUse, TypeOK, connections, flags, others
    <2>4. QED
      BY <1>1, <2>1, <2>2, <2>3
  <1>2. ASSUME NEW d \in Daemons, ProbeFindsDaemon(d) \/ WakeAcceptor(d)
        PROVE  TypeOK' /\ RoundsBounded'
    <2>1. Empty \in Connections
      BY DEF Connections
    <2>2. backlog' \in [Daemons -> SUBSET Connections]
      BY <1>2, <2>1, ConnectType
      DEF ProbeFindsDaemon, WakeAcceptor, TypeOK
    <2>3. QED
      BY <1>2, <2>2
      DEF TypeOK, RoundsBounded, ProbeFindsDaemon, WakeAcceptor, flags,
          others
  <1>3. ASSUME NEW d \in Daemons, Chmod(d) \/ SchedulerReturns(d)
               \/ JoinAcceptor(d) \/ Drain(d) \/ Cleanup(d)
               \/ RemoveSocket(d) \/ Signal(d) \/ Crash(d)
               \/ RenewalEnds(d) \/ RenewalWaits(d)
        PROVE  TypeOK' /\ RoundsBounded'
    BY <1>3 DEF TypeOK, RoundsBounded, Chmod, SchedulerReturns, JoinAcceptor,
                Drain, Cleanup, RemoveSocket, RemoveFile, Live, RenewalEnds,
                RenewalWaits, Signal, Crash, connections, flags, others
  <1>4. ASSUME NEW d \in Daemons, AcceptStep(d)
        PROVE  TypeOK' /\ RoundsBounded'
    BY <1>4 DEF TypeOK, RoundsBounded, AcceptStep, Accept, CheckStopping,
                CloseListener, flags, others
  <1>5. ASSUME NEW d \in Daemons, NEW conn \in Connections,
               \/ HandleEmpty(d, conn) \/ ApplyShutdown(d, conn)
               \/ RefuseLock(d, conn) \/ BeginLock(d, conn)
               \/ EndLock(d, conn)
        PROVE  TypeOK' /\ RoundsBounded'
    <2>1. CASE HandleEmpty(d, conn) \/ RefuseLock(d, conn)
      BY <2>1 DEF TypeOK, RoundsBounded, HandleEmpty, RefuseLock, Drop,
                  flags, others
    <2>2. CASE ApplyShutdown(d, conn)
      BY <2>2 DEF TypeOK, RoundsBounded, ApplyShutdown, connections, others
    <2>3. CASE BeginLock(d, conn)
      BY <2>3 DEF TypeOK, RoundsBounded, BeginLock, connections, others
    <2>4. CASE EndLock(d, conn)
      <3>1. active' \in [Daemons -> SUBSET Connections]
        BY <2>4 DEF EndLock, Drop, TypeOK
      <3>2. locking' \in [Daemons -> Connections \cup {None}]
        BY <2>4 DEF EndLock, TypeOK
      <3>3. QED
        BY <2>4, <3>1, <3>2 DEF TypeOK, RoundsBounded, EndLock, others
    <2>5. QED
      BY <1>5, <2>1, <2>2, <2>3, <2>4
  <1>6. ASSUME NEW d \in Daemons, NEW conn \in Connections, Respond(d, conn)
        PROVE  TypeOK' /\ RoundsBounded'
    BY <1>6, RespondType DEF Respond, RoundsBounded
  <1>7. ASSUME NEW s \in Stoppers, AskToStop(s) \/ Poll(s)
        PROVE  TypeOK' /\ RoundsBounded'
    <2>1. {Empty, AskStop(s)} \subseteq Connections
      BY DEF Connections
    <2>2. backlog' \in [Daemons -> SUBSET Connections]
      BY <1>7, <2>1, ConnectType DEF AskToStop, Poll, TypeOK
    <2>3. QED
      BY <1>7, <2>2 DEF TypeOK, RoundsBounded, AskToStop, Poll, StopGoto,
                        Live, flags
  <1>8. ASSUME NEW s \in Stoppers,
               AskFails(s) \/ Look(s) \/ PollTimesOut(s)
        PROVE  TypeOK' /\ RoundsBounded'
    BY <1>8 DEF TypeOK, RoundsBounded, AskFails, Look, PollTimesOut,
                StopGoto, connections, flags
  <1>9. ASSUME NEW l \in Lockers, SendLock(l)
        PROVE  TypeOK' /\ RoundsBounded'
    <2>1. AskLock(l) \in Connections
      BY DEF Connections
    <2>2. backlog' \in [Daemons -> SUBSET Connections]
      BY <1>9, <2>1, ConnectType DEF SendLock
    <2>3. QED
      BY <1>9, <2>2 DEF TypeOK, RoundsBounded, SendLock, flags, others
  <1>10. ASSUME NEW a \in Activators, ActivationBegins(a) \/ ActivationEnds(a)
         PROVE  TypeOK' /\ RoundsBounded'
    BY <1>10 DEF TypeOK, RoundsBounded, ActivationBegins, ActivationEnds,
                 connections, flags
  <1>11. CASE UNCHANGED vars
    BY <1>11 DEF TypeOK, RoundsBounded, vars, connections, flags, others
  <1>12. QED
    BY <1>1, <1>2, <1>3, <1>4, <1>5, <1>6, <1>7, <1>8, <1>9, <1>10, <1>11
    DEF Next, MainStep, HandlerStep, StopperStep, Terminated

(* Every variable keeps its type.                                          *)
THEOREM LifecycleTypeCorrect == Spec => []TypeOK
  <1>1. Init => TypeOK /\ RoundsBounded
    BY DEF Init, TypeOK, RoundsBounded, MainPCs, Binding
  <1>2. (TypeOK /\ RoundsBounded) /\ [Next]_vars =>
          (TypeOK /\ RoundsBounded)'
    BY TypeNext
  <1>3. QED
    BY <1>1, <1>2, PTL DEF Spec

-----------------------------------------------------------------------------
(***************************************************************************)
(* The order of a shutdown, whatever overlaps.                             *)
(***************************************************************************)

(* A daemon that is not past bind has accepted nothing, the main thread    *)
(* goes on once the accept thread has returned and once nothing accepted   *)
(* is left; the connections that closed admission and that lock the key    *)
(* are accepted ones.                                                      *)
ThreadsInOrder ==
    \A d \in Daemons :
        /\ (Binding(d) \/ main[d] \in {"down", "failed", "crashed"}) =>
             acceptor[d] = "off" /\ active[d] = {}
        /\ main[d] \in {"drain", "cleanup", "unlink", "exited"} =>
             acceptor[d] = "returned"
        /\ main[d] \in {"cleanup", "unlink", "exited"} => active[d] = {}
        /\ closer[d] # None =>
             closer[d] \in active[d] /\ closer[d].request = "shutdown"
        /\ locking[d] # None =>
             locking[d] \in active[d] /\ locking[d].request = "lock"

LEMMA OrderNext ==
    ASSUME TypeOK, ThreadsInOrder, [Next]_vars
    PROVE  ThreadsInOrder'
  <1> USE DEF MainGoto, Binding, Gone
  <1>1. ASSUME NEW d \in Daemons, Start(d) \/ MainStep(d)
        PROVE  ThreadsInOrder'
    <2>1. UNCHANGED <<active, closer, locking>>
      BY <1>1 DEF Start, MainStep, ProbeFindsDaemon, ProbeFindsNothing,
                  RemoveStale, BindSucceeds, AddrInUse, Chmod,
                  RenewalEnds, SchedulerReturns, WakeAcceptor, JoinAcceptor, Drain,
                  Cleanup, RemoveSocket, connections, flags
    <2>2. \A e \in Daemons : e # d =>
            main'[e] = main[e] /\ acceptor'[e] = acceptor[e]
      BY <1>1 DEF Start, MainStep, ProbeFindsDaemon, ProbeFindsNothing,
                  RemoveStale, BindSucceeds, AddrInUse, Chmod,
                  RenewalEnds, SchedulerReturns, WakeAcceptor, JoinAcceptor, Drain,
                  Cleanup, RemoveSocket, TypeOK
    <2>3. CASE Start(d)
      <3>1. main'[d] = "probe" /\ acceptor'[d] = "off" /\ active[d] = {}
        BY <2>3 DEF Start, TypeOK, ThreadsInOrder
      <3>2. QED
        BY <2>1, <2>2, <3>1 DEF ThreadsInOrder
    <2>4. CASE \/ ProbeFindsDaemon(d) \/ ProbeFindsNothing(d)
               \/ RemoveStale(d) \/ BindSucceeds(d) \/ AddrInUse(d)
      <3>1. /\ main'[d] \in {"probe", "remove", "bind", "chmod", "failed"}
            /\ acceptor'[d] = acceptor[d] /\ Binding(d)
        BY <2>4 DEF ProbeFindsDaemon, ProbeFindsNothing, RemoveStale,
                    BindSucceeds, AddrInUse, TypeOK
      <3>2. QED
        BY <2>1, <2>2, <3>1 DEF ThreadsInOrder
    <2>5. CASE Chmod(d)
      <3>1. /\ main'[d] \in {"serving", "failed"} /\ Binding(d)
            /\ main'[d] = "failed" => acceptor'[d] = acceptor[d]
        BY <2>5 DEF Chmod, TypeOK
      <3>2. QED
        BY <2>1, <2>2, <3>1 DEF ThreadsInOrder
    <2>6. CASE RenewalEnds(d) \/ SchedulerReturns(d) \/ WakeAcceptor(d)
               \/ JoinAcceptor(d) \/ Drain(d) \/ Cleanup(d)
               \/ RemoveSocket(d)
      <3>1. /\ acceptor'[d] = acceptor[d]
            /\ main'[d] \in {"serving", "wake", "join", "drain", "cleanup",
                             "unlink", "exited"}
            /\ main'[d] = "drain" => acceptor[d] = "returned"
            /\ main'[d] \in {"cleanup", "unlink", "exited"} =>
                 /\ main[d] \in {"drain", "cleanup", "unlink"}
                 /\ main[d] = "drain" => active[d] = {}
        BY <2>6 DEF RenewalEnds, SchedulerReturns, WakeAcceptor,
                    JoinAcceptor, Drain,
                    Cleanup, RemoveSocket, TypeOK
      <3>2. QED
        BY <2>1, <2>2, <3>1 DEF ThreadsInOrder
    <2>7. QED
      BY <1>1, <2>3, <2>4, <2>5, <2>6 DEF MainStep
  <1>2. ASSUME NEW d \in Daemons, AcceptStep(d)
        PROVE  ThreadsInOrder'
    <2>1. UNCHANGED <<main, closer, locking>>
      BY <1>2 DEF AcceptStep, Accept, CheckStopping, flags
    <2>2. acceptor[d] \in {"accept", "check"}
      BY <1>2 DEF AcceptStep, Accept, CheckStopping
    <2>3. \A e \in Daemons : active[e] \subseteq active'[e]
      BY <1>2 DEF AcceptStep, Accept, CheckStopping, CloseListener, TypeOK
    <2>4. \A e \in Daemons : e # d =>
            active'[e] = active[e] /\ acceptor'[e] = acceptor[e]
      BY <1>2 DEF AcceptStep, Accept, CheckStopping, CloseListener, TypeOK
    <2>5. QED
      BY <2>1, <2>2, <2>3, <2>4 DEF ThreadsInOrder
  <1>3. ASSUME NEW d \in Daemons, NEW conn \in Connections,
               HandlerStep(d, conn)
        PROVE  ThreadsInOrder'
    <2>1. UNCHANGED <<main, acceptor>>
      BY <1>3 DEF HandlerStep, HandleEmpty, ApplyShutdown, Respond,
                  RefuseLock, BeginLock, EndLock
    <2>2. \A e \in Daemons : active'[e] \subseteq active[e]
      BY <1>3 DEF HandlerStep, HandleEmpty, ApplyShutdown, Respond,
                  RefuseLock, BeginLock, EndLock, Drop, connections, TypeOK
    <2>3. ASSUME NEW e \in Daemons
          PROVE  /\ closer'[e] # None =>
                      closer'[e] \in active'[e] /\ closer'[e].request = "shutdown"
                 /\ locking'[e] # None =>
                      locking'[e] \in active'[e] /\ locking'[e].request = "lock"
      <3>1. CASE HandleEmpty(d, conn) \/ RefuseLock(d, conn)
        BY <3>1 DEF HandleEmpty, RefuseLock, Drop, flags, ThreadsInOrder,
                    TypeOK
      <3>2. CASE ApplyShutdown(d, conn) \/ BeginLock(d, conn)
        BY <3>2 DEF ApplyShutdown, BeginLock, connections, ThreadsInOrder,
                    TypeOK
      <3>3. CASE Respond(d, conn)
        <4>1. CASE closer[d] = conn
          BY <3>3, <4>1 DEF Respond, Drop, ThreadsInOrder, TypeOK
        <4>2. CASE closer[d] # conn
          BY <3>3, <4>2 DEF Respond, Drop, ThreadsInOrder, TypeOK
        <4>3. QED
          BY <4>1, <4>2
      <3>4. CASE EndLock(d, conn)
        BY <3>4 DEF EndLock, Drop, ThreadsInOrder, TypeOK
      <3>5. QED
        BY <1>3, <3>1, <3>2, <3>3, <3>4 DEF HandlerStep
    <2>4. QED
      BY <2>1, <2>2, <2>3 DEF ThreadsInOrder
  <1>4. ASSUME NEW d \in Daemons, Crash(d)
        PROVE  ThreadsInOrder'
    BY <1>4 DEF Crash, ThreadsInOrder, TypeOK
  <1>5. ASSUME NEW d \in Daemons, RenewalWaits(d)
        PROVE  ThreadsInOrder'
    BY <1>5 DEF RenewalWaits, ThreadsInOrder, TypeOK, connections, flags
  <1>6. CASE \/ \E d \in Daemons : Signal(d)
             \/ \E s \in Stoppers : StopperStep(s)
             \/ \E l \in Lockers : SendLock(l)
             \/ \E a \in Activators : ActivationBegins(a) \/ ActivationEnds(a)
             \/ Terminated \/ UNCHANGED vars
    <2>1. UNCHANGED <<main, acceptor, active, closer, locking>>
      BY <1>6 DEF Signal, StopperStep, AskToStop, AskFails, Poll, Look,
                  PollTimesOut, SendLock, ActivationBegins, ActivationEnds,
                  Terminated, vars, connections, flags
    <2>2. QED
      BY <2>1 DEF ThreadsInOrder
  <1>7. QED
    BY <1>1, <1>2, <1>3, <1>4, <1>5, <1>6 DEF Next

(* For any number of daemons, with any overlap of starts, stops, crashes   *)
(* and signals, the policies of a shutdown run after its last request.     *)
THEOREM CleanupStaysExclusive == Spec => []CleanupIsExclusive
  <1>1. Init => ThreadsInOrder
    BY DEF Init, ThreadsInOrder, Binding
  <1>2. TypeOK /\ ThreadsInOrder /\ [Next]_vars => ThreadsInOrder'
    BY OrderNext
  <1>3. ThreadsInOrder => CleanupIsExclusive
    BY DEF ThreadsInOrder, CleanupIsExclusive
  <1>4. QED
    BY <1>1, <1>2, <1>3, LifecycleTypeCorrect, PTL DEF Spec

-----------------------------------------------------------------------------
(***************************************************************************)
(* The socket path, whatever overlaps.                                     *)
(***************************************************************************)

LEMMA CutOffNext ==
    ASSUME TypeOK, ThreadsInOrder, OnlyRobbedAreCutOff, [Next]_vars
    PROVE  OnlyRobbedAreCutOff'
  <1> USE DEF MainGoto, Binding
  <1>1. ASSUME UNCHANGED <<sock, robbed>>,
               \A e \in Daemons : Listening(e)' => Listening(e)
        PROVE  OnlyRobbedAreCutOff'
    BY <1>1 DEF OnlyRobbedAreCutOff
  <1>2. ASSUME NEW d \in Daemons, Start(d)
        PROVE  OnlyRobbedAreCutOff'
    <2>1. ~Listening(d)' /\ UNCHANGED sock /\ robbed' = robbed \ {d}
      BY <1>2 DEF Start, Listening, TypeOK
    <2>2. \A e \in Daemons : e # d => (Listening(e)' <=> Listening(e))
      BY <1>2 DEF Start, Listening, TypeOK
    <2>3. QED
      BY <2>1, <2>2 DEF OnlyRobbedAreCutOff
  <1>3. ASSUME NEW d \in Daemons, RemoveStale(d) \/ RemoveSocket(d)
        PROVE  OnlyRobbedAreCutOff'
    <2>1. ~Listening(d)'
      BY <1>3 DEF RemoveStale, RemoveSocket, Listening, ThreadsInOrder,
                  TypeOK
    <2>2. \A e \in Daemons : e # d => (Listening(e)' <=> Listening(e))
      BY <1>3 DEF RemoveStale, RemoveSocket, Listening, TypeOK
    <2>3. robbed' = IF Live THEN robbed \cup {sock} ELSE robbed
      BY <1>3 DEF RemoveStale, RemoveSocket, RemoveFile
    <2>4. ASSUME NEW e \in Daemons, Listening(e)', e \notin robbed'
          PROVE  FALSE
      <3>1. Listening(e) /\ e \notin robbed
        BY <2>1, <2>2, <2>3, <2>4
      <3>2. sock = e
        BY <3>1 DEF OnlyRobbedAreCutOff
      <3>3. Live
        BY <3>1, <3>2, DaemonLifecycleAssumption DEF Live
      <3>4. QED
        BY <2>3, <2>4, <3>2, <3>3
    <2>5. QED
      BY <2>4 DEF OnlyRobbedAreCutOff
  <1>4. ASSUME NEW d \in Daemons, BindSucceeds(d)
        PROVE  OnlyRobbedAreCutOff'
    <2>1. sock = None /\ sock' = d /\ UNCHANGED robbed
      BY <1>4 DEF BindSucceeds, others
    <2>2. \A e \in Daemons : e # d => (Listening(e)' <=> Listening(e))
      BY <1>4 DEF BindSucceeds, Listening, TypeOK
    <2>3. QED
      BY <2>1, <2>2, DaemonLifecycleAssumption DEF OnlyRobbedAreCutOff
  <1>5. ASSUME NEW d \in Daemons,
               \/ ProbeFindsDaemon(d) \/ ProbeFindsNothing(d)
               \/ AddrInUse(d) \/ Chmod(d)
        PROVE  OnlyRobbedAreCutOff'
    <2>1. UNCHANGED <<sock, robbed>>
      BY <1>5 DEF ProbeFindsDaemon, ProbeFindsNothing, AddrInUse, Chmod,
                  others
    <2>2. \A e \in Daemons : Listening(e)' => Listening(e)
      BY <1>5 DEF ProbeFindsDaemon, ProbeFindsNothing, AddrInUse, Chmod,
                  Listening, TypeOK
    <2>3. QED
      BY <1>1, <2>1, <2>2
  <1>6. ASSUME NEW d \in Daemons,
               \/ RenewalEnds(d) \/ RenewalWaits(d) \/ SchedulerReturns(d)
               \/ WakeAcceptor(d) \/ JoinAcceptor(d) \/ Drain(d)
               \/ Cleanup(d) \/ Crash(d)
        PROVE  OnlyRobbedAreCutOff'
    <2>1. UNCHANGED <<sock, robbed>>
      BY <1>6 DEF RenewalEnds, RenewalWaits, SchedulerReturns,
                  WakeAcceptor, JoinAcceptor, Drain, Cleanup, Crash, others
    <2>2. \A e \in Daemons : Listening(e)' => Listening(e)
      BY <1>6 DEF RenewalEnds, RenewalWaits, SchedulerReturns,
                  WakeAcceptor, JoinAcceptor, Drain, Cleanup, Crash,
                  Listening, TypeOK
    <2>3. QED
      BY <1>1, <2>1, <2>2
  <1>7. ASSUME NEW d \in Daemons, AcceptStep(d)
        PROVE  OnlyRobbedAreCutOff'
    <2>1. UNCHANGED <<sock, robbed>>
      BY <1>7 DEF AcceptStep, Accept, CheckStopping, others
    <2>2. \A e \in Daemons : Listening(e)' => Listening(e)
      BY <1>7 DEF AcceptStep, Accept, CheckStopping, CloseListener,
                  Listening, TypeOK
    <2>3. QED
      BY <1>1, <2>1, <2>2
  <1>8. CASE \/ \E d \in Daemons, conn \in Connections :
                  HandlerStep(d, conn)
             \/ \E d \in Daemons : Signal(d)
             \/ \E s \in Stoppers : StopperStep(s)
             \/ \E l \in Lockers : SendLock(l)
             \/ \E a \in Activators : ActivationBegins(a) \/ ActivationEnds(a)
             \/ Terminated \/ UNCHANGED vars
    <2>1. UNCHANGED <<sock, robbed, main, acceptor>>
      BY <1>8 DEF HandlerStep, HandleEmpty, ApplyShutdown, Respond,
                  RefuseLock, BeginLock, EndLock, Signal, StopperStep,
                  AskToStop, AskFails, Poll, Look, PollTimesOut, SendLock,
                  ActivationBegins, ActivationEnds, Terminated, vars, others
    <2>2. QED
      BY <1>1, <2>1 DEF Listening
  <1>9. QED
    BY <1>2, <1>3, <1>4, <1>5, <1>6, <1>7, <1>8 DEF Next, MainStep

(* For any number of daemons, with any overlap of starts, stops, crashes   *)
(* and signals: a daemon that listens can be reached unless another has    *)
(* removed its live socket.                                                *)
THEOREM CutOffMeansRobbed == Spec => []OnlyRobbedAreCutOff
  <1>1. Init => ThreadsInOrder /\ OnlyRobbedAreCutOff
    BY DEF Init, ThreadsInOrder, Binding, OnlyRobbedAreCutOff, Listening
  <1>2. TypeOK /\ (ThreadsInOrder /\ OnlyRobbedAreCutOff) /\ [Next]_vars =>
          (ThreadsInOrder /\ OnlyRobbedAreCutOff)'
    BY OrderNext, CutOffNext
  <1>3. QED
    BY <1>1, <1>2, LifecycleTypeCorrect, PTL DEF Spec

-----------------------------------------------------------------------------
(***************************************************************************)
(* The socket path, when starts and stops do not overlap.                  *)
(***************************************************************************)

Settled == ~ConcurrentStarts /\ ~RestartWhileStopping

(* Past bind, and the path not yet given up.                               *)
Up(d) ==
    main[d] \in {"serving", "renewing", "wake", "join", "drain", "cleanup",
                 "unlink"}

(* A listener is closed, and a scheduler told to exit, only after          *)
(* admission was closed, which it is not while a daemon binds.             *)
StoppingInOrder ==
    \A d \in Daemons :
        /\ acceptor[d] = "returned" => stopping[d]
        /\ shutdown[d] => stopping[d]
        /\ main[d] \in {"serving", "renewing", "wake", "join"} =>
             acceptor[d] # "off"
        /\ Binding(d) => ~stopping[d]

(* One daemon binds at a time and none while another stops; who is past    *)
(* bind owns the path; who removes and binds it finds nobody past bind.    *)
PathOwned ==
    /\ \A d, e \in Daemons : Binding(d) /\ Binding(e) => d = e
    /\ \A d, e \in Daemons : Binding(d) /\ stopping[e] => Gone(e)
    /\ \A d \in Daemons : Up(d) \/ main[d] = "chmod" => sock = d
    /\ \A d \in Daemons : main[d] = "bind" => sock = None
    /\ \A d, e \in Daemons :
         main[d] \in {"remove", "bind", "chmod"} => ~Up(e)

LEMMA StoppingNext ==
    ASSUME TypeOK, ThreadsInOrder, StoppingInOrder, [Next]_vars
    PROVE  StoppingInOrder'
  <1> USE DEF MainGoto, Binding, Gone
  <1>1. ASSUME NEW d \in Daemons, Start(d)
        PROVE  StoppingInOrder'
    BY <1>1 DEF Start, StoppingInOrder, TypeOK
  <1>2. ASSUME NEW d \in Daemons,
               \/ ProbeFindsDaemon(d) \/ ProbeFindsNothing(d)
               \/ RemoveStale(d) \/ BindSucceeds(d) \/ AddrInUse(d)
        PROVE  StoppingInOrder'
    <2>1. /\ UNCHANGED <<acceptor, stopping, shutdown>>
          /\ Binding(d)
          /\ main'[d] \notin {"serving", "renewing", "wake", "join"}
          /\ \A e \in Daemons : e # d => main'[e] = main[e]
      BY <1>2 DEF ProbeFindsDaemon, ProbeFindsNothing, RemoveStale,
                  BindSucceeds, AddrInUse, TypeOK, flags
    <2>2. QED
      BY <2>1 DEF StoppingInOrder
  <1>3. ASSUME NEW d \in Daemons, Chmod(d)
        PROVE  StoppingInOrder'
    BY <1>3 DEF Chmod, StoppingInOrder, TypeOK, flags
  <1>4. ASSUME NEW d \in Daemons,
               \/ RenewalEnds(d) \/ RenewalWaits(d) \/ SchedulerReturns(d)
               \/ WakeAcceptor(d) \/ JoinAcceptor(d) \/ Drain(d)
               \/ Cleanup(d) \/ RemoveSocket(d)
        PROVE  StoppingInOrder'
    <2>1. /\ UNCHANGED <<acceptor, stopping, shutdown>>
          /\ main'[d] \in {"serving", "renewing", "wake", "join"} =>
               main[d] \in {"serving", "renewing", "wake", "join"}
          /\ main'[d] \in {"serving", "renewing", "wake", "join", "drain",
                           "cleanup", "unlink", "exited"}
          /\ \A e \in Daemons : e # d => main'[e] = main[e]
      BY <1>4 DEF RenewalEnds, RenewalWaits, SchedulerReturns, WakeAcceptor, JoinAcceptor, Drain,
                  Cleanup, RemoveSocket, TypeOK, flags
    <2>2. QED
      BY <2>1 DEF StoppingInOrder
  <1>5. ASSUME NEW d \in Daemons, AcceptStep(d)
        PROVE  StoppingInOrder'
    BY <1>5 DEF AcceptStep, Accept, CheckStopping, CloseListener,
                StoppingInOrder, TypeOK, flags
  <1>6. ASSUME NEW d \in Daemons, NEW conn \in Connections,
               HandlerStep(d, conn)
        PROVE  StoppingInOrder'
    <2>1. ~Binding(d)
      BY <1>6 DEF HandlerStep, HandleEmpty, ApplyShutdown, Respond,
                  RefuseLock, BeginLock, EndLock, ThreadsInOrder
    <2>2. QED
      BY <1>6, <2>1
      DEF HandlerStep, HandleEmpty, ApplyShutdown, Respond, RefuseLock,
          BeginLock, EndLock, StoppingInOrder, TypeOK, flags
  <1>7. ASSUME NEW d \in Daemons, Signal(d) \/ Crash(d)
        PROVE  StoppingInOrder'
    BY <1>7 DEF Signal, Crash, StoppingInOrder, TypeOK
  <1>8. CASE \/ \E s \in Stoppers : StopperStep(s)
             \/ \E l \in Lockers : SendLock(l)
             \/ \E a \in Activators : ActivationBegins(a) \/ ActivationEnds(a)
             \/ Terminated \/ UNCHANGED vars
    <2>1. UNCHANGED <<main, acceptor, stopping, shutdown>>
      BY <1>8 DEF StopperStep, AskToStop, AskFails, Poll, Look,
                  PollTimesOut, SendLock, ActivationBegins, ActivationEnds,
                  Terminated, vars, flags
    <2>2. QED
      BY <2>1 DEF StoppingInOrder
  <1>9. QED
    BY <1>1, <1>2, <1>3, <1>4, <1>5, <1>6, <1>7, <1>8 DEF Next, MainStep

(* A probe that finds nothing is right: a daemon past bind would listen,   *)
(* or be stopping, and nobody binds while another stops.                   *)
LEMMA ProbeIsRight ==
    ASSUME TypeOK, ThreadsInOrder, StoppingInOrder, PathOwned,
           NEW d \in Daemons, main[d] = "probe", ~Live,
           NEW e \in Daemons
    PROVE  ~Up(e)
  <1> SUFFICES ASSUME Up(e) PROVE FALSE
    OBVIOUS
  <1>1. sock = e /\ sock # None
    BY DaemonLifecycleAssumption DEF PathOwned
  <1>2. acceptor[e] \notin {"accept", "check"}
    BY <1>1 DEF Live, Listening
  <1>3. acceptor[e] = "returned"
    BY <1>2 DEF Up, StoppingInOrder, ThreadsInOrder, TypeOK
  <1>4. stopping[e] /\ Binding(d)
    BY <1>3 DEF StoppingInOrder, Binding
  <1>5. QED
    BY <1>4 DEF PathOwned, Up, Gone

LEMMA PathNext ==
    ASSUME Settled, TypeOK, ThreadsInOrder, StoppingInOrder, PathOwned,
           [Next]_vars
    PROVE  PathOwned'
  <1> USE DEF MainGoto, Binding, Gone, Up
  <1>1. ASSUME NEW d \in Daemons, Start(d)
        PROVE  PathOwned'
    BY <1>1 DEF Start, PathOwned, Settled, TypeOK
  <1>2. ASSUME NEW d \in Daemons, ProbeFindsNothing(d)
        PROVE  PathOwned'
    <2>1. \A e \in Daemons : ~Up(e)
      BY <1>2, ProbeIsRight DEF ProbeFindsNothing
    <2>2. /\ UNCHANGED <<sock, stopping>>
          /\ main[d] = "probe" /\ main'[d] = "remove"
          /\ \A e \in Daemons : e # d => main'[e] = main[e]
      BY <1>2 DEF ProbeFindsNothing, TypeOK, flags
    <2>3. QED
      BY <2>1, <2>2 DEF PathOwned
  <1>3. ASSUME NEW d \in Daemons, RemoveStale(d) \/ BindSucceeds(d)
        PROVE  PathOwned'
    <2>1. /\ UNCHANGED stopping
          /\ main[d] \in {"remove", "bind"}
          /\ \/ main'[d] = "bind" /\ sock' = None
             \/ main'[d] = "chmod" /\ sock' = d
          /\ \A e \in Daemons : e # d => main'[e] = main[e]
      BY <1>3 DEF RemoveStale, RemoveFile, BindSucceeds, TypeOK, flags
    <2>2. \A e \in Daemons : ~Up(e) /\ (e # d => ~Binding(e))
      BY <2>1 DEF PathOwned
    <2>3. QED
      BY <2>1, <2>2 DEF PathOwned
  <1>4. ASSUME NEW d \in Daemons, ProbeFindsDaemon(d) \/ AddrInUse(d)
        PROVE  PathOwned'
    <2>1. /\ UNCHANGED <<sock, stopping>> /\ Binding(d)
          /\ main'[d] \in {"probe", "failed"}
          /\ \A e \in Daemons : e # d => main'[e] = main[e]
      BY <1>4 DEF ProbeFindsDaemon, AddrInUse, TypeOK, flags
    <2>2. QED
      BY <2>1 DEF PathOwned
  <1>5. ASSUME NEW d \in Daemons, Chmod(d)
        PROVE  PathOwned'
    <2>1. /\ UNCHANGED <<sock, stopping>> /\ main[d] = "chmod"
          /\ main'[d] \in {"serving", "failed"}
          /\ \A e \in Daemons : e # d => main'[e] = main[e]
      BY <1>5 DEF Chmod, TypeOK, flags
    <2>2. \A e \in Daemons : ~Up(e) /\ (e # d => ~Binding(e))
      BY <2>1 DEF PathOwned
    <2>3. QED
      BY <2>1, <2>2 DEF PathOwned
  <1>6. ASSUME NEW d \in Daemons,
               \/ RenewalEnds(d) \/ RenewalWaits(d) \/ SchedulerReturns(d)
               \/ WakeAcceptor(d) \/ JoinAcceptor(d) \/ Drain(d)
               \/ Cleanup(d)
        PROVE  PathOwned'
    <2>1. /\ UNCHANGED <<sock, stopping>> /\ Up(d)
          /\ main'[d] \in {"serving", "renewing", "wake", "join", "drain",
                           "cleanup", "unlink"}
          /\ \A e \in Daemons : e # d => main'[e] = main[e]
      BY <1>6 DEF RenewalEnds, RenewalWaits, SchedulerReturns, WakeAcceptor, JoinAcceptor, Drain,
                  Cleanup, TypeOK, flags
    <2>2. QED
      BY <2>1 DEF PathOwned
  <1>7. ASSUME NEW d \in Daemons, RemoveSocket(d)
        PROVE  PathOwned'
    <2>1. /\ UNCHANGED stopping /\ main[d] = "unlink" /\ sock' = None
          /\ main'[d] = "exited" /\ sock = d
          /\ \A e \in Daemons : e # d => main'[e] = main[e]
      BY <1>7 DEF RemoveSocket, RemoveFile, TypeOK, flags, PathOwned
    <2>2. \A e \in Daemons :
            e # d => ~Up(e) /\ main[e] \notin {"remove", "bind", "chmod"}
      BY <2>1 DEF PathOwned
    <2>3. QED
      BY <2>1, <2>2 DEF PathOwned
  <1>8. ASSUME NEW d \in Daemons, Crash(d)
        PROVE  PathOwned'
    BY <1>8 DEF Crash, PathOwned, TypeOK
  <1>9. ASSUME NEW d \in Daemons,
               Signal(d) \/ \E conn \in Connections : ApplyShutdown(d, conn)
        PROVE  PathOwned'
    BY <1>9 DEF Signal, ApplyShutdown, MayStop, Settled, PathOwned, TypeOK
  <1>10. CASE \/ \E d \in Daemons : AcceptStep(d)
              \/ \E d \in Daemons, conn \in Connections :
                   \/ HandleEmpty(d, conn) \/ Respond(d, conn)
                   \/ RefuseLock(d, conn) \/ BeginLock(d, conn)
                   \/ EndLock(d, conn)
              \/ \E s \in Stoppers : StopperStep(s)
              \/ \E l \in Lockers : SendLock(l)
              \/ \E a \in Activators :
                   ActivationBegins(a) \/ ActivationEnds(a)
              \/ Terminated \/ UNCHANGED vars
    <2>1. UNCHANGED <<sock, main, stopping>>
      BY <1>10 DEF AcceptStep, Accept, CheckStopping, HandleEmpty, Respond,
                   RefuseLock, BeginLock, EndLock, StopperStep, AskToStop,
                   AskFails, Poll, Look, PollTimesOut, SendLock,
                   ActivationBegins, ActivationEnds, Terminated, vars, flags
    <2>2. QED
      BY <2>1 DEF PathOwned
  <1>11. QED
    BY <1>1, <1>2, <1>3, <1>4, <1>5, <1>6, <1>7, <1>8, <1>9, <1>10
    DEF Next, MainStep, HandlerStep

(* The three invariants hold together.                                     *)
LEMMA SettledInvariance ==
    ASSUME Settled
    PROVE  Spec => [](TypeOK /\ ThreadsInOrder /\ StoppingInOrder
                        /\ PathOwned)
  <1>1. Init => ThreadsInOrder /\ StoppingInOrder /\ PathOwned
    BY DEF Init, ThreadsInOrder, StoppingInOrder, PathOwned, Binding, Up
  <1>2. TypeOK /\ (ThreadsInOrder /\ StoppingInOrder /\ PathOwned)
          /\ [Next]_vars => (ThreadsInOrder /\ StoppingInOrder /\ PathOwned)'
    BY OrderNext, StoppingNext, PathNext
  <1>3. QED
    BY <1>1, <1>2, LifecycleTypeCorrect, PTL DEF Spec

(* However many daemons there are and however they crash: when starts and  *)
(* stops do not overlap there is one daemon, and the path leads to it.     *)
THEOREM OneDaemonWhenSettled ==
    ASSUME Settled
    PROVE  Spec => []OneDaemonServes
  <1>1. TypeOK /\ ThreadsInOrder /\ StoppingInOrder /\ PathOwned =>
          OneDaemonServes
    BY DEF OneDaemonServes, Listening, ThreadsInOrder, PathOwned, Up,
           Binding, TypeOK, MainPCs
  <1>2. QED
    BY <1>1, SettledInvariance, PTL

-----------------------------------------------------------------------------
(***************************************************************************)
(* daemon --stop tells the truth.                                          *)
(***************************************************************************)

(* A Shutdown on its way is its client's to the daemon it asked, which     *)
(* once it has answered is not started again before it has ended.          *)
AskedIsStopping ==
    /\ \A s \in Stoppers : stop[s].pc = "idle" => stop[s].daemon = None
    /\ \A d \in Daemons : \A conn \in backlog[d] \cup active[d] :
         conn.request = "shutdown" =>
            conn.from \in Stoppers /\ stop[conn.from].daemon = d
    /\ \A s \in Stoppers :
         stop[s].pc \in {"poll", "look", "stopped"} =>
            /\ stop[s].daemon \in Daemons
            /\ \/ Up(stop[s].daemon)
               \/ main[stop[s].daemon] \in {"exited", "crashed"}

(* A response moves its client from asked to poll and nobody else.         *)
LEMMA RespondStop ==
    ASSUME TypeOK, NEW d \in Daemons, NEW conn \in Connections,
           Respond(d, conn), NEW s \in Stoppers
    PROVE  /\ stop'[s].daemon = stop[s].daemon
           /\ stop'[s].pc = stop[s].pc \/ (s = conn.from /\ stop'[s].pc = "poll")
  <1> DEFINE next == IF stop[conn.from].pc = "asked"
                       THEN "poll" ELSE stop[conn.from].pc
  <1>1. stop' = [stop EXCEPT ![conn.from].pc = next]
    BY DEF Respond
  <1>2. CASE s = conn.from
    <2>1. stop'[s] = [stop[s] EXCEPT !.pc = next]
      BY <1>1, <1>2 DEF TypeOK
    <2>2. QED
      BY <1>2, <2>1 DEF TypeOK
  <1>3. CASE s # conn.from
    BY <1>1, <1>3 DEF TypeOK
  <1>4. QED
    BY <1>2, <1>3

LEMMA AskedNext ==
    ASSUME TypeOK, ThreadsInOrder, AskedIsStopping, [Next]_vars
    PROVE  AskedIsStopping'
  <1> USE DEF MainGoto, Binding, Gone, Up
  <1> DEFINE Carried(d) == backlog[d] \cup active[d]
             Told(d) ==
               main[d] \in {"serving", "renewing", "wake", "join", "drain",
                            "cleanup", "unlink", "exited", "crashed"}
  <1>1. ASSUME UNCHANGED stop,
               \A d \in Daemons : \A conn \in Carried(d)' :
                  conn.request = "shutdown" => conn \in Carried(d),
               \A d \in Daemons, s \in Stoppers :
                  (stop[s].daemon = d /\ Told(d)) => Told(d)'
        PROVE  AskedIsStopping'
    BY <1>1 DEF AskedIsStopping
  <1>2. ASSUME NEW d \in Daemons, Start(d)
        PROVE  AskedIsStopping'
    <2>1. UNCHANGED <<stop, backlog, active>>
      BY <1>2 DEF Start, connections
    <2>2. \A e \in Daemons : e # d => main'[e] = main[e]
      BY <1>2 DEF Start, TypeOK
    <2>3. \A s \in Stoppers : stop[s].daemon # d
      BY <1>2 DEF Start
    <2>4. QED
      BY <2>1, <2>2, <2>3, <1>1
  <1>3. ASSUME NEW d \in Daemons, MainStep(d)
        PROVE  AskedIsStopping'
    <2>1. Told(d) => Told(d)'
      BY <1>3 DEF MainStep, ProbeFindsDaemon, ProbeFindsNothing, RemoveStale,
                  BindSucceeds, AddrInUse, Chmod, RenewalEnds,
                  SchedulerReturns,
                  WakeAcceptor, JoinAcceptor, Drain, Cleanup, RemoveSocket,
                  TypeOK
    <2>2. UNCHANGED stop
      BY <1>3 DEF MainStep, ProbeFindsDaemon, ProbeFindsNothing, RemoveStale,
                  BindSucceeds, AddrInUse, Chmod, RenewalEnds,
                  SchedulerReturns,
                  WakeAcceptor, JoinAcceptor, Drain, Cleanup, RemoveSocket,
                  others
    <2>3. \A e \in Daemons : e # d => main'[e] = main[e]
      BY <1>3 DEF MainStep, ProbeFindsDaemon, ProbeFindsNothing, RemoveStale,
                  BindSucceeds, AddrInUse, Chmod, RenewalEnds,
                  SchedulerReturns,
                  WakeAcceptor, JoinAcceptor, Drain, Cleanup, RemoveSocket,
                  TypeOK
    <2>4. \A e \in Daemons : \A conn \in Carried(e)' :
            conn.request = "shutdown" => conn \in Carried(e)
      <3>1. CASE ProbeFindsDaemon(d) \/ WakeAcceptor(d)
        BY <3>1 DEF ProbeFindsDaemon, WakeAcceptor, Connect, Empty, TypeOK
      <3>2. CASE Chmod(d)
        BY <3>2 DEF Chmod, TypeOK
      <3>3. CASE ~(ProbeFindsDaemon(d) \/ WakeAcceptor(d) \/ Chmod(d))
        BY <1>3, <3>3
        DEF MainStep, ProbeFindsNothing, RemoveStale, BindSucceeds,
            AddrInUse, RenewalEnds, SchedulerReturns, JoinAcceptor, Drain,
            Cleanup, RemoveSocket, connections
      <3>4. QED
        BY <3>1, <3>2, <3>3
    <2>5. QED
      BY <2>1, <2>2, <2>3, <2>4, <1>1
  <1>4. ASSUME NEW d \in Daemons,
               \/ AcceptStep(d) \/ Signal(d) \/ RenewalWaits(d) \/ Crash(d)
        PROVE  AskedIsStopping'
    <2>1. UNCHANGED stop
      BY <1>4 DEF AcceptStep, Accept, CheckStopping, Signal, RenewalWaits,
                  Crash, others
    <2>2. \A e \in Daemons : Told(e) => Told(e)'
      BY <1>4 DEF AcceptStep, Accept, CheckStopping, Signal, RenewalWaits,
                  Crash, TypeOK
    <2>3. \A e \in Daemons : Carried(e)' \subseteq Carried(e)
      BY <1>4 DEF AcceptStep, Accept, CheckStopping, CloseListener, Signal,
                  RenewalWaits, Crash, connections, TypeOK
    <2>4. QED
      BY <2>1, <2>2, <2>3, <1>1
  <1>5. ASSUME NEW d \in Daemons, NEW conn \in Connections,
               \/ HandleEmpty(d, conn) \/ ApplyShutdown(d, conn)
               \/ RefuseLock(d, conn) \/ BeginLock(d, conn)
               \/ EndLock(d, conn)
        PROVE  AskedIsStopping'
    <2>1. UNCHANGED <<stop, main>>
      BY <1>5 DEF HandleEmpty, ApplyShutdown, RefuseLock, BeginLock,
                  EndLock, others
    <2>2. \A e \in Daemons : Carried(e)' \subseteq Carried(e)
      BY <1>5 DEF HandleEmpty, ApplyShutdown, RefuseLock, BeginLock,
                  EndLock, Drop, connections, TypeOK
    <2>3. QED
      BY <2>1, <2>2, <1>1
  <1>6. ASSUME NEW d \in Daemons, NEW conn \in Connections, Respond(d, conn)
        PROVE  AskedIsStopping'
    <2>1. UNCHANGED main
      BY <1>6 DEF Respond
    <2>2. \A e \in Daemons : Carried(e)' \subseteq Carried(e)
      BY <1>6 DEF Respond, Drop, TypeOK
    <2>3. conn.from \in Stoppers /\ stop[conn.from].daemon = d
      BY <1>6 DEF Respond, AskedIsStopping
    <2>4. Told(d)
      BY <1>6 DEF Respond, ThreadsInOrder, TypeOK, MainPCs
    <2>5. \A s \in Stoppers :
            /\ stop'[s].daemon = stop[s].daemon
            /\ \/ stop'[s].pc = stop[s].pc
               \/ s = conn.from /\ stop'[s].pc = "poll"
      BY <1>6, RespondStop
    <2>6. QED
      BY <2>1, <2>2, <2>3, <2>4, <2>5 DEF AskedIsStopping
  <1>7. ASSUME NEW s \in Stoppers, AskToStop(s)
        PROVE  AskedIsStopping'
    <2>1. /\ UNCHANGED <<main, active>> /\ sock \in Daemons
          /\ stop[s].pc = "idle"
          /\ stop'[s] = [pc |-> "asked", daemon |-> sock]
          /\ \A r \in Stoppers : r # s => stop'[r] = stop[r]
      BY <1>7 DEF AskToStop, Live, TypeOK
    <2>2. \A e \in Daemons : \A conn \in Carried(e)' :
            conn \in Carried(e) \/ (e = sock /\ conn = AskStop(s))
      BY <1>7, <2>1 DEF AskToStop, Connect, TypeOK
    <2>3. AskStop(s).from = s
      BY DEF AskStop
    <2>4. \A e \in Daemons : \A conn \in Carried(e) :
            (conn.request = "shutdown" /\ conn.from = s) =>
               stop[s].daemon = e
      BY DEF AskedIsStopping
    <2>5. ASSUME NEW e \in Daemons, NEW conn \in Carried(e)',
                 conn.request = "shutdown"
          PROVE  conn.from \in Stoppers /\ stop'[conn.from].daemon = e
      <3>1. CASE e = sock /\ conn = AskStop(s)
        BY <2>1, <2>3, <3>1
      <3>2. CASE conn \in Carried(e)
        <4>1. conn.from \in Stoppers /\ stop[conn.from].daemon = e
          BY <2>5, <3>2 DEF AskedIsStopping
        <4>2. CASE conn.from # s
          BY <2>1, <4>1, <4>2
        <4>3. CASE conn.from = s
          BY <2>1, <4>1, <4>3, DaemonLifecycleAssumption
          DEF AskedIsStopping
        <4>4. QED
          BY <4>2, <4>3
      <3>3. QED
        BY <2>2, <3>1, <3>2
    <2>6. QED
      BY <2>1, <2>5 DEF AskedIsStopping
  <1>8. ASSUME NEW s \in Stoppers,
               AskFails(s) \/ Poll(s) \/ Look(s) \/ PollTimesOut(s)
        PROVE  AskedIsStopping'
    <2>1. /\ UNCHANGED <<main, active>>
          /\ stop'[s].daemon = stop[s].daemon
          /\ stop'[s].pc \in {"poll", "look", "stopped"} =>
               stop[s].pc \in {"poll", "look"}
          /\ stop'[s].pc # "idle"
          /\ \A r \in Stoppers : r # s => stop'[r] = stop[r]
      BY <1>8 DEF AskFails, Poll, Look, PollTimesOut, StopGoto, TypeOK,
                  connections
    <2>2. \A e \in Daemons : \A conn \in Carried(e)' :
            conn.request = "shutdown" => conn \in Carried(e)
      BY <1>8 DEF AskFails, Poll, Look, PollTimesOut, Connect, Empty,
                  TypeOK, connections
    <2>3. QED
      BY <2>1, <2>2 DEF AskedIsStopping
  <1>9. ASSUME NEW l \in Lockers, SendLock(l)
        PROVE  AskedIsStopping'
    <2>1. UNCHANGED <<stop, main>>
      BY <1>9 DEF SendLock, others
    <2>2. \A e \in Daemons : \A conn \in Carried(e)' :
            conn.request = "shutdown" => conn \in Carried(e)
      BY <1>9 DEF SendLock, Connect, AskLock, TypeOK
    <2>3. QED
      BY <2>1, <2>2, <1>1
  <1>10. CASE \/ \E a \in Activators :
                   ActivationBegins(a) \/ ActivationEnds(a)
              \/ Terminated \/ UNCHANGED vars
    <2>1. UNCHANGED <<stop, main, backlog, active>>
      BY <1>10 DEF ActivationBegins, ActivationEnds, Terminated, vars,
                   connections, others
    <2>2. QED
      BY <2>1, <1>1
  <1>11. QED
    BY <1>2, <1>3, <1>4, <1>5, <1>6, <1>7, <1>8, <1>9, <1>10
    DEF Next, HandlerStep, StopperStep

(* Only Look concludes that a daemon has stopped, and it finds no path     *)
(* only if no daemon owns one.                                             *)
LEMMA StopNext ==
    ASSUME TypeOK, PathOwned, AskedIsStopping, StopMeansCleanedUp,
           [Next]_vars
    PROVE  StopMeansCleanedUp'
  <1> USE DEF MainGoto, Gone, Up
  <1>1. \A d \in Daemons, s \in Stoppers :
          stop[s].daemon = d /\ main[d] \in {"exited", "crashed"} =>
             main'[d] \in {"exited", "crashed"}
    <2> SUFFICES ASSUME NEW d \in Daemons, NEW s \in Stoppers,
                        stop[s].daemon = d,
                        main[d] \in {"exited", "crashed"}
                 PROVE  main'[d] = main[d]
      OBVIOUS
    <2>1. ASSUME NEW e \in Daemons, Start(e) PROVE main'[d] = main[d]
      BY <2>1 DEF Start, TypeOK
    <2>2. ASSUME NEW e \in Daemons, MainStep(e) PROVE main'[d] = main[d]
      BY <2>2
      DEF MainStep, ProbeFindsDaemon, ProbeFindsNothing, RemoveStale,
          BindSucceeds, AddrInUse, Chmod, RenewalEnds, SchedulerReturns, WakeAcceptor,
          JoinAcceptor, Drain, Cleanup, RemoveSocket, TypeOK
    <2>3. ASSUME NEW e \in Daemons, Crash(e) PROVE main'[d] = main[d]
      BY <2>3 DEF Crash, TypeOK
    <2>4. ASSUME NEW e \in Daemons, RenewalWaits(e)
          PROVE  main'[d] = main[d]
      BY <2>4 DEF RenewalWaits, TypeOK
    <2>5. CASE \/ \E e \in Daemons : AcceptStep(e) \/ Signal(e)
               \/ \E e \in Daemons, conn \in Connections :
                    HandlerStep(e, conn)
               \/ \E r \in Stoppers : StopperStep(r)
               \/ \E l \in Lockers : SendLock(l)
               \/ \E a \in Activators :
                    ActivationBegins(a) \/ ActivationEnds(a)
               \/ Terminated \/ UNCHANGED vars
      BY <2>5
      DEF AcceptStep, Accept, CheckStopping, HandlerStep, HandleEmpty,
          ApplyShutdown, Respond, RefuseLock, BeginLock, EndLock, Signal,
          StopperStep, AskToStop, AskFails, Poll, Look, PollTimesOut,
          SendLock, ActivationBegins, ActivationEnds, Terminated, vars
    <2>6. QED
      BY <2>1, <2>2, <2>3, <2>4, <2>5 DEF Next
  <1>2. ASSUME NEW s \in Stoppers, stop'[s].pc = "stopped",
               stop[s].pc # "stopped"
        PROVE  main'[stop'[s].daemon] \in {"exited", "crashed"}
    <2>1. Look(s)
      <3>1. ASSUME NEW d \in Daemons, NEW conn \in Connections,
                   HandlerStep(d, conn)
            PROVE  FALSE
        <4>1. stop # stop'
          BY <1>2
        <4>2. Respond(d, conn)
          BY <3>1, <4>1 DEF HandlerStep, HandleEmpty, ApplyShutdown,
                            RefuseLock, BeginLock, EndLock, others
        <4>3. QED
          BY <4>2, <1>2, RespondStop
      <3>2. ASSUME NEW d \in Daemons,
                   \/ Start(d) \/ MainStep(d) \/ AcceptStep(d)
                   \/ Signal(d) \/ RenewalWaits(d) \/ Crash(d)
            PROVE  FALSE
        BY <3>2, <1>2
        DEF Start, MainStep, ProbeFindsDaemon, ProbeFindsNothing,
            RemoveStale, BindSucceeds, AddrInUse, Chmod, RenewalEnds,
            SchedulerReturns, WakeAcceptor, JoinAcceptor, Drain, Cleanup,
            RemoveSocket, AcceptStep, Accept, CheckStopping, Signal,
            RenewalWaits, Crash, others
      <3>3. /\ ~(Terminated \/ UNCHANGED vars)
            /\ ~\E l \in Lockers : SendLock(l)
            /\ ~\E a \in Activators :
                  ActivationBegins(a) \/ ActivationEnds(a)
        BY <1>2 DEF Terminated, SendLock, ActivationBegins, ActivationEnds,
                    vars, others
      <3>4. PICK r \in Stoppers : StopperStep(r)
        BY <3>1, <3>2, <3>3 DEF Next
      <3>5. r = s
        BY <3>4, <1>2 DEF StopperStep, AskToStop, AskFails, Poll, Look,
                          PollTimesOut, StopGoto, TypeOK
      <3>6. QED
        BY <3>4, <3>5, <1>2 DEF StopperStep, AskToStop, AskFails, Poll,
                                PollTimesOut, StopGoto, TypeOK
    <2>2. /\ sock = None /\ stop[s].pc = "look" /\ UNCHANGED main
          /\ stop'[s].daemon = stop[s].daemon
      BY <2>1, <1>2 DEF Look, StopGoto, TypeOK
    <2>3. stop[s].daemon \in Daemons /\ ~Up(stop[s].daemon)
      BY <2>2, DaemonLifecycleAssumption DEF AskedIsStopping, PathOwned
    <2>4. QED
      BY <2>2, <2>3 DEF AskedIsStopping
  <1>3. ASSUME NEW s \in Stoppers, stop'[s].pc = "stopped",
               stop[s].pc = "stopped"
        PROVE  main'[stop'[s].daemon] \in {"exited", "crashed"}
    <2>1. stop'[s].daemon = stop[s].daemon
      <3>1. ASSUME NEW d \in Daemons, NEW conn \in Connections,
                   Respond(d, conn)
            PROVE  stop'[s].daemon = stop[s].daemon
        BY <3>1, RespondStop
      <3>2. ASSUME NEW r \in Stoppers, StopperStep(r)
            PROVE  stop'[s].daemon = stop[s].daemon
        BY <3>2, <1>3 DEF StopperStep, AskToStop, AskFails, Poll, Look,
                          PollTimesOut, StopGoto, TypeOK
      <3>3. CASE UNCHANGED stop
        BY <3>3
      <3>4. QED
        BY <3>1, <3>2, <3>3
        DEF Next, Start, MainStep, ProbeFindsDaemon, ProbeFindsNothing,
            RemoveStale, BindSucceeds, AddrInUse, Chmod, RenewalEnds,
            SchedulerReturns, WakeAcceptor, JoinAcceptor, Drain, Cleanup,
            RemoveSocket, AcceptStep, Accept, CheckStopping, HandlerStep,
            HandleEmpty, ApplyShutdown, RefuseLock, BeginLock, EndLock,
            Signal, RenewalWaits, Crash, SendLock, ActivationBegins,
            ActivationEnds, Terminated, vars, others
    <2>2. stop[s].daemon \in Daemons
      BY <1>3 DEF AskedIsStopping
    <2>3. QED
      BY <1>1, <1>3, <2>1, <2>2 DEF StopMeansCleanedUp
  <1>4. QED
    BY <1>2, <1>3 DEF StopMeansCleanedUp

(* When --stop reports that the daemon has stopped, it has cleaned up and  *)
(* ended (or crashed), if no other daemon starts meanwhile.                *)
THEOREM StopIsTruthful ==
    ASSUME Settled
    PROVE  Spec => []StopMeansCleanedUp
  <1>1. Init => AskedIsStopping /\ StopMeansCleanedUp
    BY DEF Init, AskedIsStopping, StopMeansCleanedUp
  <1>2. (TypeOK /\ ThreadsInOrder /\ StoppingInOrder /\ PathOwned)
          /\ (AskedIsStopping /\ StopMeansCleanedUp) /\ [Next]_vars =>
             (AskedIsStopping /\ StopMeansCleanedUp)'
    BY AskedNext, StopNext
  <1>3. QED
    BY <1>1, <1>2, SettledInvariance, PTL DEF Spec
=============================================================================
