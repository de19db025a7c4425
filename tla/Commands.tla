------------------------------ MODULE Commands ------------------------------
(***************************************************************************)
(* The commands `on`, `off`, `lock` and `status` against the daemon they   *)
(* find: one connection per request, requests cut short, too long or       *)
(* answered too late, a daemon that stops, crashes, is started again, or   *)
(* is of a version without lock (src/main.rs, src/ipc.rs, src/daemon.rs).  *)
(* Keys, the agent and the Secret Service are LockProtocol's and           *)
(* SessionStore's; how a daemon starts and ends is DaemonLifecycle's.      *)
(***************************************************************************)
EXTENDS Settings

CONSTANTS
    Cmds,       \* bound: commands in the run
    Setups,     \* what the configuration file and Git's may be
    Wishes,     \* options of `on` that are tried
    Lives,      \* bound: daemons found or started
    Endings     \* bound: holds that expire or fail

ASSUME CommandsAssumption ==
    /\ Setups \subseteq [file : Files, git : Gits]
    /\ Wishes \subseteq OnOptions
    /\ Lives \in Nat \ {0}
    /\ Endings \in Nat
    /\ None \notin Cmds
    /\ None \notin {"on", "off", "lock", "status", "ping",
                    "yes", "no", "settings", "unknown"}

VARIABLES
    setup,      \* the two configurations, which commands only read
    cmd,        \* each command: kind, options, what it asks for, step, result
    conn,       \* the connection of each command's last request
    daemon,     \* the daemon: its phase, its life and its version
    hold,       \* what is held, and by which `on`; the latter is kept
    locking,    \* the command whose lock the daemon carries out, or None
    endings,    \* holds that still may expire or fail
    unheld      \* commands since whose start there was a moment without hold

vars == <<setup, cmd, conn, daemon, hold, locking, endings, unheld>>

Idle == [kind |-> None, wish |-> None, ask |-> None, step |-> "idle",
         result |-> None]

NoConn == [state |-> "none", what |-> None, life |-> 0, reply |-> None,
           hold |-> None]

NoHold == [on |-> FALSE, by |-> None, wish |-> None, ask |-> None]

Serving == daemon.phase = "serving"

(* The listener is closed, and the scheduler gone, before the cleanup.     *)
Listening == daemon.phase \in {"serving", "stopping"}

Init ==
    /\ setup \in Setups
    /\ cmd = [c \in Cmds |-> Idle]
    /\ conn = [c \in Cmds |-> NoConn]
    /\ \/ daemon = [phase |-> "down", life |-> 1, legacy |-> FALSE]
       \/ \E legacy \in BOOLEAN :
            daemon = [phase |-> "serving", life |-> 1, legacy |-> legacy]
    /\ hold = NoHold
    /\ locking = None
    /\ endings = Endings
    /\ unheld = Cmds

(* The ghost follows every step.                                           *)
Observe ==
    unheld' =
      IF hold.on'
        THEN {c \in Cmds : \/ cmd'[c].kind \notin {"off", "lock"}
                          \/ (c \in unheld /\ cmd[c].step # "idle")}
        ELSE Cmds

Goto(c, step) == cmd' = [cmd EXCEPT ![c].step = step]

Doing(kind, wish, ask, step) ==
    [kind |-> kind, wish |-> wish, ask |-> ask, step |-> step,
     result |-> None]

Done(kind, result) ==
    [kind |-> kind, wish |-> None, ask |-> None, step |-> "done",
     result |-> result]

End(c, result) == cmd' = [cmd EXCEPT ![c] = Done(cmd[c].kind, result)]

Enter(c, kind, step) ==
    cmd' = [cmd EXCEPT ![c] = Doing(kind, None, None, step)]

Quiet == UNCHANGED <<setup, daemon, hold, locking, endings>>

-----------------------------------------------------------------------------
(* How a command begins.                                                   *)

(* on(): everything that can go wrong in the settings does so before a     *)
(* daemon is started or gpg is used.                                       *)
BeginOn(c, o) ==
    LET config == LoadFrom(setup.file)
        key == SelectKey(o, config, setup.git)
    IN  cmd' = [cmd EXCEPT ![c] =
          IF config = Fails \/ key = Fails \/ TooLong(o, config)
            THEN Done("on", "settings")
            ELSE Doing("on", o, [key |-> key.key, source |-> key.source,
                                 store |-> StoreEnabled(o, config)],
                       "ensure")]

(* off() looks whether there is a daemon, and then connects again.         *)
BeginOff(c) ==
    IF Listening
      THEN Enter(c, "off", "request")
      ELSE cmd' = [cmd EXCEPT ![c] = Done("off", "yes")]

BeginLock(c, o) ==
    LET config == LoadFrom(setup.file)
    IN  cmd' = [cmd EXCEPT ![c] =
          IF config = Fails
            THEN Done("lock", "settings")
            ELSE Doing("lock", None, ClearCredential(o, config), "ping")]

(* `status --no-watch` reads no file.  To watch is StatusWatch's; a file   *)
(* that asks for it is only heeded in a terminal.                          *)
BeginStatus(c, o) ==
    LET status == LoadStatus(setup.file, ExplicitWatch(o))
    IN  IF ~o.no_watch /\ status = Fails
          THEN cmd' = [cmd EXCEPT ![c] =
                 [Done("status", "settings") EXCEPT !.wish = o]]
          ELSE /\ o.no_watch \/ ~(ExplicitWatch(o) /\ Resolve(status, o))
               /\ Enter(c, "status", "request")

Begin(c) ==
    /\ cmd[c].step = "idle"
    /\ \/ \E o \in Wishes : BeginOn(c, o)
       \/ BeginOff(c)
       \/ \E o \in LockOptions : BeginLock(c, o)
       \/ \E o \in StatusOptions : BeginStatus(c, o)
    /\ Quiet /\ UNCHANGED conn
    /\ Observe

-----------------------------------------------------------------------------
(* on() between its requests.                                              *)

(* ensure_running(), here or from another terminal.                        *)
StartDaemon ==
    /\ ~Listening
    /\ daemon.life < Lives
    /\ daemon' = [phase |-> "serving", life |-> daemon.life + 1,
                  legacy |-> FALSE]
    /\ UNCHANGED <<hold, locking>>

(* The start, or guard_activation() under a lock, may fail.                *)
Ensure(c) ==
    /\ cmd[c].step = "ensure"
    /\ \/ Listening /\ Goto(c, "ping") /\ UNCHANGED <<daemon, hold, locking>>
       \/ StartDaemon /\ Goto(c, "ping")
       \/ End(c, "no") /\ UNCHANGED <<daemon, hold, locking>>
    /\ UNCHANGED <<setup, conn, endings>>
    /\ Observe

(* The activation guard is kept to the end of the command.                 *)
Guarding(c) ==
    cmd[c].kind = "on" /\ cmd[c].step \in {"ping", "activate", "request"}

(* activate() used the key, or failed: then nothing is sent.               *)
Activate(c) ==
    /\ cmd[c].step = "activate"
    /\ Goto(c, "request") \/ End(c, "no")
    /\ Quiet /\ UNCHANGED conn
    /\ Observe

-----------------------------------------------------------------------------
(* request(): connect, write, read the reply.                              *)

Requesting(c) == cmd[c].step \in {"ping", "request"}

Reply(ok) == [ok |-> ok, lockable |-> FALSE, locking |-> FALSE,
              locked |-> FALSE]

Connect(c) ==
    /\ Requesting(c)
    /\ conn[c].state = "none"
    /\ Listening
    /\ conn' = [conn EXCEPT ![c] =
         [state |-> "open", life |-> daemon.life, reply |-> None,
          what  |-> IF cmd[c].step = "ping" THEN "ping" ELSE cmd[c].kind,
          hold  |-> IF cmd[c].kind = "on" /\ cmd[c].step = "request"
                      THEN [on |-> TRUE, by |-> c, wish |-> cmd[c].wish,
                            ask |-> cmd[c].ask]
                      ELSE None]]
    /\ Quiet /\ UNCHANGED cmd
    /\ Observe

(* No request was made.  `status` shows a daemon that is stopped.          *)
NotRunning(c) ==
    /\ Requesting(c)
    /\ conn[c].state = "none"
    /\ ~Listening
    /\ End(c, IF cmd[c].kind = "status" THEN "yes" ELSE "no")
    /\ Quiet /\ UNCHANGED conn
    /\ Observe

(* A request arrives whole, or not: the client is killed while it writes,  *)
(* or what it writes is longer than MAX_REQUEST.                           *)
Write(c) ==
    /\ Requesting(c)
    /\ conn[c].state = "open"
    /\ \E frame \in {"whole", "cut"} :
         conn' = [conn EXCEPT ![c].state = frame]
    /\ Quiet /\ UNCHANGED cmd
    /\ Observe

(* check(), and what each command makes of the reply.  Without the         *)
(* admission fields the daemon is one that cannot lock.                    *)
Pinged(c, reply) ==
    \/ /\ cmd[c].kind = "on" /\ reply.ok /\ ~reply.locking
       /\ Goto(c, "activate")
    \/ /\ cmd[c].kind = "lock" /\ reply.ok /\ reply.lockable
       /\ Goto(c, "request")
    \/ /\ ~reply.ok \/ (IF cmd[c].kind = "on" THEN reply.locking
                                              ELSE ~reply.lockable)
       /\ End(c, "no")

(* Mutant: `off` does not check the reply.                                 *)
Unchecked(c, reply) ==
    LET good == cmd[c].kind = "off" \/ reply.ok
    IN  End(c, IF good THEN "yes" ELSE "no")

Requested(c, reply) ==
    LET good == reply.ok /\ (cmd[c].kind = "lock" => reply.locked)
    IN  End(c, IF good THEN "yes" ELSE "no")

Answered(c) ==
    /\ Requesting(c)
    /\ conn[c].state = "answered"
    /\ IF cmd[c].step = "ping" THEN Pinged(c, conn[c].reply)
                               ELSE Requested(c, conn[c].reply)
    /\ conn' = [conn EXCEPT ![c] = NoConn]
    /\ Quiet
    /\ Observe

(* The daemon still finds a request that was whole.                        *)
LeaveBehind(c) ==
    conn' = [conn EXCEPT ![c] =
      IF @.state \in {"whole", "handled"} THEN @ ELSE NoConn]

(* Mutant: an exchange without an answer counts as not delivered.          *)
CountsAsRefused(c) ==
    /\ Requesting(c)
    /\ conn[c].state # "none"
    /\ End(c, "no")
    /\ LeaveBehind(c) /\ Quiet
    /\ Observe

(* Mutant: no timeout.                                                     *)
OnlyIfBroken(c) ==
    /\ Requesting(c)
    /\ conn[c].state # "none"
    /\ ~Listening \/ daemon.life # conn[c].life
    /\ End(c, IF conn[c].what = "on" THEN "unknown" ELSE "no")
    /\ LeaveBehind(c) /\ Quiet
    /\ Observe

(* The connection breaks, or the client gives up at a timeout and leaves   *)
(* its request for the daemon to find.  A handoff may have been applied.   *)
Unanswered(c) ==
    /\ Requesting(c)
    /\ conn[c].state # "none"
    /\ End(c, IF conn[c].what = "on" THEN "unknown" ELSE "no")
    /\ LeaveBehind(c) /\ Quiet
    /\ Observe

-----------------------------------------------------------------------------
(* handle() and apply().                                                   *)

Reached(c, state) ==
    Listening /\ conn[c].state = state /\ conn[c].life = daemon.life

(* A client that has left reads no answer.                                 *)
Respond(c, reply) ==
    conn' = [conn EXCEPT ![c] =
      IF Requesting(c) THEN [@ EXCEPT !.state = "answered", !.reply = reply]
                       ELSE NoConn]

(* What arrives cut, or not at all within the daemon's timeout.            *)
Misread(c) ==
    /\ Reached(c, "cut") \/ Reached(c, "open")
    /\ Respond(c, Reply(FALSE))
    /\ Quiet /\ UNCHANGED cmd
    /\ Observe

Read(c, what) == Serving /\ Reached(c, "whole") /\ conn[c].what = what

ApplyWhenStopping(c) ==
    /\ daemon.phase = "stopping"
    /\ Reached(c, "whole")
    /\ Respond(c, Reply(FALSE))
    /\ Quiet /\ UNCHANGED cmd
    /\ Observe

ApplyPing(c) ==
    /\ Read(c, "ping")
    /\ Respond(c, [ok |-> TRUE, lockable |-> ~daemon.legacy,
                   locking |-> locking # None, locked |-> FALSE])
    /\ Quiet /\ UNCHANGED cmd
    /\ Observe

ApplyOn(c) ==
    /\ Read(c, "on")
    /\ hold' = IF locking = None THEN conn[c].hold ELSE hold
    /\ Respond(c, Reply(locking = None))
    /\ UNCHANGED <<setup, cmd, daemon, locking, endings>>
    /\ Observe

ApplyOff(c) ==
    /\ Read(c, "off")
    /\ hold' = [NoHold EXCEPT !.by = hold.by]
    /\ Respond(c, Reply(TRUE))
    /\ UNCHANGED <<setup, cmd, daemon, locking, endings>>
    /\ Observe

ApplyStatus(c) ==
    /\ Read(c, "status")
    /\ Respond(c, Reply(TRUE))
    /\ Quiet /\ UNCHANGED cmd
    /\ Observe

(* An unknown command to an older daemon; a second lock; nothing to lock.  *)
RefuseLock(c) ==
    /\ Read(c, "lock")
    /\ daemon.legacy \/ locking # None \/ hold.by = None
    /\ Respond(c, Reply(FALSE))
    /\ Quiet /\ UNCHANGED cmd
    /\ Observe

BeginLocking(c) ==
    /\ Read(c, "lock")
    /\ ~daemon.legacy /\ locking = None /\ hold.by # None
    /\ locking' = c
    /\ hold' = [NoHold EXCEPT !.by = hold.by]
    /\ conn' = [conn EXCEPT ![c].state = "handled"]
    /\ UNCHANGED <<setup, cmd, daemon, endings>>
    /\ Observe

(* The activations under way are drained, and the key locked; or not.      *)
EndLocking(c) ==
    /\ Reached(c, "handled")
    /\ \/ /\ \A d \in Cmds : ~Guarding(d)
          /\ Respond(c, [Reply(TRUE) EXCEPT !.locked = TRUE])
       \/ Respond(c, Reply(FALSE))
    /\ locking' = None
    /\ UNCHANGED <<setup, cmd, daemon, hold, endings>>
    /\ Observe

Handler(c) ==
    \/ Misread(c) \/ ApplyWhenStopping(c)
    \/ ApplyPing(c) \/ ApplyOn(c) \/ ApplyOff(c) \/ ApplyStatus(c)
    \/ RefuseLock(c) \/ BeginLocking(c) \/ EndLocking(c)

-----------------------------------------------------------------------------
(* What else happens to the daemon.                                        *)

HoldEnds ==
    /\ hold.on
    /\ endings > 0
    /\ endings' = endings - 1
    /\ hold' = [NoHold EXCEPT !.by = hold.by]
    /\ UNCHANGED <<setup, cmd, conn, daemon, locking>>
    /\ Observe

Stop ==
    /\ Serving
    /\ daemon' = [daemon EXCEPT !.phase = "stopping"]
    /\ UNCHANGED <<setup, cmd, conn, hold, locking, endings>>
    /\ Observe

(* The end of a daemon that stops, or its crash.                           *)
Exit ==
    /\ Listening
    /\ daemon' = [daemon EXCEPT !.phase = "down"]
    /\ hold' = NoHold
    /\ locking' = None
    /\ UNCHANGED <<setup, cmd, conn, endings>>
    /\ Observe

StartElsewhere ==
    /\ StartDaemon
    /\ UNCHANGED <<setup, cmd, conn, endings>>
    /\ Observe

Command(c) ==
    \/ Begin(c) \/ Ensure(c) \/ Activate(c)
    \/ Connect(c) \/ NotRunning(c) \/ Write(c) \/ Answered(c) \/ Unanswered(c)

Next ==
    \/ \E c \in Cmds : Command(c) \/ Handler(c)
    \/ HoldEnds
    \/ Stop \/ Exit \/ StartElsewhere

(* A command runs, and its timers with it; of the daemon nothing is asked. *)
Fairness ==
    \A c \in Cmds : WF_vars(Command(c) /\ cmd[c].step # "idle")

Spec == Init /\ [][Next]_vars /\ Fairness

-----------------------------------------------------------------------------
(* Properties.                                                             *)

(* After an `off` or a `lock` that reports success there was a moment      *)
(* without a hold since the command began, whatever became of the daemon   *)
(* it spoke to, its requests and the other commands.                       *)
OffMeansOff ==
    \A c \in Cmds :
      cmd[c].kind \in {"off", "lock"} /\ cmd[c].result = "yes" => c \in unheld

(* An `on` that says the hold was not enabled, and undoes what it stored,  *)
(* is not what the daemon holds by then or ever after, even if the daemon  *)
(* reads its request late.                                                 *)
RefusedIsNotHeld ==
    \A c \in Cmds :
      cmd[c].kind = "on" /\ cmd[c].result \in {"no", "settings"} =>
        hold.by # c

(* The ways to choose a key in the order the documentation gives: an       *)
(* option, Git by option, the file, Git by the file, gpg's default.        *)
Choices(o, f, git) ==
    << [given |-> o.key # None, key |-> o.key, source |-> "explicit"],
       [given |-> o.git_key, key |-> git.key, source |-> "git"],
       [given |-> f.key # None, key |-> f.key, source |-> "explicit"],
       [given |-> f.git_key = TRUE, key |-> git.key, source |-> "git"],
       [given |-> TRUE, key |-> None, source |-> "default"] >>

(* A hold is the first choice given, of a configuration file that is       *)
(* valid, with no other kind of Git key than OpenPGP, and the credential   *)
(* is stored only if that is wanted.                                       *)
AsWished(s, o, ask) ==
    LET choices == Choices(o, s.file, s.git)
    IN  /\ \E n \in 1 .. 5 :
             /\ choices[n].given
             /\ \A m \in 1 .. (n - 1) : ~choices[m].given
             /\ ask.key = choices[n].key /\ ask.source = choices[n].source
        /\ s.file.text \in {"missing", "toml"}
        /\ ask.source = "git" => s.git.format \notin {"ssh", Bad}
        /\ ask.store => ~o.no_store /\ (o.store \/ s.file.store = TRUE)

(* What the daemon holds is what its `on` was asked for.                   *)
HoldIsAsWished == hold.on => AsWished(setup, hold.wish, hold.ask)

(* A `status` that does not ask to watch is refused for the file only if   *)
(* its status table is wrong, not for anything else in it.                 *)
StatusTolerates ==
    \A c \in Cmds :
      ( /\ cmd[c].kind = "status" /\ cmd[c].result = "settings"
        /\ ~ExplicitWatch(cmd[c].wish) ) =>
        setup.file.text = "toml" /\ setup.file.status = Bad

(* What is held is what options, file and Git configuration ask for in the *)
(* documented order, and only what is wrong for a command refuses it.      *)
SettingsAreObeyed == HoldIsAsWished /\ StatusTolerates

(* Every command ends, whatever the daemon does or fails to do.            *)
CommandEnds == \A c \in Cmds : cmd[c].step # "idle" ~> cmd[c].step = "done"
=============================================================================
