----------------------------- MODULE StatusWatch -----------------------------
(***************************************************************************)
(* `keyhold status --watch`: the thread that reads the terminal and draws, *)
(* the worker thread that probes, the two channels between them, and the   *)
(* terminal they leave as it was (src/watch.rs, src/watch_terminal.rs).    *)
(* The probe is query_status of src/main.rs.                               *)
(*                                                                         *)
(* Instants are naturals; one tick is short against the polling interval   *)
(* and the wait for an event may end at any of them.                       *)
(***************************************************************************)
EXTENDS TerminalRegion, Sequences, FiniteSets

CONSTANTS
    None,
    Blank, Garbled, \* a region without text; one that shows no frame
    Interval,       \* the refresh interval
    Horizon,        \* the largest representable Instant; bounds the clock
    WindowSizes,    \* sizes the terminal may take
    CursorRows,     \* rows it may report for the cursor
    Failures,       \* what a probe without a running daemon reports
    MaxEvents       \* bound: terminal events not read yet

ASSUME StatusWatchAssumption ==
    /\ Interval \in Nat \ {0}
    /\ Horizon \in Nat
    /\ WindowSizes \subseteq Sizes
    /\ CursorRows \subseteq Nat
    /\ MaxEvents \in Nat
    /\ None \notin Nat
    /\ None \notin [result : {"running"} \cup Failures, finished : Nat]
    /\ None \notin [ text : {"running", "waiting"} \cup Failures,
                      polling : BOOLEAN ]
    /\ {"running", "waiting"} \cap Failures = {}

VARIABLES
    clock,
    window,         \* the size of the terminal
    events,         \* terminal events not read yet
    interrupted,    \* the flag of SIGINT and SIGTERM
    ui,             \* where the terminal thread is
    raw,            \* Terminal.raw, the terminal's input mode
    region,         \* the rows it owns
    previous,       \* the frame it drew last, None when forgotten
    screen,         \* what the region shows: a frame, Blank or Garbled
    monitor,        \* Monitor
    started,        \* when the last attempt began
    requests,       \* requests in the channel to the worker
    worker,         \* where the worker thread is
    attempt,        \* the worker's last attempt
    responses       \* the channel back

environment == <<clock, window, events, interrupted>>
terminal    == <<raw, region, previous, screen>>
polling     == <<monitor, started>>
probing     == <<requests, worker, attempt, responses>>
vars        == <<environment, ui, terminal, polling, probing>>

Findings == {"running"} \cup Failures

(* What a frame shows of the monitor; the time of the last success is left *)
(* out, and the state line follows from text and "polling".                *)
Frame(m) == [text |-> m.text, polling |-> m.pending]

Frames == [text : Findings \cup {"waiting"}, polling : BOOLEAN]

Init ==
    /\ clock = 0
    /\ window \in WindowSizes
    /\ events = <<>>
    /\ interrupted = FALSE
    /\ ui = "acquire"
    /\ raw = FALSE
    /\ region = NoRegion
    /\ previous = None
    /\ screen = Blank
    /\ monitor = [text |-> "waiting", pending |-> FALSE, next |-> 0]
    /\ started = 0
    /\ requests = 0
    /\ worker = "none"
    /\ attempt = None
    /\ responses = <<>>

-----------------------------------------------------------------------------
(* Drawing.                                                                *)

(* Only lines that differ from the previous frame are written, at the rows *)
(* of the region as last placed.                                           *)
Draw(r, drawn, shown, frame) ==
    IF r.rows = 0
      THEN previous' = None /\ screen' = shown
      ELSE /\ previous' = frame
           /\ screen' = CASE drawn = frame -> shown
                          [] drawn # frame /\ r.placed = window
                             /\ (drawn = None \/ shown = drawn) -> frame
                          [] OTHER -> Garbled

DrawMonitor(m) == Draw(region, previous, screen, Frame(m))

-----------------------------------------------------------------------------
(* Terminal::acquire and the start of run.                                 *)

EnterRawMode ==
    /\ ui = "acquire"
    /\ raw' = TRUE
    /\ ui' = "reserve"
    /\ UNCHANGED <<environment, region, previous, screen, polling, probing>>

(* Raw mode is refused, the terminal is too small, or its cursor query     *)
(* fails.                                                                  *)
AcquireFails ==
    /\ ui \in {"acquire", "reserve"}
    /\ ui' = "restore"
    /\ UNCHANGED <<environment, terminal, polling, probing>>

ReserveRegion(cursor) ==
    /\ ui = "reserve"
    /\ ~TooSmall(window)
    /\ region' = Reserve(window, cursor)
    /\ ui' = "start"
    /\ UNCHANGED <<environment, raw, previous, screen, polling, probing>>

StartWatch ==
    /\ ui = "start"
    /\ worker' = "recv"
    /\ monitor' = [monitor EXCEPT !.next = clock]
    /\ started' = clock
    /\ DrawMonitor(monitor')
    /\ ui' = "loop"
    /\ UNCHANGED <<environment, raw, region, requests, attempt, responses>>

-----------------------------------------------------------------------------
(* The loop of run.                                                        *)

(* Mutant: signals are looked at between attempts. *)
CheckWhenIdle ==
    /\ ui = "loop"
    /\ ui' = IF interrupted /\ ~monitor.pending THEN "restore" ELSE "status"
    /\ UNCHANGED <<environment, terminal, polling, probing>>

CheckInterrupted ==
    /\ ui = "loop"
    /\ ui' = IF interrupted THEN "restore" ELSE "status"
    /\ UNCHANGED <<environment, terminal, polling, probing>>

(* Mutant: the next attempt an interval after the last one ended. *)
PollFromEnd(from, finished) ==
    IF finished + Interval <= Horizon THEN finished + Interval ELSE None

(* The first tick to come of the grid laid by the attempt's own start;     *)
(* missed ticks are discarded.                                             *)
NextPoll(from, finished) ==
    LET next == finished
                + (Interval - (SubSaturating(finished, from) % Interval))
    IN  IF next <= Horizon THEN next ELSE None

Completed(m, a, next) ==
    [text |-> a.result, pending |-> FALSE, next |-> next]

(* poll_status: a response, if there is one.                               *)
TakeResponse ==
    /\ ui = "status"
    /\ responses # <<>>
    /\ responses' = Tail(responses)
    /\ LET next == NextPoll(started, Head(responses).finished)
       IN  IF next = None
             THEN /\ monitor' = [monitor EXCEPT !.pending = FALSE]
                  /\ ui' = "restore"
                  /\ UNCHANGED terminal
             ELSE /\ monitor' = Completed(monitor, Head(responses), next)
                  /\ ui' = "begin"
                  /\ DrawMonitor(monitor')
                  /\ UNCHANGED <<raw, region>>
    /\ UNCHANGED <<environment, started, requests, worker, attempt>>

NoResponse ==
    /\ ui = "status"
    /\ responses = <<>>
    /\ ui' = "begin"
    /\ UNCHANGED <<environment, terminal, polling, probing>>

(* Mutant: a missed tick is missed.                                        *)
MayBeginOnTime(m, now) == ~m.pending /\ m.next = now

MayBegin(m, now) == ~m.pending /\ m.next <= now

(* The rest of poll_status; the send waits for room in the channel.        *)
BeginAttempt ==
    /\ ui = "begin"
    /\ MayBegin(monitor, clock)
    /\ requests = 0
    /\ requests' = 1
    /\ monitor' = [monitor EXCEPT !.pending = TRUE]
    /\ started' = clock
    /\ DrawMonitor(monitor')
    /\ ui' = "wait"
    /\ UNCHANGED <<environment, raw, region, worker, attempt, responses>>

NotDue ==
    /\ ui = "begin"
    /\ ~MayBegin(monitor, clock)
    /\ ui' = "wait"
    /\ UNCHANGED <<environment, terminal, polling, probing>>

-----------------------------------------------------------------------------
(* wait_for_event.                                                         *)

NoEvent ==
    /\ ui = "wait"
    /\ events = <<>>
    /\ ui' = "loop"
    /\ UNCHANGED <<environment, terminal, polling, probing>>

ReadEvent(event) ==
    /\ ui = "wait"
    /\ events # <<>>
    /\ Head(events) = event
    /\ events' = Tail(events)
    /\ UNCHANGED <<clock, window, interrupted>>

ReadQuit ==
    /\ ReadEvent("quit")
    /\ ui' = "restore"
    /\ UNCHANGED <<terminal, polling, probing>>

ReadOldSize ==
    /\ ReadEvent("resize")
    /\ SameSize(region, window)
    /\ DrawMonitor(monitor)
    /\ ui' = "loop"
    /\ UNCHANGED <<raw, region, polling, probing>>

(* Mutant: the frame drawn before the resize is remembered. *)
KeepPrevious(cursor) ==
    /\ ReadEvent("resize")
    /\ ~SameSize(region, window)
    /\ region' = Resize(region, window, cursor)
    /\ Draw(region', previous, Blank, Frame(monitor))
    /\ ui' = "loop"
    /\ UNCHANGED <<raw, polling, probing>>

(* resize clears the rows that it owns and forgets what they showed.       *)
ReadResize(cursor) ==
    /\ ReadEvent("resize")
    /\ ~SameSize(region, window)
    /\ region' = Resize(region, window, cursor)
    /\ Draw(region', None, Blank, Frame(monitor))
    /\ ui' = "loop"
    /\ UNCHANGED <<raw, polling, probing>>

ResizeFails ==
    /\ ReadEvent("resize")
    /\ ~SameSize(region, window)
    /\ window.height # 0
    /\ region' = HeightNoted(region, window)
    /\ ui' = "restore"
    /\ UNCHANGED <<raw, previous, screen, polling, probing>>

-----------------------------------------------------------------------------
(* Terminal::drop.  Failures of clear are ignored; raw mode ends anyway.   *)

ClearRegion(r) ==
    /\ region' = r
    /\ previous' = None
    /\ screen' = Blank

(* Mutant: no second look at the size.                                     *)
ClearBlindly(cursor) ==
    /\ ui = "restore"
    /\ ClearRegion(region)
    /\ raw' = FALSE
    /\ ui' = "ended"
    /\ UNCHANGED <<environment, polling, probing>>

ClearAndRestore(cursor) ==
    /\ ui = "restore"
    /\ IF region.rows = 0 \/ window.height = 0
         THEN UNCHANGED <<region, previous, screen>>
         ELSE ClearRegion(IF SameSize(region, window) THEN region
                          ELSE Resize(region, window, cursor))
    /\ raw' = FALSE
    /\ ui' = "ended"
    /\ UNCHANGED <<environment, polling, probing>>

(* clear's own resize fails.                                               *)
RestoreOnly ==
    /\ ui = "restore"
    /\ region.rows # 0
    /\ window.height # 0
    /\ ~SameSize(region, window)
    /\ region' = HeightNoted(region, window)
    /\ raw' = FALSE
    /\ ui' = "ended"
    /\ UNCHANGED <<environment, previous, screen, polling, probing>>

-----------------------------------------------------------------------------
(* The worker.  The process ends with the terminal thread.                 *)

Receive ==
    /\ worker = "recv"
    /\ requests = 1
    /\ requests' = 0
    /\ worker' = "probe"
    /\ UNCHANGED <<environment, ui, terminal, polling, attempt, responses>>

Probe(finding) ==
    /\ worker = "probe"
    /\ attempt' = [result |-> finding, finished |-> clock]
    /\ worker' = "send"
    /\ UNCHANGED <<environment, ui, terminal, polling, requests, responses>>

(* The probe does not return: a blocked connection or credential call.     *)
Hang ==
    /\ worker = "probe"
    /\ worker' = "hung"
    /\ UNCHANGED <<environment, ui, terminal, polling, requests, attempt,
                   responses>>

Send ==
    /\ worker = "send"
    /\ responses = <<>>
    /\ responses' = <<attempt>>
    /\ worker' = "recv"
    /\ UNCHANGED <<environment, ui, terminal, polling, requests, attempt>>

(* The terminal thread has dropped its ends of the channels.               *)
LoseChannels ==
    /\ ui = "restore"
    /\ worker \in {"recv", "send"}
    /\ worker' = "gone"
    /\ UNCHANGED <<environment, ui, terminal, polling, requests, attempt,
                   responses>>

-----------------------------------------------------------------------------
(* The world.                                                              *)

Tick ==
    /\ clock < Horizon
    /\ clock' = clock + 1
    /\ UNCHANGED <<window, events, interrupted>>

(* Resizes that follow each other are one event: they are a signal.        *)
ResizeIsLast == events # <<>> /\ events[Len(events)] = "resize"

WindowChanges ==
    /\ ResizeIsLast \/ Len(events) < MaxEvents
    /\ \E size \in WindowSizes \ {window} : window' = size
    /\ events' = IF ResizeIsLast THEN events ELSE Append(events, "resize")
    /\ UNCHANGED <<clock, interrupted>>

QuitPressed ==
    /\ Len(events) < MaxEvents
    /\ events' = Append(events, "quit")
    /\ UNCHANGED <<clock, window, interrupted>>

Interrupt ==
    /\ ~interrupted
    /\ interrupted' = TRUE
    /\ UNCHANGED <<clock, window, events>>

Environment ==
    /\ ui # "ended"
    /\ Tick \/ WindowChanges \/ QuitPressed \/ Interrupt
    /\ UNCHANGED <<ui, terminal, polling, probing>>

TerminalStep ==
    \/ EnterRawMode
    \/ AcquireFails
    \/ \E cursor \in CursorRows : ReserveRegion(cursor)
    \/ StartWatch
    \/ CheckInterrupted
    \/ TakeResponse
    \/ NoResponse
    \/ BeginAttempt
    \/ NotDue
    \/ NoEvent
    \/ ReadQuit
    \/ ReadOldSize
    \/ \E cursor \in CursorRows : ReadResize(cursor)
    \/ ResizeFails
    \/ \E cursor \in CursorRows : ClearAndRestore(cursor)
    \/ RestoreOnly

WorkerStep ==
    /\ ui # "ended"
    /\ \/ Receive
       \/ \E finding \in Findings : Probe(finding)
       \/ Hang
       \/ Send
       \/ LoseChannels

(* The process has ended.                                                  *)
Terminated == ui = "ended" /\ UNCHANGED vars

Next == TerminalStep \/ WorkerStep \/ Environment \/ Terminated

(***************************************************************************)
(* Both threads go on when they can, and time passes.  A probe need not    *)
(* return, nobody has to quit, and the user may resize without end.        *)
(***************************************************************************)
Fairness ==
    /\ WF_vars(TerminalStep)
    /\ WF_vars(WorkerStep)
    /\ WF_vars(Tick /\ UNCHANGED <<ui, terminal, polling, probing>>)

Spec == Init /\ [][Next]_vars

FairSpec == Spec /\ Fairness

-----------------------------------------------------------------------------
(* Properties.                                                             *)

Monitors ==
    [text : Findings \cup {"waiting"}, pending : BOOLEAN, next : Nat]

Attempts == [result : Findings, finished : Nat]

Watching == ui \in {"loop", "status", "begin", "wait"}

(* The type of every variable.                                             *)
TypeOK ==
    /\ clock \in Nat
    /\ window \in WindowSizes
    /\ events \in Seq({"quit", "resize"})
    /\ interrupted \in BOOLEAN
    /\ ui \in {"acquire", "reserve", "start", "loop", "status", "begin",
               "wait", "restore", "ended"}
    /\ raw \in BOOLEAN
    /\ region \in Regions
    /\ previous \in Frames \cup {None}
    /\ screen \in Frames \cup {Blank, Garbled}
    /\ monitor \in Monitors
    /\ started \in Nat
    /\ requests \in {0, 1}
    /\ worker \in {"none", "recv", "probe", "hung", "send", "gone"}
    /\ attempt \in Attempts \cup {None}
    /\ worker = "send" => attempt # None
    /\ responses \in Seq(Attempts)

(* The attempt under way is in the request channel, with the worker, or in *)
(* the response channel.                                                   *)
Requested == requests = 1
AtWorker  == worker \in {"probe", "hung", "send"}
Answered  == responses # <<>>

(* Slow polls never overlap or queue missed updates (README): an attempt   *)
(* is in exactly one place as long as it is pending and otherwise in none, *)
(* so that neither thread ever blocks in a send.                           *)
OneAttempt ==
    /\ Watching => (monitor.pending <=> (Requested \/ AtWorker \/ Answered))
    /\ ~(Requested /\ AtWorker)
    /\ ~(Requested /\ Answered)
    /\ ~(AtWorker /\ Answered)
    /\ Answered => responses = <<attempt>>

(* After an attempt the next one is due a whole number of intervals after  *)
(* that attempt's own start, at the first such instant still to come when  *)
(* it finishes (next_poll), hence at least an interval after its start.    *)
(* The grid is that of the last start only: an attempt the loop begins     *)
(* late lays a new one, and nothing brings polls back to the first.        *)
PollsOnGrid ==
    Watching /\ ~monitor.pending /\ attempt # None =>
        /\ (monitor.next - started) % Interval = 0
        /\ attempt.finished < monitor.next
        /\ monitor.next <= attempt.finished + Interval
        /\ started + Interval <= monitor.next

(* However long attempts take and however late they begin, they are made   *)
(* one at a time, none is queued, and their starts are at least an         *)
(* interval apart: missed polls are not made up in a burst, and no wait is *)
(* longer than an interval.                                                *)
PollsAreOrderly == OneAttempt /\ PollsOnGrid

(* The region always lies within the terminal it was placed in and is as   *)
(* large as it can be: a short terminal keeps the quit instructions, and   *)
(* no subtraction of rows comes out too small.                             *)
RegionFits ==
    ui \in {"start", "loop", "status", "begin", "wait"} => Fits(region)

(* While the thread waits for events the region shows what the monitor     *)
(* knows, after any resize, though frames are drawn as differences.  A     *)
(* frame drawn into a window whose resize is still unread is excepted.     *)
ScreenIsCurrent ==
    (/\ ui = "wait"
     /\ region.placed = window
     /\ region.rows # 0
     /\ screen # Garbled) => screen = Frame(monitor)

(* The terminal's input mode is restored on exit, whatever ended the watch *)
(* (README).                                                               *)
TerminalRestored == ui = "ended" => ~raw

(* Whatever becomes of the window, and wherever setting up or resizing     *)
(* fails, the watch stays within its rows and gives the input mode back.   *)
TerminalIsRespected == RegionFits /\ TerminalRestored

(* Drop re-queries the size after an unprocessed resize, so that the rows  *)
(* it clears are those of its region (clear).  Excepted is a region whose  *)
(* resize failed half-way: resize has then noted the height of the window  *)
(* and clear, which compares sizes, may not see that anything changed.     *)
ClearsOwnRows ==
    [][(/\ ui = "restore" /\ screen # Blank /\ screen' = Blank
        /\ SameSize(region', region'.placed)) => region'.placed = window]_vars

(* Quitting never waits for a probe: a quit key or a signal ends the watch *)
(* although the worker may hang for ever.                                  *)
QuitIsPrompt ==
    (interrupted \/ \E i \in DOMAIN events : events[i] = "quit")
        ~> ui = "ended"

(* An answered attempt is followed by another one, unless the watch ends.  *)
PollsResume ==
    (Watching /\ ~monitor.pending) ~> (~Watching \/ monitor.pending)
=============================================================================
