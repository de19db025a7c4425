-------------------------- MODULE StatusWatchProofs --------------------------
(***************************************************************************)
(* Theorems about StatusWatch, for every interval, every set of window     *)
(* sizes, every row a terminal may report and every size of the region.    *)
(***************************************************************************)
EXTENDS StatusWatch, TLAPS

(***************************************************************************)
(* The region (TerminalRegion).                                            *)
(***************************************************************************)

(* acquire puts the region inside the terminal.                            *)
LEMMA ReserveFits ==
    ASSUME NEW size \in Sizes, NEW cursor \in Nat, ~TooSmall(size)
    PROVE  /\ Reserve(size, cursor) \in Regions
           /\ Fits(Reserve(size, cursor))
           /\ Reserve(size, cursor).placed = size
  <1>1. size.width \in Nat /\ size.height \in Nat /\ size.height # 0
    BY DEF Sizes, TooSmall
  <1> DEFINE rows   == Least(RegionRows, size.height)
             bottom == Least(cursor + (rows - 1), size.height - 1)
  <1>2. rows \in 0 .. RegionRows /\ rows > 0 /\ rows <= size.height
    BY <1>1, TerminalRegionAssumption DEF Least
  <1>3. /\ bottom + 1 - rows \in Nat
        /\ bottom + 1 - rows + rows <= size.height
    BY <1>1, <1>2 DEF Least
  <1>4. Reserve(size, cursor) = Place(bottom + 1 - rows, rows, size)
    BY DEF Reserve
  <1> HIDE DEF rows, bottom
  <1>5. Place(bottom + 1 - rows, rows, size) \in Regions
    BY <1>1, <1>2, <1>3 DEF Place, Regions
  <1>6. rows = Least(RegionRows, size.height)
    BY DEF rows
  <1>7. QED
    BY <1>3, <1>4, <1>5, <1>6 DEF Fits, Place

(* resize does so from any region, wherever the terminal says that the     *)
(* cursor is: expansion never lacks room, as reserve_to scrolls.           *)
LEMMA ResizeFits ==
    ASSUME NEW r \in Regions, NEW size \in Sizes, NEW cursor \in Nat
    PROVE  /\ Resize(r, size, cursor) \in Regions
           /\ Fits(Resize(r, size, cursor))
           /\ Resize(r, size, cursor).placed = size
  <1>1. size.width \in Nat /\ size.height \in Nat
    BY DEF Sizes
  <1>2. r.top \in Nat /\ r.rows \in Nat /\ r.rows <= RegionRows
    BY TerminalRegionAssumption DEF Regions
  <1>3. CASE size.height = 0
    <2>1. Resize(r, size, cursor) = Place(r.top, 0, size)
      BY <1>3 DEF Resize
    <2>2. 0 = Least(RegionRows, size.height) /\ 0 \in 0 .. RegionRows
      BY <1>3, TerminalRegionAssumption DEF Least
    <2>3. QED
      BY <1>1, <1>2, <2>1, <2>2 DEF Place, Regions, Fits
  <1>4. CASE size.height # 0
    <2> DEFINE bottom  == Least(cursor, size.height - 1)
               rows    == Shrink(r, size, bottom)
               wanted  == Least(RegionRows, size.height)
               lowered == Least(bottom + (wanted - rows), size.height - 1)
    <2>1. bottom \in Nat /\ bottom < size.height
      BY <1>1, <1>4 DEF Least
    <2>2. /\ rows \in Nat /\ rows <= size.height
          /\ rows <= bottom + 1
          /\ rows <= r.rows
      BY <1>1, <1>2, <2>1 DEF Shrink, Least
    <2>3. wanted \in Nat /\ wanted <= size.height /\ wanted > 0
      BY <1>1, <1>4, TerminalRegionAssumption DEF Least
    <2>4. Resize(r, size, cursor) = Expand(size, bottom, rows)
      BY <1>4 DEF Resize
    <2>5. CASE wanted > rows
      <3>1. /\ lowered + 1 >= wanted
            /\ SubSaturating(lowered + 1, wanted) \in Nat
            /\ SubSaturating(lowered + 1, wanted) + wanted <= size.height
        BY <1>1, <2>1, <2>2, <2>3, <2>5 DEF Least, SubSaturating
      <3>2. Expand(size, bottom, rows)
              = Place(SubSaturating(lowered + 1, wanted), wanted, size)
        BY <2>5 DEF Expand
      <3>3. wanted = Least(RegionRows, size.height) /\ wanted \in 0 .. RegionRows
        BY <1>1, TerminalRegionAssumption DEF Least
      <3> HIDE DEF bottom, rows, wanted, lowered
      <3>4. QED
        BY <1>1, <2>3, <2>4, <3>1, <3>2, <3>3 DEF Place, Regions, Fits
    <2>6. CASE ~(wanted > rows)
      <3>1. rows = wanted
        BY <1>1, <1>2, <2>2, <2>3, <2>6, TerminalRegionAssumption DEF Least
      <3>2. /\ SubSaturating(bottom + 1, rows) \in Nat
            /\ SubSaturating(bottom + 1, rows) + rows <= size.height
        BY <1>1, <2>1, <2>2 DEF SubSaturating
      <3>3. Expand(size, bottom, rows)
              = Place(SubSaturating(bottom + 1, rows), rows, size)
        BY <2>6 DEF Expand
      <3>4. rows = Least(RegionRows, size.height) /\ rows \in 0 .. RegionRows
        BY <1>1, <2>2, <3>1, TerminalRegionAssumption DEF Least
      <3> HIDE DEF bottom, rows, wanted, lowered
      <3>5. QED
        BY <1>1, <2>4, <3>2, <3>3, <3>4 DEF Place, Regions, Fits
    <2>7. QED
      BY <2>5, <2>6
  <1>5. QED
    BY <1>1, <1>3, <1>4

(***************************************************************************)
(* The polling grid.                                                       *)
(***************************************************************************)

(* What is missing to the next multiple of n completes a multiple.         *)
LEMMA NextMultiple ==
    ASSUME NEW a \in Nat, NEW n \in Nat \ {0}
    PROVE  (a + (n - (a % n))) % n = 0
  OBVIOUS

(* A remainder is no more than what is divided.                            *)
LEMMA RemainderIsLess ==
    ASSUME NEW a \in Nat, NEW n \in Nat \ {0}
    PROVE  a % n <= a
  OBVIOUS

(* next_poll returns the first tick of the grid laid by "from" that is     *)
(* still to come at "finished", or fails.                                  *)
LEMMA NextPollOnGrid ==
    ASSUME NEW from \in Nat, NEW finished \in Nat, from <= finished,
           NextPoll(from, finished) # None
    PROVE  /\ (NextPoll(from, finished) - from) % Interval = 0
           /\ finished < NextPoll(from, finished)
           /\ NextPoll(from, finished) <= finished + Interval
           /\ from + Interval <= NextPoll(from, finished)
  <1> DEFINE elapsed == finished - from
             rest    == Interval - (elapsed % Interval)
  <1>1. elapsed \in Nat /\ Interval \in Nat \ {0}
    BY StatusWatchAssumption
  <1>2. elapsed % Interval \in Nat /\ elapsed % Interval < Interval
    BY <1>1
  <1>3. (elapsed + rest) % Interval = 0
    BY <1>1, NextMultiple
  <1>4. NextPoll(from, finished) = finished + rest
    BY DEF NextPoll, SubSaturating
  <1>5. finished + rest - from = elapsed + rest
    BY <1>1, <1>2
  <1>6. elapsed % Interval <= elapsed
    BY <1>1, RemainderIsLess
  <1>7. QED
    BY <1>1, <1>2, <1>3, <1>4, <1>5, <1>6

(* What next_poll returns is an instant.                                   *)
LEMMA NextPollType ==
    ASSUME NEW from \in Nat, NEW finished \in Nat,
           NextPoll(from, finished) # None
    PROVE  NextPoll(from, finished) \in Nat
  <1>1. SubSaturating(finished, from) \in Nat /\ Interval \in Nat \ {0}
    BY StatusWatchAssumption DEF SubSaturating
  <1>2. /\ SubSaturating(finished, from) % Interval \in Nat
        /\ SubSaturating(finished, from) % Interval < Interval
    BY <1>1
  <1>3. QED
    BY <1>1, <1>2 DEF NextPoll

(***************************************************************************)
(* Types.                                                                  *)
(***************************************************************************)

(* A drawn frame is a frame.                                               *)
LEMMA DrawType ==
    ASSUME TypeOK, NEW r, NEW drawn, NEW m \in Monitors,
           NEW shown \in Frames \cup {Blank, Garbled},
           Draw(r, drawn, shown, Frame(m))
    PROVE  /\ previous' \in Frames \cup {None}
           /\ screen' \in Frames \cup {Blank, Garbled}
  <1>1. Frame(m) \in Frames
    BY DEF Frame, Frames, Monitors
  <1>2. CASE r.rows = 0
    BY <1>2 DEF Draw
  <1>3. CASE r.rows # 0
    BY <1>1, <1>3 DEF Draw
  <1>4. QED
    BY <1>2, <1>3

(* The initial state is well typed.                                        *)
LEMMA TypeInit == Init => TypeOK
  <1>1. NoRegion \in Regions
    BY TerminalRegionAssumption DEF NoRegion, Regions, Sizes
  <1>2. [text |-> "waiting", pending |-> FALSE, next |-> 0] \in Monitors
    BY DEF Monitors
  <1> SUFFICES ASSUME Init PROVE TypeOK
    OBVIOUS
  <1>3. events \in Seq({"quit", "resize"}) /\ responses \in Seq(Attempts)
    BY DEF Init
  <1>4. /\ clock \in Nat /\ started \in Nat /\ requests \in {0, 1}
        /\ window \in WindowSizes /\ interrupted \in BOOLEAN /\ raw \in BOOLEAN
    BY DEF Init
  <1>5. /\ ui = "acquire" /\ worker = "none" /\ attempt = None
        /\ previous = None /\ screen = Blank
        /\ region \in Regions /\ monitor \in Monitors
    BY <1>1, <1>2 DEF Init
  <1>6. QED
    BY <1>3, <1>4, <1>5 DEF TypeOK

(* Every step of either thread and of the world keeps the types.           *)
LEMMA TypeNext == TypeOK /\ [Next]_vars => TypeOK'
  <1> SUFFICES ASSUME TypeOK, [Next]_vars PROVE TypeOK'
    OBVIOUS
  <1> USE DEF environment, terminal, polling, probing
  <1>1. window \in Sizes /\ Interval \in Nat \ {0} /\ Horizon \in Nat
    BY StatusWatchAssumption DEF TypeOK
  <1>2. ASSUME EnterRawMode \/ AcquireFails \/ CheckInterrupted
               \/ NoResponse \/ NotDue \/ NoEvent
        PROVE  TypeOK'
    BY <1>2
    DEF EnterRawMode, AcquireFails, CheckInterrupted, NoResponse, NotDue,
        NoEvent, TypeOK
  <1>3. ASSUME NEW cursor \in CursorRows, ReserveRegion(cursor) PROVE TypeOK'
    <2>1. Reserve(window, cursor) \in Regions
      BY <1>1, <1>3, ReserveFits, StatusWatchAssumption DEF ReserveRegion
    <2>2. QED
      BY <1>3, <2>1 DEF ReserveRegion, TypeOK
  <1>4. CASE StartWatch
    <2>1. monitor' \in Monitors
      BY <1>4 DEF StartWatch, TypeOK, Monitors
    <2>2. /\ previous' \in Frames \cup {None}
          /\ screen' \in Frames \cup {Blank, Garbled}
      BY <1>4, <2>1, DrawType DEF StartWatch, DrawMonitor, TypeOK
    <2>3. QED
      BY <1>4, <2>1, <2>2 DEF StartWatch, TypeOK
  <1>5. CASE TakeResponse
    <2> DEFINE a    == Head(responses)
               next == NextPoll(started, a.finished)
    <2>1. a \in Attempts /\ Tail(responses) \in Seq(Attempts)
      BY <1>5 DEF TakeResponse, TypeOK
    <2>2. started \in Nat /\ a.finished \in Nat /\ a.result \in Findings
      BY <2>1 DEF TypeOK, Attempts
    <2>3. CASE next = None
      <3>1. monitor' \in Monitors
        BY <1>5, <2>3 DEF TakeResponse, TypeOK, Monitors
      <3>2. QED
        BY <1>5, <2>1, <2>3, <3>1 DEF TakeResponse, TypeOK
    <2>4. CASE next # None
      <3>1. next \in Nat
        <4> HIDE DEF a
        <4>1. QED
          BY <2>2, <2>4, NextPollType
      <3>2. monitor' \in Monitors
        <4>1. monitor' = [text |-> a.result, pending |-> FALSE, next |-> next]
          BY <1>5, <2>4 DEF TakeResponse, Completed
        <4> HIDE DEF next, a
        <4>2. QED
          BY <2>2, <3>1, <4>1 DEF Monitors
      <3>3. DrawMonitor(monitor')
        BY <1>5, <2>4 DEF TakeResponse
      <3>4. /\ previous' \in Frames \cup {None}
            /\ screen' \in Frames \cup {Blank, Garbled}
        BY <3>2, <3>3, DrawType DEF DrawMonitor, TypeOK
      <3>5. QED
        BY <1>5, <2>1, <2>4, <3>2, <3>4 DEF TakeResponse, TypeOK
    <2>5. QED
      BY <2>3, <2>4
  <1>6. CASE BeginAttempt
    <2>1. monitor' \in Monitors
      BY <1>6 DEF BeginAttempt, TypeOK, Monitors
    <2>2. /\ previous' \in Frames \cup {None}
          /\ screen' \in Frames \cup {Blank, Garbled}
      BY <1>6, <2>1, DrawType DEF BeginAttempt, DrawMonitor, TypeOK
    <2>3. QED
      BY <1>6, <2>1, <2>2 DEF BeginAttempt, TypeOK
  <1>7. CASE ReadQuit
    BY <1>7 DEF ReadQuit, ReadEvent, TypeOK
  <1>8. CASE ReadOldSize
    <2>1. /\ previous' \in Frames \cup {None}
          /\ screen' \in Frames \cup {Blank, Garbled}
      BY <1>8, DrawType DEF ReadOldSize, DrawMonitor, TypeOK
    <2>2. QED
      BY <1>8, <2>1 DEF ReadOldSize, ReadEvent, TypeOK
  <1>9. ASSUME NEW cursor \in CursorRows, ReadResize(cursor) PROVE TypeOK'
    <2>1. Resize(region, window, cursor) \in Regions
      BY <1>1, ResizeFits, StatusWatchAssumption DEF TypeOK
    <2>2. /\ previous' \in Frames \cup {None}
          /\ screen' \in Frames \cup {Blank, Garbled}
      BY <1>9, DrawType DEF ReadResize, TypeOK
    <2>3. QED
      BY <1>9, <2>1, <2>2 DEF ReadResize, ReadEvent, TypeOK
  <1>10. HeightNoted(region, window) \in Regions
    BY <1>1 DEF HeightNoted, Regions, Sizes, TypeOK
  <1>11. CASE ResizeFails \/ RestoreOnly
    <2>1. CASE ResizeFails
      BY <1>10, <2>1 DEF ResizeFails, ReadEvent, TypeOK
    <2>2. CASE RestoreOnly
      BY <1>10, <2>2 DEF RestoreOnly, TypeOK
    <2>3. QED
      BY <1>11, <2>1, <2>2
  <1>12. ASSUME NEW cursor \in CursorRows, ClearAndRestore(cursor)
         PROVE  TypeOK'
    <2>1. Resize(region, window, cursor) \in Regions
      BY <1>1, ResizeFits, StatusWatchAssumption DEF TypeOK
    <2>2. QED
      BY <1>12, <2>1 DEF ClearAndRestore, ClearRegion, TypeOK
  <1>13. CASE WorkerStep
    <2>1. ASSUME NEW finding \in Findings, Probe(finding) PROVE TypeOK'
      <3>1. attempt' \in Attempts
        BY <2>1 DEF Probe, TypeOK, Attempts
      <3>2. attempt' # None
        BY <3>1, StatusWatchAssumption DEF Attempts, Findings
      <3>3. QED
        BY <2>1, <3>1, <3>2 DEF Probe, TypeOK
    <2>2. CASE Send
      <3>1. attempt \in Attempts
        BY <2>2 DEF Send, TypeOK
      <3>2. QED
        BY <2>2, <3>1 DEF Send, TypeOK
    <2>3. CASE Receive \/ Hang \/ LoseChannels
      BY <2>3 DEF Receive, Hang, LoseChannels, TypeOK
    <2>4. QED
      BY <1>13, <2>1, <2>2, <2>3 DEF WorkerStep
  <1>14. CASE Environment
    <2>1. CASE Tick
      BY <1>14, <2>1 DEF Environment, Tick, TypeOK
    <2>2. CASE WindowChanges
      BY <1>14, <2>2 DEF Environment, WindowChanges, TypeOK
    <2>3. CASE QuitPressed
      <3>1. events' \in Seq({"quit", "resize"})
        BY <2>3 DEF QuitPressed, TypeOK
      <3>2. QED
        BY <1>14, <2>3, <3>1 DEF Environment, QuitPressed, TypeOK
    <2>4. CASE Interrupt
      BY <1>14, <2>4 DEF Environment, Interrupt, TypeOK
    <2>5. QED
      BY <1>14, <2>1, <2>2, <2>3, <2>4 DEF Environment
  <1>15. CASE Terminated \/ UNCHANGED vars
    BY <1>15 DEF Terminated, vars, TypeOK
  <1>16. QED
    BY <1>2, <1>3, <1>4, <1>5, <1>6, <1>7, <1>8, <1>9, <1>11, <1>12, <1>13,
       <1>14, <1>15
    DEF Next, TerminalStep

(***************************************************************************)
(* The invariant.                                                          *)
(***************************************************************************)

(* Before the loop nothing has been asked for.                             *)
NothingYet ==
    ui \in {"acquire", "reserve", "start"} =>
        /\ ~monitor.pending
        /\ requests = 0
        /\ worker = "none"
        /\ responses = <<>>
        /\ attempt = None

(* A pending attempt began in the past, and finished after it began.       *)
InOrder ==
    Watching /\ monitor.pending =>
        /\ started <= clock
        /\ worker = "send" \/ Answered => started <= attempt.finished

Inv ==
    /\ TypeOK
    /\ NothingYet
    /\ OneAttempt
    /\ InOrder
    /\ PollsOnGrid
    /\ RegionFits
    /\ TerminalRestored

(* The steps that leave the attempt, the channels and the monitor alone.   *)
LEMMA QuietSteps ==
    ASSUME NEW cursor,
           \/ EnterRawMode \/ AcquireFails \/ ReserveRegion(cursor)
           \/ CheckInterrupted \/ NoResponse \/ NotDue \/ NoEvent
           \/ ReadQuit \/ ReadOldSize \/ ReadResize(cursor) \/ ResizeFails
           \/ ClearAndRestore(cursor) \/ RestoreOnly
           \/ Environment \/ Terminated \/ UNCHANGED vars
    PROVE  UNCHANGED <<polling, probing>>
  BY DEF EnterRawMode, AcquireFails, ReserveRegion, CheckInterrupted,
         NoResponse, NotDue, NoEvent, ReadQuit, ReadOldSize, ReadResize,
         ResizeFails, ClearAndRestore, RestoreOnly, Environment, Terminated,
         vars, polling, probing

(* Where the terminal thread is: the loop is entered by StartWatch only.   *)
LEMMA LoopIsEnteredOnce ==
    ASSUME TypeOK, [Next]_vars, ~StartWatch
    PROVE  /\ Watching' => Watching
           /\ ui' \in {"acquire", "reserve", "start"} =>
                 ui \in {"acquire", "reserve", "start"}
  <1> USE DEF Watching
  <1>1. CASE UNCHANGED ui
    BY <1>1
  <1>2. ASSUME TerminalStep
        PROVE  /\ Watching' => Watching
               /\ ui' \in {"acquire", "reserve", "start"} =>
                     ui \in {"acquire", "reserve", "start"}
    <2>1. CASE EnterRawMode \/ AcquireFails
               \/ \E cursor \in CursorRows : ReserveRegion(cursor)
      BY <2>1 DEF EnterRawMode, AcquireFails, ReserveRegion
    <2>2. CASE CheckInterrupted \/ TakeResponse \/ NoResponse
      BY <2>2 DEF CheckInterrupted, TakeResponse, NoResponse
    <2>3. CASE BeginAttempt \/ NotDue \/ NoEvent
      BY <2>3 DEF BeginAttempt, NotDue, NoEvent
    <2>4. CASE ReadQuit \/ ReadOldSize \/ ResizeFails
               \/ \E cursor \in CursorRows : ReadResize(cursor)
      BY <2>4 DEF ReadQuit, ReadOldSize, ResizeFails, ReadResize, ReadEvent
    <2>5. CASE RestoreOnly \/ \E cursor \in CursorRows : ClearAndRestore(cursor)
      BY <2>5 DEF RestoreOnly, ClearAndRestore
    <2>6. QED
      BY <1>2, <2>1, <2>2, <2>3, <2>4, <2>5 DEF TerminalStep
  <1>3. WorkerStep \/ Environment \/ Terminated \/ UNCHANGED vars
          => UNCHANGED ui
    BY DEF WorkerStep, Receive, Probe, Hang, Send, LoseChannels, Environment,
           Terminated, vars
  <1>4. QED
    BY <1>1, <1>2, <1>3 DEF Next

(* A pipeline that a step does not touch stays as it is.                   *)
LEMMA QuietPipeline ==
    ASSUME TypeOK, NothingYet, OneAttempt, [Next]_vars, ~StartWatch,
           UNCHANGED <<polling, probing>>
    PROVE  NothingYet' /\ OneAttempt'
  <1>1. UNCHANGED <<monitor, requests, worker, attempt, responses>>
    BY DEF polling, probing
  <1>2. QED
    BY <1>1, LoopIsEnteredOnce
    DEF NothingYet, OneAttempt, Requested, AtWorker, Answered

(* An attempt moves from channel to worker to channel, alone.              *)
LEMMA PipelineNext ==
    ASSUME TypeOK, NothingYet, OneAttempt, [Next]_vars
    PROVE  NothingYet' /\ OneAttempt'
  <1> USE DEF Requested, AtWorker, Answered, Watching
  <1>1. CASE StartWatch
    BY <1>1 DEF StartWatch, NothingYet, OneAttempt, TypeOK, Monitors
  <1>2. CASE TakeResponse
    <2>1. responses = <<attempt>>
      BY <1>2 DEF TakeResponse, OneAttempt
    <2>2. responses' = <<>>
      BY <1>2, <2>1 DEF TakeResponse
    <2>3. UNCHANGED <<requests, worker, attempt>> /\ ui = "status"
      BY <1>2 DEF TakeResponse
    <2>4. ui' \in {"restore", "begin"} /\ ~monitor'.pending
      BY <1>2 DEF TakeResponse, Completed, TypeOK, Monitors
    <2>5. QED
      BY <2>1, <2>2, <2>3, <2>4 DEF NothingYet, OneAttempt
  <1>3. CASE BeginAttempt
    <2>1. ~Requested /\ ~AtWorker /\ ~Answered
      BY <1>3 DEF BeginAttempt, MayBegin, OneAttempt
    <2>2. monitor'.pending
      BY <1>3 DEF BeginAttempt, TypeOK, Monitors
    <2>3. /\ requests' = 1 /\ ui' = "wait"
          /\ UNCHANGED <<worker, attempt, responses>>
      BY <1>3 DEF BeginAttempt
    <2>4. QED
      BY <2>1, <2>2, <2>3 DEF NothingYet, OneAttempt
  <1>4. CASE WorkerStep
    <2>1. UNCHANGED <<ui, monitor>>
      BY <1>4
      DEF WorkerStep, Receive, Probe, Hang, Send, LoseChannels, polling
    <2>2. worker # "none"
      BY <1>4 DEF WorkerStep, Receive, Probe, Hang, Send, LoseChannels
    <2>3. CASE Receive
      BY <2>1, <2>2, <2>3 DEF Receive, NothingYet, OneAttempt
    <2>4. ASSUME NEW finding \in Findings, Probe(finding)
          PROVE  NothingYet' /\ OneAttempt'
      BY <2>1, <2>2, <2>4 DEF Probe, NothingYet, OneAttempt
    <2>5. CASE Hang
      BY <2>1, <2>2, <2>5 DEF Hang, NothingYet, OneAttempt
    <2>6. CASE Send
      BY <2>1, <2>2, <2>6 DEF Send, NothingYet, OneAttempt
    <2>7. CASE LoseChannels
      BY <2>1, <2>2, <2>7 DEF LoseChannels, NothingYet, OneAttempt
    <2>8. QED
      BY <1>4, <2>3, <2>4, <2>5, <2>6, <2>7 DEF WorkerStep
  <1>5. CASE ~(StartWatch \/ TakeResponse \/ BeginAttempt \/ WorkerStep)
    <2>1. UNCHANGED <<polling, probing>>
      BY <1>5, QuietSteps DEF Next, TerminalStep
    <2>2. QED
      BY <1>5, <2>1, QuietPipeline
  <1>6. QED
    BY <1>1, <1>2, <1>3, <1>4, <1>5

(* The clock only advances, and an attempt that ends ends now.             *)
LEMMA InOrderNext ==
    ASSUME TypeOK, NothingYet, OneAttempt, InOrder, [Next]_vars
    PROVE  InOrder'
  <1> USE DEF Requested, AtWorker, Answered, Watching
  <1>1. CASE StartWatch
    BY <1>1 DEF StartWatch, InOrder, NothingYet, TypeOK, Monitors
  <1>2. CASE TakeResponse
    BY <1>2 DEF TakeResponse, Completed, InOrder, TypeOK, Monitors
  <1>3. CASE BeginAttempt
    <2>1. ~AtWorker /\ ~Answered
      BY <1>3 DEF BeginAttempt, MayBegin, OneAttempt
    <2>2. UNCHANGED <<clock, worker, responses>> /\ started' = clock
      BY <1>3 DEF BeginAttempt, environment
    <2>3. QED
      BY <2>1, <2>2 DEF InOrder, TypeOK
  <1>4. CASE WorkerStep
    <2>1. UNCHANGED <<ui, monitor, started, clock>>
      BY <1>4
      DEF WorkerStep, Receive, Probe, Hang, Send, LoseChannels, polling,
          environment
    <2>2. CASE Receive \/ Hang \/ Send \/ LoseChannels
      BY <2>1, <2>2 DEF Receive, Hang, Send, LoseChannels, InOrder
    <2>3. ASSUME NEW finding \in Findings, Probe(finding) PROVE InOrder'
      BY <2>1, <2>3 DEF Probe, InOrder
    <2>4. QED
      BY <1>4, <2>2, <2>3 DEF WorkerStep
  <1>5. CASE ~(StartWatch \/ TakeResponse \/ BeginAttempt \/ WorkerStep)
    <2>1. UNCHANGED <<monitor, started, requests, worker, attempt, responses>>
      BY <1>5, QuietSteps DEF Next, TerminalStep, polling, probing
    <2>2. Watching' => Watching
      BY <1>5, LoopIsEnteredOnce
    <2>3. clock' \in Nat /\ clock <= clock'
      <3>1. CASE Environment
        BY <3>1 DEF Environment, Tick, WindowChanges, QuitPressed, Interrupt,
                    TypeOK
      <3>2. CASE ~Environment
        <4>1. UNCHANGED clock
          BY <1>5, <3>2
          DEF Next, TerminalStep, EnterRawMode, AcquireFails, ReserveRegion,
              CheckInterrupted, NoResponse, NotDue, NoEvent, ReadQuit,
              ReadOldSize, ReadResize, ResizeFails, ReadEvent,
              ClearAndRestore, RestoreOnly, Terminated, vars, environment
        <4>2. QED
          BY <4>1 DEF TypeOK
      <3>3. QED
        BY <3>1, <3>2
    <2>4. QED
      BY <2>1, <2>2, <2>3 DEF InOrder, TypeOK
  <1>6. QED
    BY <1>1, <1>2, <1>3, <1>4, <1>5

(* The grid is laid when a response is taken; it lasts until the next      *)
(* attempt begins.                                                         *)
LEMMA GridNext ==
    ASSUME TypeOK, NothingYet, OneAttempt, InOrder, PollsOnGrid, [Next]_vars
    PROVE  PollsOnGrid'
  <1> USE DEF Requested, AtWorker, Answered, Watching
  <1>1. CASE StartWatch
    BY <1>1 DEF StartWatch, PollsOnGrid, NothingYet
  <1>2. CASE TakeResponse
    <2>1. responses = <<attempt>> /\ Head(responses) = attempt
      BY <1>2 DEF TakeResponse, OneAttempt
    <2>2. started \in Nat /\ attempt.finished \in Nat /\ started <= attempt.finished
      <3>1. attempt \in Attempts
        BY <1>2, <2>1 DEF TakeResponse, TypeOK
      <3>2. monitor.pending /\ ui = "status"
        BY <1>2 DEF TakeResponse, OneAttempt
      <3>3. QED
        BY <2>1, <3>1, <3>2 DEF InOrder, TypeOK, Attempts
    <2>3. CASE NextPoll(started, attempt.finished) = None
      <3>1. ui' = "restore"
        BY <1>2, <2>1, <2>3 DEF TakeResponse
      <3>2. QED
        BY <3>1 DEF PollsOnGrid
    <2>4. CASE NextPoll(started, attempt.finished) # None
      <3>1. /\ monitor'.next = NextPoll(started, attempt.finished)
            /\ UNCHANGED <<started, attempt>>
        BY <1>2, <2>1, <2>4 DEF TakeResponse, Completed
      <3>2. QED
        BY <2>2, <2>4, <3>1, NextPollOnGrid DEF PollsOnGrid
    <2>5. QED
      BY <2>3, <2>4
  <1>3. CASE BeginAttempt
    BY <1>3 DEF BeginAttempt, PollsOnGrid, TypeOK, Monitors
  <1>4. CASE WorkerStep
    <2>1. UNCHANGED <<ui, monitor, started>>
      BY <1>4
      DEF WorkerStep, Receive, Probe, Hang, Send, LoseChannels, polling
    <2>2. CASE Receive \/ Hang \/ Send \/ LoseChannels
      BY <2>1, <2>2 DEF Receive, Hang, Send, LoseChannels, PollsOnGrid
    <2>3. ASSUME NEW finding \in Findings, Probe(finding) PROVE PollsOnGrid'
      <3>1. Watching => monitor.pending
        BY <2>3 DEF Probe, OneAttempt
      <3>2. QED
        BY <2>1, <3>1 DEF PollsOnGrid
    <2>4. QED
      BY <1>4, <2>2, <2>3 DEF WorkerStep
  <1>5. CASE ~(StartWatch \/ TakeResponse \/ BeginAttempt \/ WorkerStep)
    <2>1. UNCHANGED <<monitor, started, attempt>>
      BY <1>5, QuietSteps DEF Next, TerminalStep, polling, probing
    <2>2. Watching' => Watching
      BY <1>5, LoopIsEnteredOnce
    <2>3. QED
      BY <2>1, <2>2 DEF PollsOnGrid
  <1>6. QED
    BY <1>1, <1>2, <1>3, <1>4, <1>5

(* The region moves when it is reserved, resized or given up.              *)
LEMMA RegionNext ==
    ASSUME TypeOK, RegionFits, [Next]_vars
    PROVE  RegionFits'
  <1> USE DEF RegionFits
  <1>1. window \in Sizes /\ region \in Regions
    BY StatusWatchAssumption DEF TypeOK
  <1>2. ASSUME NEW cursor \in CursorRows, ReserveRegion(cursor)
        PROVE  RegionFits'
    BY <1>1, <1>2, ReserveFits, StatusWatchAssumption DEF ReserveRegion
  <1>3. ASSUME NEW cursor \in CursorRows, ReadResize(cursor)
        PROVE  RegionFits'
    BY <1>1, <1>3, ResizeFits, StatusWatchAssumption DEF ReadResize
  <1>4. ASSUME NEW cursor \in CursorRows, ClearAndRestore(cursor)
        PROVE  RegionFits'
    BY <1>4 DEF ClearAndRestore
  <1>5. CASE ResizeFails \/ RestoreOnly \/ EnterRawMode \/ AcquireFails
    BY <1>5 DEF ResizeFails, RestoreOnly, EnterRawMode, AcquireFails
  <1>6. CASE StartWatch \/ CheckInterrupted \/ NoResponse \/ BeginAttempt
             \/ NotDue \/ NoEvent \/ ReadQuit \/ ReadOldSize
    <2>1. UNCHANGED region
      BY <1>6
      DEF StartWatch, CheckInterrupted, NoResponse, BeginAttempt, NotDue,
          NoEvent, ReadQuit, ReadOldSize, terminal
    <2>2. ui \in {"start", "loop", "status", "begin", "wait"}
      BY <1>6
      DEF StartWatch, CheckInterrupted, NoResponse, BeginAttempt, NotDue,
          NoEvent, ReadQuit, ReadOldSize, ReadEvent
    <2>3. QED
      BY <2>1, <2>2
  <1>7. CASE TakeResponse
    BY <1>7 DEF TakeResponse, terminal
  <1>8. CASE WorkerStep \/ Environment \/ Terminated \/ UNCHANGED vars
    BY <1>8
    DEF WorkerStep, Receive, Probe, Hang, Send, LoseChannels, Environment,
        Terminated, vars, terminal
  <1>9. QED
    BY <1>2, <1>3, <1>4, <1>5, <1>6, <1>7, <1>8 DEF Next, TerminalStep

(* The two steps that end the process leave raw mode first.                *)
LEMMA RestoredNext ==
    ASSUME TypeOK, TerminalRestored, [Next]_vars
    PROVE  TerminalRestored'
  <1> USE DEF TerminalRestored
  <1>1. CASE RestoreOnly \/ \E cursor \in CursorRows : ClearAndRestore(cursor)
    BY <1>1 DEF RestoreOnly, ClearAndRestore
  <1>2. CASE EnterRawMode \/ AcquireFails \/ StartWatch \/ CheckInterrupted
             \/ NoResponse \/ BeginAttempt \/ NotDue \/ NoEvent \/ ReadQuit
             \/ ReadOldSize \/ ResizeFails
    BY <1>2
    DEF EnterRawMode, AcquireFails, StartWatch, CheckInterrupted, NoResponse,
        BeginAttempt, NotDue, NoEvent, ReadQuit, ReadOldSize, ResizeFails
  <1>3. CASE \/ TakeResponse
             \/ \E cursor \in CursorRows :
                   ReserveRegion(cursor) \/ ReadResize(cursor)
    BY <1>3 DEF TakeResponse, ReserveRegion, ReadResize
  <1>4. CASE WorkerStep \/ Environment \/ Terminated \/ UNCHANGED vars
    BY <1>4
    DEF WorkerStep, Receive, Probe, Hang, Send, LoseChannels, Environment,
        Terminated, vars, terminal
  <1>5. QED
    BY <1>1, <1>2, <1>3, <1>4 DEF Next, TerminalStep

(* Inv holds of every reachable state.                                     *)
LEMMA Invariance == Spec => []Inv
  <1>1. Init => Inv
    <2>1. Init => TypeOK
      BY TypeInit
    <2>2. Init => NothingYet /\ OneAttempt
      BY DEF Init, NothingYet, OneAttempt, Watching, Requested, AtWorker,
             Answered
    <2>3. Init => InOrder /\ PollsOnGrid /\ RegionFits /\ TerminalRestored
      BY DEF Init, InOrder, PollsOnGrid, RegionFits, TerminalRestored,
             Watching
    <2>4. QED
      BY <2>1, <2>2, <2>3 DEF Inv
  <1>2. Inv /\ [Next]_vars => Inv'
    BY TypeNext, PipelineNext, InOrderNext, GridNext, RegionNext,
       RestoredNext
    DEF Inv
  <1>3. QED
    BY <1>1, <1>2, PTL DEF Spec

-----------------------------------------------------------------------------
(* Every variable keeps its type.                                          *)
THEOREM WatchTypeCorrect == Spec => []TypeOK
  BY Invariance, PTL DEF Inv

(* Polls never overlap and never queue up, however slow a probe is.        *)
THEOREM PollsNeverOverlap == Spec => []OneAttempt
  BY Invariance, PTL DEF Inv

(* After an attempt the next one is due at the first tick to come of the   *)
(* grid laid by its start, at least an interval after it, for every        *)
(* interval and every duration of the attempt.                             *)
THEOREM PollsStayOnGrid == Spec => []PollsOnGrid
  BY Invariance, PTL DEF Inv

(* Whatever sizes the terminal takes and wherever it reports the cursor,   *)
(* the region fits and keeps the row with the quit instructions.           *)
THEOREM RegionAlwaysFits == Spec => []RegionFits
  BY Invariance, PTL DEF Inv

(* However the watch ends, the terminal's input mode has been restored.    *)
THEOREM InputModeRestored == Spec => []TerminalRestored
  BY Invariance, PTL DEF Inv

(* Attempts are made one at a time, at least an interval apart, and on the *)
(* grid of the one before unless the loop is late, however long each takes.*)
THEOREM PollingStaysOrderly == Spec => []PollsAreOrderly
  BY PollsNeverOverlap, PollsStayOnGrid, PTL DEF PollsAreOrderly

(* The watch stays within its rows and gives the input mode back, whatever *)
(* becomes of the window and whatever fails.                               *)
THEOREM TerminalStaysRespected == Spec => []TerminalIsRespected
  BY RegionAlwaysFits, InputModeRestored, PTL DEF TerminalIsRespected

-----------------------------------------------------------------------------
(***************************************************************************)
(* The screen.                                                             *)
(***************************************************************************)

(* What was drawn last is on the screen unless that is garbled, and what   *)
(* was drawn last is what the monitor knows.                               *)
DrawnIsShown == previous # None /\ screen # Garbled => screen = previous

DrawnIsCurrent ==
    Watching /\ region.rows # 0 => previous = Frame(monitor)

Pictured == DrawnIsShown /\ DrawnIsCurrent

(* A drawing leaves the frame it was given, whatever there was before.     *)
LEMMA DrawPictures ==
    ASSUME NEW drawn, NEW shown, NEW m \in Monitors,
           Draw(region', drawn, shown, Frame(m)), monitor' = m,
           drawn # None /\ shown # Garbled => shown = drawn
    PROVE  Pictured'
  <1>1. Frame(m) \in Frames /\ Frame(m) # None
    BY StatusWatchAssumption DEF Frame, Frames, Monitors, Findings
  <1>2. CASE region'.rows = 0
    BY <1>2 DEF Draw, Pictured, DrawnIsShown, DrawnIsCurrent
  <1>3. CASE region'.rows # 0
    <2>1. previous' = Frame(m)
      BY <1>3 DEF Draw
    <2>2. screen' # Garbled => screen' = Frame(m)
      BY <1>1, <1>3 DEF Draw
    <2>3. QED
      BY <2>1, <2>2 DEF Pictured, DrawnIsShown, DrawnIsCurrent
  <1>4. QED
    BY <1>2, <1>3

LEMMA PicturedNext ==
    ASSUME TypeOK, TypeOK', Pictured, [Next]_vars
    PROVE  Pictured'
  <1>1. previous # None /\ screen # Garbled => screen = previous
    BY DEF Pictured, DrawnIsShown
  <1>2. monitor \in Monitors /\ monitor' \in Monitors
    BY DEF TypeOK
  <1>3. CASE StartWatch \/ BeginAttempt
    <2>1. DrawMonitor(monitor') /\ region' = region
      BY <1>3 DEF StartWatch, BeginAttempt
    <2>2. QED
      BY <1>1, <1>2, <2>1, DrawPictures DEF DrawMonitor
  <1>4. CASE ReadOldSize
    <2>1. DrawMonitor(monitor) /\ UNCHANGED <<region, monitor>>
      BY <1>4 DEF ReadOldSize, polling
    <2>2. QED
      BY <1>1, <1>2, <2>1, DrawPictures DEF DrawMonitor
  <1>5. ASSUME NEW cursor \in CursorRows, ReadResize(cursor)
        PROVE  Pictured'
    <2>1. Draw(region', None, Blank, Frame(monitor)) /\ UNCHANGED monitor
      BY <1>5 DEF ReadResize, polling
    <2>2. QED
      BY <1>2, <2>1, DrawPictures
  <1>6. CASE TakeResponse
    <2>1. CASE ui' = "begin"
      <3>1. DrawMonitor(monitor') /\ region' = region
        BY <1>6, <2>1 DEF TakeResponse
      <3>2. QED
        BY <1>1, <1>2, <3>1, DrawPictures DEF DrawMonitor
    <2>2. CASE ui' = "restore" /\ UNCHANGED terminal
      BY <1>1, <2>2
      DEF Pictured, DrawnIsShown, DrawnIsCurrent, Watching, terminal
    <2>3. QED
      BY <1>6, <2>1, <2>2 DEF TakeResponse
  <1>7. ASSUME NEW cursor \in CursorRows, ClearAndRestore(cursor)
        PROVE  Pictured'
    BY <1>1, <1>7
    DEF ClearAndRestore, ClearRegion, Pictured, DrawnIsShown, DrawnIsCurrent,
        Watching
  <1>8. CASE \/ \E cursor \in CursorRows : ReserveRegion(cursor)
             \/ EnterRawMode \/ AcquireFails \/ ResizeFails \/ RestoreOnly
             \/ ReadQuit
    <2>1. ~Watching' /\ UNCHANGED <<previous, screen>>
      BY <1>8 DEF ReserveRegion, EnterRawMode, AcquireFails, ResizeFails,
         RestoreOnly, ReadQuit, Watching, terminal
    <2>2. QED
      BY <1>1, <2>1 DEF Pictured, DrawnIsShown, DrawnIsCurrent
  <1>9. CASE CheckInterrupted \/ NoResponse \/ NotDue \/ NoEvent
             \/ WorkerStep \/ Environment \/ Terminated \/ UNCHANGED vars
    <2>1. UNCHANGED <<terminal, monitor>> /\ (Watching' => Watching)
      BY <1>9 DEF CheckInterrupted, NoResponse, NotDue, NoEvent, WorkerStep,
         Receive, Probe, Hang, Send, LoseChannels, Environment, Terminated,
         vars, polling, Watching
    <2>2. QED
      BY <2>1 DEF Pictured, DrawnIsShown, DrawnIsCurrent, terminal
  <1>10. QED
    BY <1>3, <1>4, <1>5, <1>6, <1>7, <1>8, <1>9 DEF Next, TerminalStep

(* Although frames are drawn as differences, the screen shows what the     *)
(* monitor knows after any number of resizes, unless a frame was drawn     *)
(* into a window whose resize is still unread.                             *)
THEOREM ScreenStaysCurrent == Spec => []ScreenIsCurrent
  <1>1. Init => Pictured
    BY DEF Init, Pictured, DrawnIsShown, DrawnIsCurrent, Watching
  <1>2. TypeOK /\ TypeOK' /\ Pictured /\ [Next]_vars => Pictured'
    BY PicturedNext
  <1>3. TypeOK /\ Pictured => ScreenIsCurrent
    <2>1. \A m \in Monitors : Frame(m) # None
      BY StatusWatchAssumption DEF Frame, Monitors, Findings
    <2>2. QED
      BY <2>1 DEF TypeOK, Pictured, DrawnIsShown, DrawnIsCurrent, Watching,
                  ScreenIsCurrent
  <1>4. QED
    BY <1>1, <1>2, <1>3, WatchTypeCorrect, PTL DEF Spec

(* The rows Drop clears are the region's own in the window as it is then,  *)
(* also when a resize was not read any more.                               *)
THEOREM OwnRowsAreCleared == Spec => ClearsOwnRows
  <1> DEFINE Own ==
        (/\ ui = "restore" /\ screen # Blank /\ screen' = Blank
         /\ SameSize(region', region'.placed)) => region'.placed = window
  <1>1. TypeOK /\ [Next]_vars => [Own]_vars
    <2> SUFFICES ASSUME TypeOK, Next, ui = "restore", screen' # screen,
                        SameSize(region', region'.placed)
                 PROVE  region'.placed = window
      OBVIOUS
    <2>1. window \in Sizes /\ region \in Regions /\ region.placed \in Sizes
      BY StatusWatchAssumption DEF TypeOK, Regions
    <2>2. PICK cursor \in CursorRows : ClearAndRestore(cursor)
      BY DEF Next, TerminalStep, EnterRawMode, AcquireFails, ReserveRegion,
         StartWatch, CheckInterrupted, TakeResponse, NoResponse, BeginAttempt,
         NotDue, NoEvent, ReadQuit, ReadOldSize, ReadResize, ResizeFails,
         ReadEvent, RestoreOnly, WorkerStep, Receive, Probe, Hang, Send,
         LoseChannels, Environment, Terminated, vars, terminal
    <2>3. CASE region' = region /\ SameSize(region, window)
      BY <2>1, <2>3 DEF SameSize, Sizes
    <2>4. CASE region' = Resize(region, window, cursor)
      BY <2>1, <2>4, ResizeFits, StatusWatchAssumption
    <2>5. QED
      BY <2>2, <2>3, <2>4 DEF ClearAndRestore, ClearRegion
  <1>2. QED
    BY <1>1, WatchTypeCorrect, PTL DEF Spec, ClearsOwnRows
==============================================================================
