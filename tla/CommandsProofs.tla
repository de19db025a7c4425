--------------------------- MODULE CommandsProofs ---------------------------
(***************************************************************************)
(* Theorems about Commands, for any number of commands, every set of files *)
(* and Git configurations, all options, and any number of daemons.         *)
(***************************************************************************)
EXTENDS Commands, TLAPS

(***************************************************************************)
(* Types.                                                                  *)
(***************************************************************************)

Kinds == {"on", "off", "lock", "status"}
Phases == {"idle", "ensure", "ping", "activate", "request", "done"}
Results == {"yes", "no", "settings", "unknown"}

Options == OnOptions \cup StatusOptions \cup {None}

OnAsks ==
    [key : Keys \cup {None}, source : {"explicit", "git", "default"},
     store : BOOLEAN]

Asks == OnAsks \cup BOOLEAN \cup {None}

Cmd == [kind   : Kinds \cup {None},
        wish   : Options,
        ask    : Asks,
        step   : Phases,
        result : Results \cup {None}]

Replies == [ok : BOOLEAN, lockable : BOOLEAN, locking : BOOLEAN,
            locked : BOOLEAN]

HoldSet == [on   : BOOLEAN, by : Cmds \cup {None},
            wish : Options,
            ask  : Asks]

Conn == [state : {"none", "open", "whole", "cut", "handled", "answered"},
         what  : Kinds \cup {"ping", None},
         life  : Nat,
         reply : Replies \cup {None},
         hold  : HoldSet \cup {None}]

Daemons == [phase : {"down", "serving", "stopping"}, life : Nat,
            legacy : BOOLEAN]

TypeInv ==
    /\ setup \in Setups
    /\ cmd \in [Cmds -> Cmd]
    /\ conn \in [Cmds -> Conn]
    /\ daemon \in Daemons
    /\ hold \in HoldSet
    /\ locking \in Cmds \cup {None}
    /\ unheld \in SUBSET Cmds

(***************************************************************************)
(* The inductive invariant.                                                *)
(***************************************************************************)

(* A command runs through its steps once, and has a result at the end.     *)
StepsInv(c) ==
    /\ cmd[c].step = "idle" => cmd[c].kind = None
    /\ cmd[c].step # "idle" => cmd[c].kind # None
    /\ cmd[c].result # None <=> cmd[c].step = "done"
    /\ cmd[c].step \in {"ensure", "activate"} => cmd[c].kind = "on"
    /\ cmd[c].step = "ping" => cmd[c].kind \in {"on", "lock"}

(* A connection is of the request the command is at; what is left behind   *)
(* by one that has ended is a request that was whole, and if that is an    *)
(* On, the command does not claim to know what became of it.               *)
ConnInv(c) ==
    /\ cmd[c].step \in {"idle", "ensure", "activate"} =>
         conn[c].state = "none"
    /\ cmd[c].step = "done" => conn[c].state \in {"none", "whole", "handled"}
    /\ conn[c].state = "none" => conn[c].what = None
    /\ conn[c].state # "none" /\ Requesting(c) =>
         conn[c].what = IF cmd[c].step = "ping" THEN "ping" ELSE cmd[c].kind
    /\ conn[c].state = "answered" => conn[c].reply \in Replies
    /\ conn[c].state = "handled" => conn[c].what = "lock"
    /\ conn[c].what = "on" =>
         /\ cmd[c].kind = "on"
         /\ cmd[c].step = "done" => cmd[c].result = "unknown"
         /\ conn[c].hold \in HoldSet
         /\ conn[c].hold.by = c
         /\ AsWished(setup, conn[c].hold.wish, conn[c].hold.ask)

(* An `on` that is under way asks for what was wished.                     *)
AskInv(c) ==
    cmd[c].kind = "on" /\ cmd[c].step # "done" =>
      AsWished(setup, cmd[c].wish, cmd[c].ask)

(* What is held was applied for an `on` that knows it, or is about to read *)
(* that it was, or does not know.                                          *)
HoldInv(c) ==
    hold.by = c =>
      /\ cmd[c].kind = "on"
      /\ \/ /\ cmd[c].step = "request"
            /\ conn[c].state = "answered"
            /\ conn[c].reply.ok
         \/ cmd[c].result \in {"yes", "unknown"}

(* The daemon has ended the hold for this command.                         *)
Ended(c) ==
    \/ conn[c].state = "handled"
    \/ /\ conn[c].state = "answered"
       /\ conn[c].what = "off"
       /\ conn[c].reply.ok
    \/ /\ conn[c].state = "answered"
       /\ conn[c].what = "lock"
       /\ conn[c].reply.locked
    \/ cmd[c].kind \in {"off", "lock"} /\ cmd[c].result = "yes"

UnheldInv(c) == Ended(c) => c \in unheld

(* StatusTolerates of one command.                                         *)
ToleratesInv(c) ==
    ( /\ cmd[c].kind = "status" /\ cmd[c].result = "settings"
      /\ ~ExplicitWatch(cmd[c].wish) ) =>
      setup.file.text = "toml" /\ setup.file.status = Bad

DaemonInv ==
    /\ ~Listening => ~hold.on
    /\ hold.on => AsWished(setup, hold.wish, hold.ask)

IInv ==
    /\ TypeInv
    /\ DaemonInv
    /\ \A c \in Cmds :
         /\ StepsInv(c) /\ ConnInv(c) /\ AskInv(c)
         /\ HoldInv(c) /\ UnheldInv(c) /\ ToleratesInv(c)

(***************************************************************************)
(* What is asked for (Settings).                                           *)
(***************************************************************************)

(* A file that load_from accepts, and what it makes of it.                 *)
LEMMA Loaded ==
    ASSUME NEW f \in Files, LoadFrom(f) # Fails
    PROVE  /\ f.text \in {"missing", "toml"}
           /\ LoadFrom(f).key = f.key
           /\ LoadFrom(f).git_key <=> f.git_key = TRUE
           /\ LoadFrom(f).store <=> f.store = TRUE
           /\ LoadFrom(f).git_key \in BOOLEAN
           /\ LoadFrom(f).store \in BOOLEAN
           /\ LoadFrom(f).on_lock \in BOOLEAN
  <1>1. f \in AnyFile
    BY DEF Files
  <1>2. ~Invalid(f)
    <2>1. Invalid(f) => f.text # "missing"
      BY DEF Invalid
    <2>2. QED
      BY <2>1 DEF LoadFrom
  <1>3. f.text \in {"missing", "toml"}
    BY <1>1, <1>2 DEF Invalid, AnyFile
  <1>4. CASE f.text = "missing"
    <2>1. LoadFrom(f) = [key |-> None, git_key |-> FALSE, huge |-> FALSE,
                         store |-> FALSE, on_lock |-> FALSE]
      BY <1>2, <1>4 DEF LoadFrom
    <2>2. f.key = None /\ f.git_key = None /\ f.store = None
      BY <1>4 DEF Files
    <2>3. /\ f.git_key # TRUE /\ f.store # TRUE
      BY <2>2, SettingsAssumption
    <2>4. /\ LoadFrom(f).key = None /\ LoadFrom(f).git_key = FALSE
          /\ LoadFrom(f).store = FALSE /\ LoadFrom(f).on_lock = FALSE
      BY <2>1
    <2>5. QED
      BY <1>3, <2>2, <2>3, <2>4
  <1>5. CASE f.text = "toml"
    <2>1. LoadFrom(f) =
            [key |-> f.key, git_key |-> Or(f.git_key, FALSE),
             huge |-> f.interval = "huge",
             store |-> Or(f.store, FALSE), on_lock |-> Or(f.on_lock, FALSE)]
      BY <1>2, <1>5 DEF LoadFrom
    <2>2. /\ f.git_key \in {TRUE, FALSE, None}
          /\ f.store \in {TRUE, FALSE, None}
          /\ f.on_lock \in {TRUE, FALSE, None}
      BY <1>1 DEF AnyFile
    <2>3. \A x \in {TRUE, FALSE, None} :
            Or(x, FALSE) \in BOOLEAN /\ (Or(x, FALSE) <=> x = TRUE)
      BY SettingsAssumption DEF Or
    <2>4. /\ LoadFrom(f).key = f.key
          /\ LoadFrom(f).git_key = Or(f.git_key, FALSE)
          /\ LoadFrom(f).store = Or(f.store, FALSE)
          /\ LoadFrom(f).on_lock = Or(f.on_lock, FALSE)
      BY <2>1
    <2>5. QED
      BY <1>3, <2>2, <2>3, <2>4
  <1>6. QED
    BY <1>3, <1>4, <1>5

(* Chosen gives a key or fails.                                            *)
LEMMA ChosenKey ==
    ASSUME NEW key, NEW source, Chosen(key, source) # Fails
    PROVE  /\ key # Fails
           /\ Chosen(key, source).key = key
           /\ Chosen(key, source).source = source
  BY DEF Chosen

(* signing_key takes only an OpenPGP key.                                  *)
LEMMA GitKeyIs ==
    ASSUME NEW git \in Gits, GitKey(git) # Fails
    PROVE  /\ git.format \notin {"ssh", Bad}
           /\ GitKey(git) = git.key
           /\ git.key \in Keys
  BY SettingsAssumption DEF GitKey, Gits

(* The key that is selected is the first choice that is given.             *)
LEMMA SelectedIsFirst ==
    ASSUME NEW s \in Setups, NEW o \in OnOptions, NEW config,
           config = LoadFrom(s.file), config # Fails,
           SelectKey(o, config, s.git) # Fails
    PROVE  LET choices == Choices(o, s.file, s.git)
               chosen  == SelectKey(o, config, s.git)
           IN  /\ \E n \in 1 .. 5 :
                    /\ choices[n].given
                    /\ \A m \in 1 .. (n - 1) : ~choices[m].given
                    /\ chosen.key = choices[n].key
                    /\ chosen.source = choices[n].source
               /\ chosen.source = "git" => s.git.format \notin {"ssh", Bad}
               /\ chosen.key \in Keys \cup {None}
               /\ chosen.source \in {"explicit", "git", "default"}
  <1> DEFINE choices == Choices(o, s.file, s.git)
             chosen  == SelectKey(o, config, s.git)
  <1>1. s.file \in Files /\ s.git \in Gits
    BY CommandsAssumption
  <1>2. /\ config.key = s.file.key
        /\ config.git_key \in BOOLEAN
        /\ config.git_key <=> s.file.git_key = TRUE
    BY <1>1, Loaded
  <1>3. /\ o.key \in Keys \cup {None} /\ o.git_key \in BOOLEAN
        /\ s.file.key \in Keys \cup {None}
    BY <1>1 DEF OnOptions, Files, AnyFile
  <1>4. /\ choices[1].given <=> o.key # None
        /\ choices[2].given <=> o.git_key
        /\ choices[3].given <=> s.file.key # None
        /\ choices[4].given <=> s.file.git_key = TRUE
        /\ choices[5].given
    BY DEF Choices
  <1>5. /\ choices[1].key = o.key /\ choices[1].source = "explicit"
        /\ choices[2].key = s.git.key /\ choices[2].source = "git"
        /\ choices[3].key = s.file.key /\ choices[3].source = "explicit"
        /\ choices[4].key = s.git.key /\ choices[4].source = "git"
        /\ choices[5].key = None /\ choices[5].source = "default"
    BY DEF Choices
  <1> HIDE DEF choices
  <1> SUFFICES /\ \E n \in 1 .. 5 :
                    /\ choices[n].given
                    /\ \A m \in 1 .. (n - 1) : ~choices[m].given
                    /\ chosen.key = choices[n].key
                    /\ chosen.source = choices[n].source
               /\ chosen.source = "git" => s.git.format \notin {"ssh", Bad}
               /\ chosen.key \in Keys \cup {None}
               /\ chosen.source \in {"explicit", "git", "default"}
    BY DEF choices
  <1>6. CASE o.key # None
    <2>1. chosen = Chosen(o.key, "explicit")
      BY <1>6 DEF SelectKey
    <2>2. chosen.key = o.key /\ chosen.source = "explicit"
      BY <2>1, ChosenKey
    <2>3. \A m \in 1 .. (1 - 1) : ~choices[m].given
      OBVIOUS
    <2>4. QED
      BY <1>3, <1>4, <1>5, <1>6, <2>2, <2>3
  <1>7. CASE o.key = None /\ o.git_key
    <2>1. chosen = Chosen(GitKey(s.git), "git")
      BY <1>7 DEF SelectKey
    <2>2. /\ chosen.key = GitKey(s.git) /\ chosen.source = "git"
          /\ GitKey(s.git) # Fails
      BY <2>1, ChosenKey
    <2>3. \A m \in 1 .. (2 - 1) : ~choices[m].given
      <3>1. 1 .. (2 - 1) = {1}
        OBVIOUS
      <3>2. QED
        BY <3>1, <1>4, <1>7
    <2>4. QED
      BY <1>1, <1>4, <1>5, <1>7, <2>2, <2>3, GitKeyIs
  <1>8. CASE o.key = None /\ ~o.git_key /\ s.file.key # None
    <2>1. chosen = Chosen(config.key, "explicit")
      BY <1>2, <1>8 DEF SelectKey
    <2>2. chosen.key = s.file.key /\ chosen.source = "explicit"
      BY <1>2, <2>1, ChosenKey
    <2>3. \A m \in 1 .. (3 - 1) : ~choices[m].given
      <3>1. 1 .. (3 - 1) = {1, 2}
        OBVIOUS
      <3>2. QED
        BY <3>1, <1>4, <1>8
    <2>4. QED
      BY <1>3, <1>4, <1>5, <1>8, <2>2, <2>3
  <1>9. CASE /\ o.key = None /\ ~o.git_key /\ s.file.key = None
             /\ s.file.git_key = TRUE
    <2>1. chosen = Chosen(GitKey(s.git), "git")
      BY <1>2, <1>9 DEF SelectKey
    <2>2. /\ chosen.key = GitKey(s.git) /\ chosen.source = "git"
          /\ GitKey(s.git) # Fails
      BY <2>1, ChosenKey
    <2>3. \A m \in 1 .. (4 - 1) : ~choices[m].given
      <3>1. 1 .. (4 - 1) = {1, 2, 3}
        OBVIOUS
      <3>2. QED
        BY <3>1, <1>4, <1>9
    <2>4. QED
      BY <1>1, <1>4, <1>5, <1>9, <2>2, <2>3, GitKeyIs
  <1>10. CASE /\ o.key = None /\ ~o.git_key /\ s.file.key = None
              /\ s.file.git_key # TRUE
    <2>1. chosen = Chosen(None, "default")
      BY <1>2, <1>10 DEF SelectKey
    <2>2. chosen.key = None /\ chosen.source = "default"
      BY <2>1, ChosenKey
    <2>3. \A m \in 1 .. (5 - 1) : ~choices[m].given
      <3>1. 1 .. (5 - 1) = {1, 2, 3, 4}
        OBVIOUS
      <3>2. QED
        BY <3>1, <1>4, <1>10
    <2>4. QED
      BY <1>4, <1>5, <2>2, <2>3
  <1>11. QED
    BY <1>6, <1>7, <1>8, <1>9, <1>10

(* What an `on` asks for when its settings are accepted is as wished.      *)
LEMMA AskedIsWished ==
    ASSUME NEW s \in Setups, NEW o \in OnOptions, NEW config,
           config = LoadFrom(s.file), config # Fails,
           NEW key, key = SelectKey(o, config, s.git), key # Fails,
           NEW ask,
           ask = [key |-> key.key, source |-> key.source,
                  store |-> StoreEnabled(o, config)]
    PROVE  ask \in OnAsks /\ AsWished(s, o, ask)
  <1>1. /\ s.file.text \in {"missing", "toml"}
        /\ config.store \in BOOLEAN
        /\ config.store <=> s.file.store = TRUE
    BY CommandsAssumption, Loaded
  <1>2. o.store \in BOOLEAN /\ o.no_store \in BOOLEAN
    BY DEF OnOptions
  <1>3. /\ ask.key = key.key /\ ask.source = key.source
        /\ ask.store = StoreEnabled(o, config)
    OBVIOUS
  <1>4. StoreEnabled(o, config) \in BOOLEAN
    BY DEF StoreEnabled
  <1>5. StoreEnabled(o, config) =>
          ~o.no_store /\ (o.store \/ s.file.store = TRUE)
    BY <1>1, <1>2 DEF StoreEnabled, OnOptions
  <1>6. /\ key.key \in Keys \cup {None}
        /\ key.source \in {"explicit", "git", "default"}
    BY SelectedIsFirst
  <1>7. ask \in OnAsks
    BY <1>4, <1>6 DEF OnAsks
  <1>8. AsWished(s, o, ask)
    BY <1>1, <1>3, <1>5, SelectedIsFirst DEF AsWished
  <1>9. QED
    BY <1>7, <1>8

(* load_status fails without a wish to watch only for its own table.       *)
LEMMA OnlyItsTable ==
    ASSUME NEW f \in Files, LoadStatus(f, FALSE) = Fails
    PROVE  f.text = "toml" /\ f.status = Bad
  <1>1. f.status \in StatusTables \cup {None, Bad}
    BY DEF Files, AnyFile
  <1>2. [watch |-> FALSE] \in StatusTables
    BY DEF StatusTables
  <1>3. QED
    BY <1>1, <1>2, SettingsAssumption DEF LoadStatus

(***************************************************************************)
(* What a step leaves alone.                                               *)
(***************************************************************************)

(* Only the command c and its connection move.                             *)
Sole(c) ==
    /\ cmd' \in [Cmds -> Cmd]
    /\ conn' \in [Cmds -> Conn]
    /\ \A d \in Cmds \ {c} : cmd'[d] = cmd[d] /\ conn'[d] = conn[d]

CmdIs(c, kind, wish, ask, step, result) ==
    cmd' = [cmd EXCEPT ![c] = [kind |-> kind, wish |-> wish, ask |-> ask,
                               step |-> step, result |-> result]]

ConnIs(c, state, what, life, reply, h) ==
    conn' = [conn EXCEPT ![c] = [state |-> state, what |-> what,
                                 life |-> life, reply |-> reply, hold |-> h]]

(* Goto and End in full.                                                   *)
LEMMA GotoIs ==
    ASSUME TypeInv, NEW c \in Cmds, NEW step, Goto(c, step)
    PROVE  CmdIs(c, cmd[c].kind, cmd[c].wish, cmd[c].ask, step,
                 cmd[c].result)
  <1>1. cmd[c] \in Cmd /\ cmd \in [Cmds -> Cmd]
    BY DEF TypeInv
  <1>2. [cmd[c] EXCEPT !.step = step] =
          [kind |-> cmd[c].kind, wish |-> cmd[c].wish, ask |-> cmd[c].ask,
           step |-> step, result |-> cmd[c].result]
    BY <1>1 DEF Cmd
  <1>3. cmd' = [cmd EXCEPT ![c] = [cmd[c] EXCEPT !.step = step]]
    BY <1>1 DEF Goto
  <1>4. QED
    BY <1>2, <1>3 DEF CmdIs

LEMMA EndIs ==
    ASSUME NEW c \in Cmds, NEW result, End(c, result)
    PROVE  CmdIs(c, cmd[c].kind, None, None, "done", result)
  <1>1. Done(cmd[c].kind, result) =
          [kind |-> cmd[c].kind, wish |-> None, ask |-> None,
           step |-> "done", result |-> result]
    BY DEF Done, Idle
  <1>2. QED
    BY <1>1 DEF End, CmdIs

(* One record changes, and the others do not.                              *)
LEMMA CmdMoves ==
    ASSUME TypeInv, NEW c \in Cmds,
           NEW kind \in Kinds \cup {None}, NEW wish \in Options,
           NEW ask \in Asks, NEW step \in Phases,
           NEW result \in Results \cup {None},
           CmdIs(c, kind, wish, ask, step, result)
    PROVE  /\ cmd' \in [Cmds -> Cmd]
           /\ \A d \in Cmds \ {c} : cmd'[d] = cmd[d]
           /\ cmd'[c].kind = kind /\ cmd'[c].wish = wish
           /\ cmd'[c].ask = ask /\ cmd'[c].step = step
           /\ cmd'[c].result = result
  BY DEF TypeInv, Cmd, CmdIs

LEMMA ConnMoves ==
    ASSUME TypeInv, NEW c \in Cmds,
           NEW state \in {"none", "open", "whole", "cut", "handled",
                          "answered"},
           NEW what \in Kinds \cup {"ping", None}, NEW life \in Nat,
           NEW reply \in Replies \cup {None},
           NEW h \in HoldSet \cup {None},
           ConnIs(c, state, what, life, reply, h)
    PROVE  /\ conn' \in [Cmds -> Conn]
           /\ \A d \in Cmds \ {c} : conn'[d] = conn[d]
           /\ conn'[c].state = state /\ conn'[c].what = what
           /\ conn'[c].life = life /\ conn'[c].reply = reply
           /\ conn'[c].hold = h
  BY DEF TypeInv, Conn, ConnIs

(* A command that runs stays credited with a moment without hold.          *)
LEMMA UnheldKept ==
    ASSUME TypeInv, Observe, NEW c \in Cmds, c \in unheld,
           cmd[c].step # "idle"
    PROVE  c \in unheld'
  BY DEF TypeInv, Observe

LEMMA UnheldNow ==
    ASSUME Observe, ~hold'.on
    PROVE  unheld' = Cmds
  BY DEF Observe

LEMMA UnheldType ==
    ASSUME TypeInv, Observe
    PROVE  unheld' \in SUBSET Cmds
  BY DEF TypeInv, Observe

CommandInv(c) ==
    /\ StepsInv(c) /\ ConnInv(c) /\ AskInv(c)
    /\ HoldInv(c) /\ UnheldInv(c) /\ ToleratesInv(c)

(* What has not moved keeps its invariant, unless the hold became its.     *)
LEMMA OtherKept ==
    ASSUME IInv, NEW d \in Cmds, cmd'[d] = cmd[d], conn'[d] = conn[d],
           setup' = setup, Observe, hold'.by = d => hold.by = d
    PROVE  CommandInv(d)'
  <1>1. TypeInv /\ CommandInv(d)
    BY DEF IInv, CommandInv
  <1>2. StepsInv(d)'
    BY <1>1 DEF CommandInv, StepsInv
  <1>3. ConnInv(d)'
    BY <1>1 DEF CommandInv, ConnInv, Requesting
  <1>4. AskInv(d)' /\ ToleratesInv(d)'
    BY <1>1 DEF CommandInv, AskInv, ToleratesInv
  <1>5. HoldInv(d)'
    BY <1>1 DEF CommandInv, HoldInv
  <1>6. UnheldInv(d)'
    <2>1. Ended(d)' <=> Ended(d)
      BY DEF Ended
    <2>2. Ended(d) => cmd[d].step # "idle"
      BY <1>1, CommandsAssumption
         DEF CommandInv, ConnInv, StepsInv, Ended
    <2>3. QED
      BY <1>1, <2>1, <2>2, UnheldKept DEF CommandInv, UnheldInv
  <1>7. QED
    BY <1>2, <1>3, <1>4, <1>5, <1>6 DEF CommandInv

(* The same for all but one.                                               *)
LEMMA SoleStep ==
    ASSUME IInv, NEW c \in Cmds, Sole(c), setup' = setup, Observe,
           \A d \in Cmds \ {c} : hold'.by = d => hold.by = d,
           hold' \in HoldSet, daemon' \in Daemons,
           locking' \in Cmds \cup {None},
           CommandInv(c)', DaemonInv'
    PROVE  IInv'
  <1>1. \A d \in Cmds : CommandInv(d)'
    BY OtherKept DEF Sole
  <1>2. TypeInv'
    BY UnheldType DEF IInv, TypeInv, Sole
  <1>3. QED
    BY <1>1, <1>2 DEF IInv, CommandInv

(* Steps of a command or handler without the daemon and the hold.          *)
LEMMA QuietStep ==
    ASSUME IInv, NEW c \in Cmds, Sole(c), Quiet, Observe,
           StepsInv(c)', ConnInv(c)', AskInv(c)', ToleratesInv(c)',
           HoldInv(c)', UnheldInv(c)'
    PROVE  IInv'
  <1>1. /\ setup' = setup /\ daemon' = daemon /\ hold' = hold
        /\ locking' = locking
    BY DEF Quiet
  <1>2. /\ hold' \in HoldSet /\ daemon' \in Daemons
        /\ locking' \in Cmds \cup {None}
    BY <1>1 DEF IInv, TypeInv
  <1>3. DaemonInv'
    BY <1>1 DEF IInv, DaemonInv, Listening
  <1>4. QED
    BY <1>1, <1>2, <1>3, SoleStep DEF CommandInv

(* A command goes on, or ends, and its connection is left alone.           *)
LEMMA CmdOnly ==
    ASSUME TypeInv, NEW c \in Cmds,
           NEW kind \in Kinds \cup {None}, NEW wish \in Options,
           NEW ask \in Asks, NEW step \in Phases,
           NEW result \in Results \cup {None},
           CmdIs(c, kind, wish, ask, step, result), UNCHANGED conn
    PROVE  Sole(c)
  BY CmdMoves DEF Sole, TypeInv

LEMMA ConnOnly ==
    ASSUME TypeInv, NEW c \in Cmds,
           NEW state \in {"none", "open", "whole", "cut", "handled",
                          "answered"},
           NEW what \in Kinds \cup {"ping", None}, NEW life \in Nat,
           NEW reply \in Replies \cup {None},
           NEW h \in HoldSet \cup {None},
           ConnIs(c, state, what, life, reply, h), UNCHANGED cmd
    PROVE  Sole(c)
  BY ConnMoves DEF Sole, TypeInv

(***************************************************************************)
(* How a command begins.                                                   *)
(***************************************************************************)

(* Whatever a command is, if its settings are accepted it starts at one of *)
(* three steps; if not, it has ended.                                      *)
BeginsAs(c, kind, wish, ask, step, result) ==
    /\ CmdIs(c, kind, wish, ask, step, result)
    /\ step = "done" <=> result # None
    /\ step = "ensure" => kind = "on"
    /\ step = "ping" => kind = "lock"
    /\ kind = "on" => step # "request"
    /\ result = "yes" => kind = "off" /\ ~Listening
    /\ kind = "on" /\ step = "ensure" => AsWished(setup, wish, ask)
    /\ ( /\ kind = "status" /\ result = "settings"
         /\ ~ExplicitWatch(wish) ) =>
         setup.file.text = "toml" /\ setup.file.status = Bad

(* Every way to begin is one of these.                                     *)
LEMMA HowItBegins ==
    ASSUME IInv, NEW c \in Cmds, Begin(c)
    PROVE  \E kind \in Kinds, wish \in Options, ask \in Asks,
              step \in {"ensure", "request", "ping", "done"},
              result \in {"yes", "settings", None} :
             BeginsAs(c, kind, wish, ask, step, result)
  <1> USE DEF IInv, TypeInv
  <1>1. setup \in Setups /\ setup.file \in Files
    BY CommandsAssumption
  <1>2. None \in Options /\ None \in Asks
    BY DEF Options, Asks
  <1> DEFINE Goal == \E kind \in Kinds, wish \in Options, ask \in Asks,
                        step \in {"ensure", "request", "ping", "done"},
                        result \in {"yes", "settings", None} :
                       BeginsAs(c, kind, wish, ask, step, result)
  <1>3. ASSUME NEW o \in Wishes, BeginOn(c, o)
        PROVE  Goal
    <2> DEFINE config == LoadFrom(setup.file)
               key    == SelectKey(o, config, setup.git)
               ask    == [key |-> key.key, source |-> key.source,
                          store |-> StoreEnabled(o, config)]
               wrong  == config = Fails \/ key = Fails \/ TooLong(o, config)
    <2>1. o \in OnOptions /\ o \in Options
      BY CommandsAssumption DEF Options
    <2>2. cmd' = [cmd EXCEPT ![c] = IF wrong
                    THEN Done("on", "settings")
                    ELSE Doing("on", o, ask, "ensure")]
      BY <1>3 DEF BeginOn
    <2>3. CASE wrong
      <3>1. CmdIs(c, "on", None, None, "done", "settings")
        BY <2>2, <2>3 DEF Done, CmdIs
      <3>2. BeginsAs(c, "on", None, None, "done", "settings")
        BY <3>1, CommandsAssumption DEF BeginsAs
      <3>3. QED
        BY <3>2, <1>2 DEF Kinds
    <2>4. CASE ~wrong
      <3>1. CmdIs(c, "on", o, ask, "ensure", None)
        BY <2>2, <2>4 DEF Doing, CmdIs
      <3>2. ask \in OnAsks /\ AsWished(setup, o, ask)
        <4>1. config # Fails /\ key # Fails
          BY <2>4
        <4>2. QED
          BY <1>1, <2>1, <4>1, AskedIsWished
      <3> HIDE DEF ask
      <3>3. BeginsAs(c, "on", o, ask, "ensure", None)
        BY <3>1, <3>2, CommandsAssumption DEF BeginsAs
      <3>4. ask \in Asks
        BY <3>2 DEF Asks
      <3>5. QED
        BY <3>3, <3>4, <2>1 DEF Kinds
    <2>5. QED
      BY <2>3, <2>4
  <1>4. ASSUME BeginOff(c)
        PROVE  Goal
    <2>1. CASE Listening
      <3>1. CmdIs(c, "off", None, None, "request", None)
        BY <1>4, <2>1 DEF BeginOff, Enter, Doing, CmdIs
      <3>2. BeginsAs(c, "off", None, None, "request", None)
        BY <3>1, CommandsAssumption DEF BeginsAs
      <3>3. QED
        BY <3>2, <1>2 DEF Kinds
    <2>2. CASE ~Listening
      <3>1. CmdIs(c, "off", None, None, "done", "yes")
        BY <1>4, <2>2 DEF BeginOff, Done, CmdIs
      <3>2. BeginsAs(c, "off", None, None, "done", "yes")
        BY <3>1, <2>2, CommandsAssumption DEF BeginsAs
      <3>3. QED
        BY <3>2, <1>2 DEF Kinds
    <2>3. QED
      BY <2>1, <2>2
  <1>5. ASSUME NEW o \in LockOptions, BeginLock(c, o)
        PROVE  Goal
    <2> DEFINE config == LoadFrom(setup.file)
    <2>1. CASE config = Fails
      <3>1. CmdIs(c, "lock", None, None, "done", "settings")
        BY <1>5, <2>1 DEF BeginLock, Done, CmdIs
      <3>2. BeginsAs(c, "lock", None, None, "done", "settings")
        BY <3>1, CommandsAssumption DEF BeginsAs
      <3>3. QED
        BY <3>2, <1>2 DEF Kinds
    <2>2. CASE config # Fails
      <3>1. CmdIs(c, "lock", None, ClearCredential(o, config), "ping", None)
        BY <1>5, <2>2 DEF BeginLock, Doing, CmdIs
      <3>2. ClearCredential(o, config) \in Asks
        BY DEF ClearCredential, Asks
      <3> DEFINE clear == ClearCredential(o, config)
      <3> HIDE DEF clear
      <3>3. BeginsAs(c, "lock", None, clear, "ping", None)
        BY <3>1, CommandsAssumption DEF BeginsAs, clear
      <3>4. clear \in Asks
        BY <3>2 DEF clear
      <3>5. QED
        BY <3>3, <3>4, <1>2 DEF Kinds
    <2>3. QED
      BY <2>1, <2>2
  <1>6. ASSUME NEW o \in StatusOptions, BeginStatus(c, o)
        PROVE  Goal
    <2> DEFINE status == LoadStatus(setup.file, ExplicitWatch(o))
    <2>1. CASE ~o.no_watch /\ status = Fails
      <3>1. cmd' = [cmd EXCEPT ![c] =
              [Done("status", "settings") EXCEPT !.wish = o]]
        BY <1>6, <2>1 DEF BeginStatus
      <3>2. [Done("status", "settings") EXCEPT !.wish = o] =
              [kind |-> "status", wish |-> o, ask |-> None,
               step |-> "done", result |-> "settings"]
        BY DEF Done
      <3>3. CmdIs(c, "status", o, None, "done", "settings")
        BY <3>1, <3>2 DEF CmdIs
      <3>4. ~ExplicitWatch(o) =>
              setup.file.text = "toml" /\ setup.file.status = Bad
        <4>1. SUFFICES ASSUME ~ExplicitWatch(o)
                       PROVE  setup.file.text = "toml"
                                /\ setup.file.status = Bad
          OBVIOUS
        <4>2. ExplicitWatch(o) = FALSE
          BY <4>1 DEF ExplicitWatch
        <4>3. LoadStatus(setup.file, FALSE) = Fails
          BY <2>1, <4>2
        <4>4. QED
          BY <4>3, <1>1, OnlyItsTable
      <3>5. o \in Options
        BY DEF Options
      <3>6. BeginsAs(c, "status", o, None, "done", "settings")
        BY <3>3, <3>4, CommandsAssumption DEF BeginsAs
      <3>7. QED
        BY <3>5, <3>6, <1>2 DEF Kinds
    <2>2. CASE ~(~o.no_watch /\ status = Fails)
      <3>1. CmdIs(c, "status", None, None, "request", None)
        BY <1>6, <2>2 DEF BeginStatus, Enter, Doing, CmdIs
      <3>2. BeginsAs(c, "status", None, None, "request", None)
        BY <3>1, CommandsAssumption DEF BeginsAs
      <3>3. QED
        BY <3>2, <1>2 DEF Kinds
    <2>3. QED
      BY <2>1, <2>2
  <1>7. Goal
    <2> HIDE DEF Goal
    <2>1. QED
      BY <1>3, <1>4, <1>5, <1>6 DEF Begin
  <1>8. QED
    BY <1>7

LEMMA BeginStep ==
    ASSUME IInv, NEW c \in Cmds, Begin(c)
    PROVE  IInv'
  <1>1. TypeInv /\ CommandInv(c)
    BY DEF IInv, CommandInv
  <1>2. cmd[c].step = "idle" /\ Quiet /\ conn' = conn /\ Observe
    BY DEF Begin
  <1>3. PICK kind \in Kinds, wish \in Options, ask \in Asks,
             step \in {"ensure", "request", "ping", "done"},
             result \in {"yes", "settings", None} :
               BeginsAs(c, kind, wish, ask, step, result)
    BY HowItBegins
  <1>4. /\ CmdIs(c, kind, wish, ask, step, result)
        /\ step \in Phases /\ result \in Results \cup {None}
        /\ kind \in Kinds \cup {None}
    BY <1>3 DEF BeginsAs, Phases, Results
  <1>5. Sole(c)
    BY <1>1, <1>2, <1>4, CmdOnly
  <1>6. /\ cmd'[c].kind = kind /\ cmd'[c].wish = wish
        /\ cmd'[c].ask = ask /\ cmd'[c].step = step
        /\ cmd'[c].result = result
    BY <1>1, <1>4, CmdMoves
  <1>7. setup' = setup /\ hold' = hold
    BY <1>2 DEF Quiet
  <1>8. conn[c].state = "none" /\ conn[c].what = None
    BY <1>1, <1>2 DEF CommandInv, ConnInv
  <1>9. StepsInv(c)'
    BY <1>3, <1>6, CommandsAssumption DEF BeginsAs, StepsInv, Kinds
  <1>10. ConnInv(c)'
    BY <1>2, <1>3, <1>6, <1>8, CommandsAssumption
       DEF BeginsAs, ConnInv, Requesting
  <1>11. AskInv(c)' /\ ToleratesInv(c)'
    BY <1>3, <1>6, <1>7 DEF BeginsAs, AskInv, ToleratesInv
  <1>12. HoldInv(c)'
    BY <1>1, <1>2, <1>7, CommandsAssumption
       DEF CommandInv, StepsInv, HoldInv
  <1>13. UnheldInv(c)'
    <2>1. SUFFICES ASSUME Ended(c)'
                   PROVE  c \in unheld'
      BY DEF UnheldInv
    <2>2. result = "yes"
      BY <2>1, <1>2, <1>6, <1>8 DEF Ended
    <2>3. ~hold'.on
      BY <1>3, <1>7, <2>2 DEF BeginsAs, IInv, DaemonInv
    <2>4. QED
      BY <1>2, <2>3, UnheldNow
  <1>14. QED
    BY <1>2, <1>5, <1>9, <1>10, <1>11, <1>12, <1>13, QuietStep

(***************************************************************************)
(* A command's own steps.                                                  *)
(***************************************************************************)

(* A command that goes on to another step, its connection closed or none.  *)
LEMMA GoesOn ==
    ASSUME IInv, NEW c \in Cmds, NEW step \in Phases \ {"idle", "done"},
           cmd[c].step \notin {"idle", "done"}, Goto(c, step),
           conn'[c].state = "none", conn'[c].what = None,
           conn' \in [Cmds -> Conn],
           \A d \in Cmds \ {c} : conn'[d] = conn[d],
           cmd[c].kind = "on" \/ (cmd[c].kind = "lock" /\ step = "request"),
           hold.by # c, setup' = setup, Observe
    PROVE  /\ Sole(c) /\ StepsInv(c)' /\ ConnInv(c)' /\ AskInv(c)'
           /\ ToleratesInv(c)' /\ UnheldInv(c)'
           /\ hold'.by = hold.by => HoldInv(c)'
           /\ cmd'[c].kind = cmd[c].kind
  <1>1. TypeInv /\ CommandInv(c)
    BY DEF IInv, CommandInv
  <1>2. cmd[c] \in Cmd
    BY <1>1 DEF TypeInv
  <1>3. /\ cmd' \in [Cmds -> Cmd]
        /\ \A d \in Cmds \ {c} : cmd'[d] = cmd[d]
        /\ cmd'[c].kind = cmd[c].kind /\ cmd'[c].wish = cmd[c].wish
        /\ cmd'[c].ask = cmd[c].ask /\ cmd'[c].step = step
        /\ cmd'[c].result = cmd[c].result
    <2>1. /\ cmd[c].kind \in Kinds \cup {None} /\ cmd[c].wish \in Options
          /\ cmd[c].ask \in Asks /\ cmd[c].result \in Results \cup {None}
      BY <1>2 DEF Cmd
    <2>2. CmdIs(c, cmd[c].kind, cmd[c].wish, cmd[c].ask, step,
                cmd[c].result)
      BY <1>1, GotoIs
    <2>3. step \in Phases
      OBVIOUS
    <2> DEFINE kind   == cmd[c].kind
               wish   == cmd[c].wish
               ask    == cmd[c].ask
               result == cmd[c].result
    <2>4. /\ kind \in Kinds \cup {None} /\ wish \in Options
          /\ ask \in Asks /\ result \in Results \cup {None}
          /\ CmdIs(c, kind, wish, ask, step, result)
      BY <2>1, <2>2
    <2> HIDE DEF kind, wish, ask, result
    <2>5. /\ cmd' \in [Cmds -> Cmd]
          /\ \A d \in Cmds \ {c} : cmd'[d] = cmd[d]
      BY <1>1, <2>3, <2>4 DEF CmdIs, TypeInv, Cmd
    <2>6. /\ cmd'[c].kind = kind /\ cmd'[c].wish = wish
          /\ cmd'[c].ask = ask /\ cmd'[c].step = step
          /\ cmd'[c].result = result
      BY <1>1, <2>4 DEF CmdIs, TypeInv
    <2>7. QED
      BY <2>5, <2>6 DEF kind, wish, ask, result
  <1>4. Sole(c)
    BY <1>3 DEF Sole
  <1>5. StepsInv(c)'
    BY <1>1, <1>3, CommandsAssumption DEF CommandInv, StepsInv, Phases
  <1>6. ConnInv(c)'
    BY <1>3, CommandsAssumption DEF ConnInv
  <1>7. AskInv(c)' /\ ToleratesInv(c)'
    BY <1>1, <1>3 DEF CommandInv, AskInv, ToleratesInv
  <1>8. UnheldInv(c)'
    <2>1. cmd[c].result = None
      BY <1>1 DEF CommandInv, StepsInv
    <2>2. ~Ended(c)'
      BY <1>3, <2>1, CommandsAssumption DEF Ended
    <2>3. QED
      BY <2>2 DEF UnheldInv
  <1>9. hold'.by = hold.by => HoldInv(c)'
    BY DEF HoldInv
  <1>10. QED
    BY <1>3, <1>4, <1>5, <1>6, <1>7, <1>8, <1>9

(* A command that ends.  What it leaves behind is a request that was whole *)
(* or one that was cut.                                                    *)
LEMMA Ends ==
    ASSUME IInv, NEW c \in Cmds, NEW result \in {"yes", "no", "unknown"},
           cmd[c].step \notin {"idle", "done"}, End(c, result),
           \/ conn'[c].state = "none" /\ conn'[c].what = None
           \/ /\ conn'[c] = conn[c] /\ conn[c].state \in {"whole", "handled"}
              /\ conn[c].what = "on" => result = "unknown",
           conn' \in [Cmds -> Conn],
           \A d \in Cmds \ {c} : conn'[d] = conn[d],
           hold.by = c => result # "no",
           cmd[c].kind \in {"off", "lock"} /\ result = "yes" => c \in unheld,
           setup' = setup, Observe
    PROVE  /\ Sole(c) /\ StepsInv(c)' /\ ConnInv(c)' /\ AskInv(c)'
           /\ ToleratesInv(c)' /\ UnheldInv(c)'
           /\ hold'.by = hold.by => HoldInv(c)'
  <1>1. TypeInv /\ CommandInv(c)
    BY DEF IInv, CommandInv
  <1>2. cmd[c] \in Cmd
    BY <1>1 DEF TypeInv
  <1>3. /\ cmd' \in [Cmds -> Cmd]
        /\ \A d \in Cmds \ {c} : cmd'[d] = cmd[d]
        /\ cmd'[c].kind = cmd[c].kind /\ cmd'[c].step = "done"
        /\ cmd'[c].result = result
    <2>1. cmd[c].kind \in Kinds \cup {None}
      BY <1>2 DEF Cmd
    <2>2. CmdIs(c, cmd[c].kind, None, None, "done", result)
      BY EndIs
    <2>3. None \in Options /\ None \in Asks
      BY DEF Options, Asks
    <2>4. "done" \in Phases /\ result \in Results \cup {None}
      BY DEF Phases, Results
    <2>5. QED
      BY <1>1, <2>1, <2>2, <2>3, <2>4, CmdMoves
  <1>4. Sole(c)
    BY <1>3 DEF Sole
  <1>5. StepsInv(c)'
    BY <1>1, <1>3, CommandsAssumption DEF CommandInv, StepsInv
  <1>6. ConnInv(c)'
    <2>1. conn[c].what = "on" => cmd[c].kind = "on"
      BY <1>1 DEF CommandInv, ConnInv
    <2>2. CASE conn'[c].state = "none" /\ conn'[c].what = None
      BY <1>3, <2>2, CommandsAssumption DEF ConnInv
    <2>3. CASE /\ conn'[c] = conn[c] /\ conn[c].state \in {"whole", "handled"}
               /\ conn[c].what = "on" => result = "unknown"
      BY <1>1, <1>3, <2>3 DEF CommandInv, ConnInv, Requesting
    <2>4. QED
      BY <2>2, <2>3
  <1>7. AskInv(c)' /\ ToleratesInv(c)'
    BY <1>3 DEF AskInv, ToleratesInv
  <1>8. UnheldInv(c)'
    <2>1. SUFFICES ASSUME Ended(c)'
                   PROVE  c \in unheld'
      BY DEF UnheldInv
    <2>2. c \in unheld
      BY <1>1, <1>3, <2>1 DEF Ended, CommandInv, UnheldInv
    <2>3. QED
      BY <1>1, <2>2, UnheldKept
  <1>9. hold'.by = hold.by => HoldInv(c)'
    BY <1>1, <1>3, CommandsAssumption DEF CommandInv, HoldInv
  <1>10. QED
    BY <1>4, <1>5, <1>6, <1>7, <1>8, <1>9

LEMMA ActivateStep ==
    ASSUME IInv, NEW c \in Cmds, Activate(c)
    PROVE  IInv'
  <1>1. TypeInv /\ CommandInv(c)
    BY DEF IInv, CommandInv
  <1>2. /\ cmd[c].step = "activate" /\ Quiet /\ conn' = conn /\ Observe
        /\ setup' = setup /\ hold' = hold
    BY DEF Activate, Quiet
  <1>3. /\ cmd[c].kind = "on" /\ cmd[c].result = None
        /\ conn[c].state = "none" /\ conn[c].what = None
    BY <1>1, <1>2 DEF CommandInv, StepsInv, ConnInv
  <1>4. hold.by # c
    BY <1>1, <1>2, <1>3, CommandsAssumption DEF CommandInv, HoldInv
  <1>5. conn' \in [Cmds -> Conn]
    BY <1>1, <1>2 DEF TypeInv
  <1>6. CASE Goto(c, "request")
    <2>1. "request" \in Phases \ {"idle", "done"}
      BY DEF Phases
    <2>2. QED
      BY <1>2, <1>3, <1>4, <1>5, <1>6, <2>1, GoesOn, QuietStep
  <1>7. CASE End(c, "no")
    BY <1>2, <1>3, <1>4, <1>5, <1>7, Ends, QuietStep
  <1>8. QED
    BY <1>6, <1>7 DEF Activate

(* Starting a daemon leaves the hold alone, which is off.                  *)
LEMMA StartedInv ==
    ASSUME IInv, StartDaemon, setup' = setup
    PROVE  /\ hold' = hold /\ locking' = locking
           /\ hold' \in HoldSet /\ locking' \in Cmds \cup {None}
           /\ daemon' \in Daemons /\ DaemonInv'
  <1>1. /\ hold' = hold /\ locking' = locking /\ ~Listening
        /\ daemon' = [phase |-> "serving", life |-> daemon.life + 1,
                      legacy |-> FALSE]
    BY DEF StartDaemon
  <1>2. daemon' \in Daemons
    BY <1>1 DEF IInv, TypeInv, Daemons
  <1>3. DaemonInv'
    BY <1>1 DEF IInv, DaemonInv
  <1>4. QED
    BY <1>1, <1>2, <1>3 DEF IInv, TypeInv

LEMMA EnsureStep ==
    ASSUME IInv, NEW c \in Cmds, Ensure(c)
    PROVE  IInv'
  <1>1. TypeInv /\ CommandInv(c)
    BY DEF IInv, CommandInv
  <1>2. /\ cmd[c].step = "ensure" /\ conn' = conn /\ Observe
        /\ setup' = setup
    BY DEF Ensure
  <1>3. /\ cmd[c].kind = "on" /\ cmd[c].result = None
        /\ conn[c].state = "none" /\ conn[c].what = None
    BY <1>1, <1>2 DEF CommandInv, StepsInv, ConnInv
  <1>4. hold.by # c
    BY <1>1, <1>2, <1>3, CommandsAssumption DEF CommandInv, HoldInv
  <1>5. conn' \in [Cmds -> Conn]
    BY <1>1, <1>2 DEF TypeInv
  <1>6. /\ hold' = hold
        /\ hold' \in HoldSet /\ locking' \in Cmds \cup {None}
        /\ daemon' \in Daemons /\ DaemonInv'
    <2>1. CASE UNCHANGED <<daemon, hold, locking>>
      BY <1>2, <2>1 DEF IInv, TypeInv, DaemonInv, Listening
    <2>2. CASE StartDaemon
      BY <1>2, <2>2, StartedInv
    <2>3. QED
      BY <2>1, <2>2 DEF Ensure
  <1>7. CASE Goto(c, "ping")
    <2>1. "ping" \in Phases \ {"idle", "done"}
      BY DEF Phases
    <2>2. /\ Sole(c) /\ CommandInv(c)'
      BY <1>2, <1>3, <1>4, <1>5, <1>6, <1>7, <2>1, GoesOn DEF CommandInv
    <2>3. QED
      BY <1>2, <1>6, <2>2, SoleStep
  <1>8. CASE End(c, "no")
    <2>1. /\ Sole(c) /\ CommandInv(c)'
      BY <1>2, <1>3, <1>4, <1>5, <1>6, <1>8, Ends DEF CommandInv
    <2>2. QED
      BY <1>2, <1>6, <2>1, SoleStep
  <1>9. QED
    BY <1>7, <1>8 DEF Ensure

LEMMA NotRunningStep ==
    ASSUME IInv, NEW c \in Cmds, NotRunning(c)
    PROVE  IInv'
  <1>1. TypeInv /\ CommandInv(c)
    BY DEF IInv, CommandInv
  <1>2. /\ Requesting(c) /\ Quiet /\ conn' = conn /\ Observe
        /\ conn[c].state = "none" /\ setup' = setup /\ hold' = hold
    BY DEF NotRunning, Quiet
  <1>3. cmd[c].step \in {"ping", "request"} /\ cmd[c].result = None
    BY <1>1, <1>2 DEF Requesting, CommandInv, StepsInv
  <1>4. conn[c].what = None /\ hold.by # c
    BY <1>1, <1>2, <1>3, CommandsAssumption
       DEF CommandInv, ConnInv, HoldInv
  <1>5. conn' \in [Cmds -> Conn]
    BY <1>1, <1>2 DEF TypeInv
  <1>6. CASE cmd[c].kind = "status"
    <2>1. End(c, "yes")
      BY <1>6 DEF NotRunning
    <2>2. QED
      BY <1>2, <1>3, <1>4, <1>5, <1>6, <2>1, Ends, QuietStep
  <1>7. CASE cmd[c].kind # "status"
    <2>1. End(c, "no")
      BY <1>7 DEF NotRunning
    <2>2. QED
      BY <1>2, <1>3, <1>4, <1>5, <2>1, Ends, QuietStep
  <1>8. QED
    BY <1>6, <1>7

LEMMA UnansweredStep ==
    ASSUME IInv, NEW c \in Cmds, Unanswered(c)
    PROVE  IInv'
  <1>1. TypeInv /\ CommandInv(c)
    BY DEF IInv, CommandInv
  <1>2. /\ Requesting(c) /\ Quiet /\ LeaveBehind(c) /\ Observe
        /\ conn[c].state # "none" /\ setup' = setup /\ hold' = hold
    BY DEF Unanswered, Quiet
  <1>3. cmd[c].step \in {"ping", "request"}
    BY <1>2 DEF Requesting
  <1>4. NoConn \in Conn /\ NoConn.state = "none" /\ NoConn.what = None
    BY DEF NoConn, Conn
  <1>5. /\ conn' \in [Cmds -> Conn]
        /\ \A d \in Cmds \ {c} : conn'[d] = conn[d]
        /\ conn'[c] = IF conn[c].state \in {"whole", "handled"}
                        THEN conn[c] ELSE NoConn
    BY <1>1, <1>2, <1>4 DEF TypeInv, LeaveBehind
  <1>6. hold.by = c => conn[c].what = "on"
    BY <1>1, <1>2, <1>3, CommandsAssumption
       DEF CommandInv, StepsInv, HoldInv, ConnInv, Requesting
  <1>7. CASE conn[c].what = "on"
    <2>1. End(c, "unknown")
      BY <1>7 DEF Unanswered
    <2>2. QED
      BY <1>2, <1>3, <1>4, <1>5, <2>1, Ends, QuietStep
  <1>8. CASE conn[c].what # "on"
    <2>1. End(c, "no")
      BY <1>8 DEF Unanswered
    <2>2. QED
      BY <1>2, <1>3, <1>4, <1>5, <1>6, <1>8, <2>1, Ends, QuietStep
  <1>9. QED
    BY <1>7, <1>8

LEMMA AnsweredStep ==
    ASSUME IInv, NEW c \in Cmds, Answered(c)
    PROVE  IInv'
  <1>1. TypeInv /\ CommandInv(c)
    BY DEF IInv, CommandInv
  <1>2. /\ Requesting(c) /\ Quiet /\ Observe
        /\ conn[c].state = "answered" /\ setup' = setup /\ hold' = hold
        /\ conn' = [conn EXCEPT ![c] = NoConn]
    BY DEF Answered, Quiet
  <1>3. cmd[c].step \in {"ping", "request"} /\ cmd[c].result = None
    BY <1>1, <1>2 DEF Requesting, CommandInv, StepsInv
  <1>4. NoConn \in Conn /\ NoConn.state = "none" /\ NoConn.what = None
    BY DEF NoConn, Conn
  <1>5. /\ conn' \in [Cmds -> Conn]
        /\ \A d \in Cmds \ {c} : conn'[d] = conn[d]
        /\ conn'[c].state = "none" /\ conn'[c].what = None
    BY <1>1, <1>2, <1>4 DEF TypeInv
  <1>6. /\ conn[c].what =
             IF cmd[c].step = "ping" THEN "ping" ELSE cmd[c].kind
        /\ conn[c].reply \in Replies
    BY <1>1, <1>2 DEF CommandInv, ConnInv
  <1>7. hold.by = c => cmd[c].step = "request" /\ conn[c].reply.ok
                       /\ cmd[c].kind = "on"
    BY <1>1, <1>3, CommandsAssumption DEF CommandInv, HoldInv
  <1>8. CASE cmd[c].step = "ping"
    <2>1. hold.by # c /\ cmd[c].kind \in {"on", "lock"}
      BY <1>1, <1>7, <1>8 DEF CommandInv, StepsInv
    <2>2. {"activate", "request"} \subseteq Phases \ {"idle", "done"}
      BY DEF Phases
    <2>3. CASE cmd[c].kind = "on" /\ Goto(c, "activate")
      BY <1>2, <1>3, <1>5, <2>1, <2>2, <2>3, GoesOn, QuietStep
    <2>4. CASE cmd[c].kind = "lock" /\ Goto(c, "request")
      BY <1>2, <1>3, <1>5, <2>1, <2>2, <2>4, GoesOn, QuietStep
    <2>5. CASE End(c, "no")
      BY <1>2, <1>3, <1>5, <2>1, <2>5, Ends, QuietStep
    <2>6. QED
      BY <1>8, <2>3, <2>4, <2>5 DEF Answered, Pinged
  <1>9. CASE cmd[c].step = "request"
    <2> DEFINE good == /\ conn[c].reply.ok
                       /\ cmd[c].kind = "lock" => conn[c].reply.locked
    <2>1. End(c, IF good THEN "yes" ELSE "no")
      BY <1>9 DEF Answered, Requested
    <2>2. hold.by = c => good
      BY <1>7
    <2>3. cmd[c].kind \in {"off", "lock"} /\ good => c \in unheld
      BY <1>1, <1>2, <1>6, <1>9 DEF CommandInv, UnheldInv, Ended
    <2>4. CASE good
      <3>1. End(c, "yes")
        BY <2>1, <2>4
      <3>2. QED
        BY <1>2, <1>3, <1>5, <2>3, <2>4, <3>1, Ends, QuietStep
    <2>5. CASE ~good
      <3>1. End(c, "no")
        BY <2>1, <2>5
      <3>2. QED
        BY <1>2, <1>3, <1>5, <2>2, <2>5, <3>1, Ends, QuietStep
    <2>6. QED
      BY <2>4, <2>5
  <1>10. QED
    BY <1>3, <1>8, <1>9

LEMMA ConnectStep ==
    ASSUME IInv, NEW c \in Cmds, Connect(c)
    PROVE  IInv'
  <1>1. TypeInv /\ CommandInv(c)
    BY DEF IInv, CommandInv
  <1>2. /\ Requesting(c) /\ Quiet /\ cmd' = cmd /\ Observe
        /\ setup' = setup /\ hold' = hold /\ conn[c].state = "none"
    BY DEF Connect, Quiet
  <1>3. cmd[c].step \in {"ping", "request"} /\ cmd[c].result = None
    BY <1>1, <1>2 DEF Requesting, CommandInv, StepsInv
  <1> DEFINE what  == IF cmd[c].step = "ping" THEN "ping" ELSE cmd[c].kind
             asked == [on |-> TRUE, by |-> c, wish |-> cmd[c].wish,
                       ask |-> cmd[c].ask]
             h == IF cmd[c].kind = "on" /\ cmd[c].step = "request"
                    THEN asked ELSE None
  <1>4. ConnIs(c, "open", what, daemon.life, None, h)
    BY DEF Connect, ConnIs
  <1>5. cmd[c] \in Cmd /\ daemon.life \in Nat
    BY <1>1 DEF TypeInv, Daemons
  <1>6. asked \in HoldSet
    BY <1>5 DEF Cmd, HoldSet
  <1>7. asked.by = c /\ asked.wish = cmd[c].wish /\ asked.ask = cmd[c].ask
    OBVIOUS
  <1>8. what = "on" => cmd[c].kind = "on" /\ h = asked
    BY <1>3
  <1>9. what \in Kinds \cup {"ping", None} /\ h \in HoldSet \cup {None}
    BY <1>5, <1>6 DEF Cmd
  <1>10. what = IF cmd[c].step = "ping" THEN "ping" ELSE cmd[c].kind
    OBVIOUS
  <1> HIDE DEF what, asked, h
  <1>11. Sole(c)
    BY <1>1, <1>2, <1>4, <1>5, <1>9, ConnOnly
  <1>12. /\ conn'[c].state = "open" /\ conn'[c].what = what
         /\ conn'[c].hold = h
    BY <1>1, <1>4 DEF TypeInv, ConnIs
  <1>13. StepsInv(c)' /\ AskInv(c)' /\ ToleratesInv(c)'
    BY <1>1, <1>2 DEF CommandInv, StepsInv, AskInv, ToleratesInv
  <1>14. what = "on" => AsWished(setup, cmd[c].wish, cmd[c].ask)
    BY <1>1, <1>3, <1>8 DEF CommandInv, AskInv
  <1>15. ConnInv(c)'
    BY <1>2, <1>3, <1>6, <1>7, <1>8, <1>10, <1>12, <1>14
       DEF ConnInv, Requesting
  <1>16. HoldInv(c)'
    BY <1>1, <1>2, <1>3, CommandsAssumption DEF CommandInv, HoldInv
  <1>17. UnheldInv(c)'
    <2>1. ~Ended(c)'
      BY <1>2, <1>3, <1>12, CommandsAssumption DEF Ended
    <2>2. QED
      BY <2>1 DEF UnheldInv
  <1>18. QED
    BY <1>2, <1>11, <1>13, <1>15, <1>16, <1>17, QuietStep

LEMMA WriteStep ==
    ASSUME IInv, NEW c \in Cmds, Write(c)
    PROVE  IInv'
  <1>1. TypeInv /\ CommandInv(c)
    BY DEF IInv, CommandInv
  <1>2. /\ Requesting(c) /\ Quiet /\ cmd' = cmd /\ Observe
        /\ setup' = setup /\ hold' = hold /\ conn[c].state = "open"
    BY DEF Write, Quiet
  <1>3. cmd[c].step \in {"ping", "request"} /\ cmd[c].result = None
    BY <1>1, <1>2 DEF Requesting, CommandInv, StepsInv
  <1>4. PICK frame \in {"whole", "cut"} :
          conn' = [conn EXCEPT ![c].state = frame]
    BY DEF Write
  <1>5. conn \in [Cmds -> Conn] /\ conn[c] \in Conn
    BY <1>1 DEF TypeInv
  <1>6. /\ conn' \in [Cmds -> Conn]
        /\ \A d \in Cmds \ {c} : conn'[d] = conn[d]
        /\ conn'[c].state = frame /\ conn'[c].what = conn[c].what
        /\ conn'[c].hold = conn[c].hold
    BY <1>4, <1>5 DEF Conn
  <1>7. Sole(c)
    BY <1>1, <1>2, <1>6 DEF Sole, TypeInv
  <1>8. StepsInv(c)' /\ AskInv(c)' /\ ToleratesInv(c)'
    BY <1>1, <1>2 DEF CommandInv, StepsInv, AskInv, ToleratesInv
  <1>9. ConnInv(c)'
    BY <1>1, <1>2, <1>3, <1>6 DEF CommandInv, ConnInv, Requesting
  <1>10. HoldInv(c)'
    BY <1>1, <1>2, <1>3, CommandsAssumption DEF CommandInv, HoldInv
  <1>11. UnheldInv(c)'
    <2>1. ~Ended(c)'
      BY <1>2, <1>3, <1>6, CommandsAssumption DEF Ended
    <2>2. QED
      BY <2>1 DEF UnheldInv
  <1>12. QED
    BY <1>2, <1>7, <1>8, <1>9, <1>10, <1>11, QuietStep

(***************************************************************************)
(* The daemon's handlers.                                                  *)
(***************************************************************************)

(* What a client that still waits reads; one that has left reads nothing.  *)
LEMMA Responds ==
    ASSUME TypeInv, NEW c \in Cmds, NEW reply \in Replies, Respond(c, reply)
    PROVE  /\ conn' \in [Cmds -> Conn]
           /\ \A d \in Cmds \ {c} : conn'[d] = conn[d]
           /\ Requesting(c) =>
                /\ conn'[c].state = "answered" /\ conn'[c].reply = reply
                /\ conn'[c].what = conn[c].what
                /\ conn'[c].hold = conn[c].hold
           /\ ~Requesting(c) => conn'[c].state = "none"
                                /\ conn'[c].what = None
  <1>1. conn \in [Cmds -> Conn] /\ conn[c] \in Conn
    BY DEF TypeInv
  <1> DEFINE first == [conn[c] EXCEPT !.state = "answered"]
             last  == [first EXCEPT !.reply = reply]
  <1>2. /\ first \in Conn /\ first.state = "answered"
        /\ first.what = conn[c].what /\ first.hold = conn[c].hold
    BY <1>1 DEF Conn
  <1>3. conn' = [conn EXCEPT ![c] = IF Requesting(c) THEN last ELSE NoConn]
    BY DEF Respond
  <1> HIDE DEF first
  <1>4. /\ last \in Conn /\ last.state = "answered" /\ last.reply = reply
        /\ last.what = conn[c].what /\ last.hold = conn[c].hold
    BY <1>2 DEF Conn
  <1> HIDE DEF last
  <1>5. NoConn \in Conn /\ NoConn.state = "none" /\ NoConn.what = None
    BY DEF NoConn, Conn
  <1>6. QED
    BY <1>1, <1>3, <1>4, <1>5

(* Any answer: the command stays where it is.                              *)
LEMMA RespondKeeps ==
    ASSUME IInv, NEW c \in Cmds, NEW reply \in Replies, Respond(c, reply),
           conn[c].state \in {"open", "cut", "whole", "handled"},
           cmd' = cmd, setup' = setup, Observe,
           (conn[c].what = "off" /\ reply.ok)
             \/ (conn[c].what = "lock" /\ reply.locked) => c \in unheld',
           hold'.by = c => \/ hold.by = c
                           \/ conn[c].what = "on" /\ reply.ok
    PROVE  Sole(c) /\ CommandInv(c)'
  <1>1. TypeInv /\ CommandInv(c)
    BY DEF IInv, CommandInv
  <1>2. /\ conn' \in [Cmds -> Conn]
        /\ \A d \in Cmds \ {c} : conn'[d] = conn[d]
        /\ Requesting(c) =>
             /\ conn'[c].state = "answered" /\ conn'[c].reply = reply
             /\ conn'[c].what = conn[c].what
             /\ conn'[c].hold = conn[c].hold
        /\ ~Requesting(c) => conn'[c].state = "none"
                             /\ conn'[c].what = None
    BY <1>1, Responds
  <1>3. Sole(c)
    BY <1>1, <1>2 DEF Sole, TypeInv
  <1>4. cmd[c] \in Cmd
    BY <1>1 DEF TypeInv
  <1>5. Requesting(c) \/ cmd[c].step = "done"
    BY <1>1, <1>4 DEF CommandInv, ConnInv, Requesting, Cmd, Phases
  <1>6. StepsInv(c)' /\ AskInv(c)' /\ ToleratesInv(c)'
    BY <1>1 DEF CommandInv, StepsInv, AskInv, ToleratesInv
  <1>7. ConnInv(c)'
    <2>1. CASE Requesting(c)
      BY <1>1, <1>2, <2>1 DEF CommandInv, ConnInv, Requesting
    <2>2. CASE ~Requesting(c)
      BY <1>2, <1>5, <2>2, CommandsAssumption DEF ConnInv, Requesting
    <2>3. QED
      BY <2>1, <2>2
  <1>8. HoldInv(c)'
    <2>1. SUFFICES ASSUME hold'.by = c
                   PROVE  /\ cmd[c].kind = "on"
                          /\ \/ /\ cmd[c].step = "request"
                                /\ conn'[c].state = "answered"
                                /\ conn'[c].reply.ok
                             \/ cmd[c].result \in {"yes", "unknown"}
      BY DEF HoldInv
    <2>2. CASE hold.by = c
      BY <1>1, <2>2 DEF CommandInv, HoldInv
    <2>3. CASE conn[c].what = "on" /\ reply.ok
      <3>1. /\ cmd[c].kind = "on"
            /\ cmd[c].step = "done" => cmd[c].result = "unknown"
        BY <1>1, <2>3 DEF CommandInv, ConnInv
      <3>2. Requesting(c) => cmd[c].step = "request"
        BY <1>1, <2>3 DEF CommandInv, ConnInv, Requesting
      <3>3. QED
        BY <1>2, <1>5, <2>3, <3>1, <3>2
    <2>4. QED
      BY <2>1, <2>2, <2>3
  <1>9. UnheldInv(c)'
    <2>1. SUFFICES ASSUME Ended(c)'
                   PROVE  c \in unheld'
      BY DEF UnheldInv
    <2>2. CASE cmd[c].kind \in {"off", "lock"} /\ cmd[c].result = "yes"
      <3>1. c \in unheld
        BY <1>1, <2>2 DEF CommandInv, UnheldInv, Ended
      <3>2. cmd[c].step # "idle"
        BY <1>1, <2>2, CommandsAssumption DEF CommandInv, StepsInv
      <3>3. QED
        BY <1>1, <3>1, <3>2, UnheldKept
    <2>3. CASE ~(cmd[c].kind \in {"off", "lock"} /\ cmd[c].result = "yes")
      BY <1>2, <2>1, <2>3 DEF Ended
    <2>4. QED
      BY <2>2, <2>3
  <1>10. QED
    BY <1>3, <1>6, <1>7, <1>8, <1>9 DEF CommandInv

LEMMA ReplyType ==
    ASSUME NEW ok \in BOOLEAN
    PROVE  /\ Reply(ok) \in Replies /\ Reply(ok).ok = ok
           /\ ~Reply(ok).locked
  BY DEF Reply, Replies

(* A refusal, of anything.                                                 *)
LEMMA RefusalStep ==
    ASSUME IInv, NEW c \in Cmds, Respond(c, Reply(FALSE)),
           conn[c].state \in {"open", "cut", "whole"},
           Quiet, cmd' = cmd, Observe
    PROVE  IInv'
  <1>1. /\ Reply(FALSE) \in Replies /\ ~Reply(FALSE).ok
        /\ ~Reply(FALSE).locked
    BY ReplyType
  <1>2. setup' = setup /\ hold' = hold
    BY DEF Quiet
  <1> DEFINE reply == Reply(FALSE)
  <1> HIDE DEF reply
  <1>3. /\ reply \in Replies /\ ~reply.ok /\ ~reply.locked
        /\ Respond(c, reply)
    BY <1>1 DEF reply
  <1>4. Sole(c) /\ CommandInv(c)'
    BY <1>2, <1>3, RespondKeeps
  <1>5. QED
    BY <1>4, QuietStep DEF CommandInv

(* An answer that grants nothing to an off or a lock.                      *)
LEMMA AnswerStep ==
    ASSUME IInv, NEW c \in Cmds, NEW reply \in Replies, Respond(c, reply),
           conn[c].state = "whole", conn[c].what \in {"ping", "status"},
           Quiet, cmd' = cmd, Observe
    PROVE  IInv'
  <1>1. setup' = setup /\ hold' = hold
    BY DEF Quiet
  <1>2. Sole(c) /\ CommandInv(c)'
    BY <1>1, RespondKeeps
  <1>3. QED
    BY <1>2, QuietStep DEF CommandInv

(* A hold that ends keeps only by whom it was.                             *)
LEMMA EndedHold ==
    ASSUME TypeInv, hold' = [NoHold EXCEPT !.by = hold.by]
    PROVE  hold' \in HoldSet /\ ~hold'.on /\ hold'.by = hold.by
  BY DEF TypeInv, NoHold, HoldSet, Options, Asks

LEMMA ApplyOnStep ==
    ASSUME IInv, NEW c \in Cmds, ApplyOn(c)
    PROVE  IInv'
  <1>1. TypeInv /\ CommandInv(c)
    BY DEF IInv, CommandInv
  <1>2. /\ conn[c].state = "whole" /\ conn[c].what = "on" /\ Serving
        /\ hold' = IF locking = None THEN conn[c].hold ELSE hold
        /\ Respond(c, Reply(locking = None))
        /\ setup' = setup /\ cmd' = cmd /\ daemon' = daemon
        /\ locking' = locking /\ Observe
    BY DEF ApplyOn, Read, Reached
  <1> DEFINE reply == Reply(locking = None)
  <1>3. reply \in Replies /\ (reply.ok <=> locking = None)
    BY ReplyType DEF Reply, Replies
  <1>4. /\ conn[c].hold \in HoldSet /\ conn[c].hold.by = c
        /\ AsWished(setup, conn[c].hold.wish, conn[c].hold.ask)
    BY <1>1, <1>2 DEF CommandInv, ConnInv
  <1>5. Respond(c, reply)
    BY <1>2
  <1> HIDE DEF reply
  <1>6. /\ hold' \in HoldSet
        /\ \A d \in Cmds \ {c} : hold'.by = d => hold.by = d
        /\ hold'.by = c => hold.by = c \/ reply.ok
    BY <1>1, <1>2, <1>3, <1>4 DEF TypeInv
  <1>7. Sole(c) /\ CommandInv(c)'
    BY <1>2, <1>3, <1>5, <1>6, RespondKeeps
  <1>8. DaemonInv'
    <2>1. Listening /\ Listening'
      BY <1>2 DEF Serving, Listening
    <2>2. hold'.on => AsWished(setup, hold'.wish, hold'.ask)
      BY <1>2, <1>4 DEF IInv, DaemonInv
    <2>3. QED
      BY <1>2, <2>1, <2>2 DEF DaemonInv
  <1>9. daemon' \in Daemons /\ locking' \in Cmds \cup {None}
    BY <1>1, <1>2 DEF TypeInv
  <1>10. QED
    BY <1>2, <1>6, <1>7, <1>8, <1>9, SoleStep

LEMMA ApplyOffStep ==
    ASSUME IInv, NEW c \in Cmds, ApplyOff(c)
    PROVE  IInv'
  <1>1. TypeInv /\ CommandInv(c)
    BY DEF IInv, CommandInv
  <1>2. /\ conn[c].state = "whole" /\ conn[c].what = "off"
        /\ hold' = [NoHold EXCEPT !.by = hold.by]
        /\ Respond(c, Reply(TRUE))
        /\ setup' = setup /\ cmd' = cmd /\ daemon' = daemon
        /\ locking' = locking /\ Observe
    BY DEF ApplyOff, Read, Reached
  <1>3. hold' \in HoldSet /\ ~hold'.on /\ hold'.by = hold.by
    BY <1>1, <1>2, EndedHold
  <1>4. c \in unheld'
    BY <1>2, <1>3, UnheldNow
  <1>5. Reply(TRUE) \in Replies
    BY ReplyType
  <1>6. Sole(c) /\ CommandInv(c)'
    BY <1>2, <1>3, <1>4, <1>5, RespondKeeps
  <1>7. DaemonInv'
    BY <1>3 DEF DaemonInv
  <1>8. daemon' \in Daemons /\ locking' \in Cmds \cup {None}
    BY <1>1, <1>2 DEF TypeInv
  <1>9. QED
    BY <1>2, <1>3, <1>6, <1>7, <1>8, SoleStep

LEMMA BeginLockingStep ==
    ASSUME IInv, NEW c \in Cmds, BeginLocking(c)
    PROVE  IInv'
  <1>1. TypeInv /\ CommandInv(c)
    BY DEF IInv, CommandInv
  <1>2. /\ conn[c].state = "whole" /\ conn[c].what = "lock"
        /\ hold' = [NoHold EXCEPT !.by = hold.by]
        /\ conn' = [conn EXCEPT ![c].state = "handled"]
        /\ setup' = setup /\ cmd' = cmd /\ daemon' = daemon
        /\ locking' = c /\ Observe
    BY DEF BeginLocking, Read, Reached
  <1>3. hold' \in HoldSet /\ ~hold'.on /\ hold'.by = hold.by
    BY <1>1, <1>2, EndedHold
  <1>4. c \in unheld'
    BY <1>2, <1>3, UnheldNow
  <1>5. conn \in [Cmds -> Conn] /\ conn[c] \in Conn
    BY <1>1 DEF TypeInv
  <1>6. /\ conn' \in [Cmds -> Conn]
        /\ \A d \in Cmds \ {c} : conn'[d] = conn[d]
        /\ conn'[c].state = "handled" /\ conn'[c].what = "lock"
    BY <1>2, <1>5 DEF Conn
  <1>7. Sole(c)
    BY <1>1, <1>2, <1>6 DEF Sole, TypeInv
  <1>8. StepsInv(c)' /\ AskInv(c)' /\ ToleratesInv(c)'
    BY <1>1, <1>2 DEF CommandInv, StepsInv, AskInv, ToleratesInv
  <1>9. ConnInv(c)'
    BY <1>1, <1>2, <1>6 DEF CommandInv, ConnInv, Requesting
  <1>10. HoldInv(c)'
    BY <1>1, <1>2, <1>3 DEF CommandInv, HoldInv
  <1>11. UnheldInv(c)'
    BY <1>4 DEF UnheldInv
  <1>12. DaemonInv'
    BY <1>3 DEF DaemonInv
  <1>13. daemon' \in Daemons /\ locking' \in Cmds \cup {None}
    BY <1>1, <1>2 DEF TypeInv
  <1>14. QED
    BY <1>2, <1>3, <1>7, <1>8, <1>9, <1>10, <1>11, <1>12, <1>13, SoleStep
       DEF CommandInv

LEMMA EndLockingStep ==
    ASSUME IInv, NEW c \in Cmds, EndLocking(c)
    PROVE  IInv'
  <1>1. TypeInv /\ CommandInv(c)
    BY DEF IInv, CommandInv
  <1>2. /\ conn[c].state = "handled" /\ locking' = None /\ hold' = hold
        /\ setup' = setup /\ cmd' = cmd /\ daemon' = daemon /\ Observe
    BY DEF EndLocking, Reached
  <1>3. conn[c].what = "lock" /\ cmd[c].step # "idle" /\ c \in unheld
    BY <1>1, <1>2 DEF CommandInv, ConnInv, UnheldInv, Ended
  <1>4. c \in unheld'
    BY <1>1, <1>2, <1>3, UnheldKept
  <1>5. PICK reply \in Replies : Respond(c, reply)
    <2>1. Reply(FALSE) \in Replies
      BY ReplyType
    <2>2. [Reply(TRUE) EXCEPT !.locked = TRUE] \in Replies
      BY ReplyType DEF Replies
    <2>3. QED
      BY <2>1, <2>2 DEF EndLocking
  <1>6. Sole(c) /\ CommandInv(c)'
    BY <1>2, <1>4, <1>5, RespondKeeps
  <1>7. DaemonInv'
    BY <1>2 DEF IInv, DaemonInv, Listening
  <1>8. /\ daemon' \in Daemons /\ locking' \in Cmds \cup {None}
        /\ hold' \in HoldSet
    BY <1>1, <1>2 DEF TypeInv
  <1>9. QED
    BY <1>2, <1>6, <1>7, <1>8, SoleStep

LEMMA HandlerStep ==
    ASSUME IInv, NEW c \in Cmds, Handler(c)
    PROVE  IInv'
  <1>1. TypeInv
    BY DEF IInv
  <1>2. CASE Misread(c) \/ ApplyWhenStopping(c) \/ RefuseLock(c)
    BY <1>2, RefusalStep
       DEF Misread, ApplyWhenStopping, RefuseLock, Read, Reached
  <1>3. CASE ApplyPing(c)
    <2> DEFINE reply == [ok |-> TRUE, lockable |-> ~daemon.legacy,
                         locking |-> locking # None, locked |-> FALSE]
    <2>1. reply \in Replies
      BY <1>1 DEF TypeInv, Daemons, Replies
    <2>2. Respond(c, reply)
      BY <1>3 DEF ApplyPing
    <2> HIDE DEF reply
    <2>3. QED
      BY <1>3, <2>1, <2>2, AnswerStep DEF ApplyPing, Read, Reached
  <1>4. CASE ApplyStatus(c)
    <2>1. Reply(TRUE) \in Replies
      BY ReplyType
    <2>2. QED
      BY <1>4, <2>1, AnswerStep DEF ApplyStatus, Read, Reached
  <1>5. QED
    BY <1>2, <1>3, <1>4, ApplyOnStep, ApplyOffStep, BeginLockingStep,
       EndLockingStep DEF Handler

(***************************************************************************)
(* What else happens to the daemon.                                        *)
(***************************************************************************)

(* No command and no connection moves.                                     *)
LEMMA DaemonStep ==
    ASSUME IInv, setup' = setup, cmd' = cmd, conn' = conn, Observe,
           hold' \in HoldSet, hold'.by \in {hold.by, None},
           daemon' \in Daemons, locking' \in Cmds \cup {None}, DaemonInv'
    PROVE  IInv'
  <1>1. TypeInv'
    BY UnheldType DEF IInv, TypeInv
  <1>2. \A d \in Cmds : hold'.by = d => hold.by = d
    BY CommandsAssumption
  <1>3. \A d \in Cmds : CommandInv(d)'
    BY <1>2, OtherKept
  <1>4. QED
    BY <1>1, <1>3 DEF IInv, CommandInv

LEMMA DaemonSteps ==
    ASSUME IInv, HoldEnds \/ Stop \/ Exit \/ StartElsewhere
    PROVE  IInv'
  <1>1. TypeInv
    BY DEF IInv
  <1>2. CASE HoldEnds
    <2>1. /\ hold' = [NoHold EXCEPT !.by = hold.by] /\ setup' = setup
          /\ cmd' = cmd /\ conn' = conn /\ daemon' = daemon
          /\ locking' = locking /\ Observe
      BY <1>2 DEF HoldEnds
    <2>2. hold' \in HoldSet /\ ~hold'.on /\ hold'.by = hold.by
      BY <1>1, <2>1, EndedHold
    <2>3. DaemonInv'
      BY <2>2 DEF DaemonInv
    <2>4. QED
      BY <1>1, <2>1, <2>2, <2>3, DaemonStep DEF TypeInv
  <1>3. CASE Stop
    <2>1. /\ daemon' = [daemon EXCEPT !.phase = "stopping"] /\ Serving
          /\ setup' = setup /\ cmd' = cmd /\ conn' = conn /\ hold' = hold
          /\ locking' = locking /\ Observe
      BY <1>3 DEF Stop
    <2>2. daemon' \in Daemons /\ daemon'.phase = "stopping"
      BY <1>1, <2>1 DEF TypeInv, Daemons
    <2>3. DaemonInv'
      BY <2>1, <2>2 DEF IInv, DaemonInv, Listening
    <2>4. QED
      BY <1>1, <2>1, <2>2, <2>3, DaemonStep DEF TypeInv
  <1>4. CASE Exit
    <2>1. /\ daemon' = [daemon EXCEPT !.phase = "down"] /\ hold' = NoHold
          /\ setup' = setup /\ cmd' = cmd /\ conn' = conn
          /\ locking' = None /\ Observe
      BY <1>4 DEF Exit
    <2>2. daemon' \in Daemons
      BY <1>1, <2>1 DEF TypeInv, Daemons
    <2>3. NoHold \in HoldSet /\ ~NoHold.on /\ NoHold.by = None
      BY DEF NoHold, HoldSet, Options, Asks
    <2>4. DaemonInv'
      BY <2>1, <2>3 DEF DaemonInv
    <2>5. QED
      BY <2>1, <2>2, <2>3, <2>4, DaemonStep
  <1>5. CASE StartElsewhere
    <2>1. /\ StartDaemon /\ setup' = setup /\ cmd' = cmd /\ conn' = conn
          /\ Observe
      BY <1>5 DEF StartElsewhere
    <2>2. QED
      BY <2>1, StartedInv, DaemonStep
  <1>6. QED
    BY <1>2, <1>3, <1>4, <1>5

(***************************************************************************)
(* The theorems.                                                           *)
(***************************************************************************)

LEMMA CommandStep ==
    ASSUME IInv, NEW c \in Cmds, Command(c)
    PROVE  IInv'
  BY BeginStep, EnsureStep, ActivateStep, ConnectStep, NotRunningStep,
     WriteStep, AnsweredStep, UnansweredStep DEF Command

LEMMA StutterStep ==
    ASSUME IInv, UNCHANGED vars
    PROVE  IInv'
  <1>1. /\ setup' = setup /\ cmd' = cmd /\ conn' = conn /\ hold' = hold
        /\ daemon' = daemon /\ locking' = locking /\ unheld' = unheld
    BY DEF vars
  <1>2. TypeInv' /\ DaemonInv'
    BY <1>1 DEF IInv, TypeInv, DaemonInv, Listening
  <1>3. ASSUME NEW c \in Cmds
        PROVE  CommandInv(c)'
    BY <1>1 DEF IInv, CommandInv, StepsInv, ConnInv, AskInv, HoldInv,
                UnheldInv, ToleratesInv, Ended, Requesting
  <1>4. QED
    BY <1>2, <1>3 DEF IInv, CommandInv

LEMMA InitInv == Init => IInv
  <1> SUFFICES ASSUME Init
               PROVE  IInv
    OBVIOUS
  <1>1. /\ setup \in Setups /\ hold = NoHold /\ locking = None
        /\ unheld = Cmds
        /\ cmd = [c \in Cmds |-> Idle] /\ conn = [c \in Cmds |-> NoConn]
    BY DEF Init
  <1>2. /\ Idle \in Cmd /\ Idle.kind = None /\ Idle.step = "idle"
        /\ Idle.result = None
    BY DEF Idle, Cmd, Options, Asks, Phases
  <1>3. NoConn \in Conn /\ NoConn.state = "none" /\ NoConn.what = None
    BY DEF NoConn, Conn
  <1>4. NoHold \in HoldSet /\ ~NoHold.on /\ NoHold.by = None
    BY DEF NoHold, HoldSet, Options, Asks
  <1>5. daemon \in Daemons
    <2>1. \A phase \in {"down", "serving"}, legacy \in BOOLEAN :
            [phase |-> phase, life |-> 1, legacy |-> legacy] \in Daemons
      BY DEF Daemons
    <2>2. QED
      BY <2>1 DEF Init
  <1>6. TypeInv
    BY <1>1, <1>2, <1>3, <1>4, <1>5 DEF TypeInv
  <1>7. DaemonInv
    BY <1>1, <1>4 DEF DaemonInv
  <1>8. ASSUME NEW c \in Cmds
        PROVE  CommandInv(c)
    <2>1. cmd[c] = Idle /\ conn[c] = NoConn /\ hold.by # c
      BY <1>1, <1>4, CommandsAssumption
    <2>2. StepsInv(c) /\ AskInv(c) /\ ToleratesInv(c)
      BY <1>2, <2>1, CommandsAssumption DEF StepsInv, AskInv, ToleratesInv
    <2>3. ConnInv(c)
      BY <1>2, <1>3, <2>1, CommandsAssumption DEF ConnInv, Requesting
    <2>4. HoldInv(c) /\ UnheldInv(c)
      BY <1>1, <2>1 DEF HoldInv, UnheldInv
    <2>5. QED
      BY <2>2, <2>3, <2>4 DEF CommandInv
  <1>9. QED
    BY <1>6, <1>7, <1>8 DEF IInv, CommandInv

LEMMA StepInv == IInv /\ [Next]_vars => IInv'
  BY CommandStep, HandlerStep, DaemonSteps, StutterStep DEF Next

LEMMA Invariance == Spec => []IInv
  BY InitInv, StepInv, PTL DEF Spec

(* An `off` or `lock` that reports success, of any number of commands and  *)
(* whatever daemons come and go, began before a moment without a hold      *)
(* (off and lock of src/main.rs, apply of src/daemon.rs).                  *)
THEOREM SuccessEndedTheHold == Spec => []OffMeansOff
  <1>1. IInv => OffMeansOff
    BY DEF IInv, UnheldInv, Ended, OffMeansOff
  <1>2. QED
    BY <1>1, Invariance, PTL

(* An `on` that reports that the hold was not enabled is never what the    *)
(* daemon holds, however late it reads a request that was left behind (on  *)
(* and HandoffError of src/main.rs).                                       *)
THEOREM RefusedStaysUnheld == Spec => []RefusedIsNotHeld
  <1>1. IInv => RefusedIsNotHeld
    BY CommandsAssumption
       DEF IInv, StepsInv, HoldInv, RefusedIsNotHeld
  <1>2. QED
    BY <1>1, Invariance, PTL

(* For every configuration file and every setting of Git, what is held is  *)
(* what the options, the file and Git ask for in the documented order, and *)
(* a `status` is refused only for its own table (src/config.rs, on and     *)
(* status of src/main.rs).                                                 *)
THEOREM SettingsObeyed == Spec => []SettingsAreObeyed
  <1>1. IInv => SettingsAreObeyed
    BY DEF IInv, DaemonInv, ToleratesInv, SettingsAreObeyed, HoldIsAsWished,
           StatusTolerates
  <1>2. QED
    BY <1>1, Invariance, PTL
=============================================================================
