------------------------------ MODULE Settings ------------------------------
(***************************************************************************)
(* What a command does with its options, the configuration file and Git's  *)
(* configuration before it talks to anybody (src/config.rs, src/git.rs,    *)
(* src/main.rs).  A value that does not parse is Bad, what is not given is *)
(* None, and what cannot be had for that reason Fails.                     *)
(***************************************************************************)
EXTENDS Naturals

CONSTANTS None, Bad, Fails, Keys

(* The values of StatusConfig.                                             *)
StatusTables == [watch : BOOLEAN]

(* None, Bad and Fails are no values of anything.                          *)
ASSUME SettingsAssumption ==
    /\ None # Bad /\ None # Fails /\ Bad # Fails
    /\ \A none \in {None, Bad, Fails} :
         /\ none \notin Keys
         /\ none \notin BOOLEAN
         /\ none \notin StatusTables
         /\ none \notin {"ssh", "openpgp"}

(* The file as TOML sees it.  "strange" is a key ConfigFile does not know, *)
(* or a value of the wrong type; it is not in the status table.            *)
AnyFile ==
    [ text     : {"missing", "unreadable", "malformed", "toml"},
      strange  : BOOLEAN,
      status   : StatusTables \cup {None, Bad},
      key      : Keys \cup {None},
      git_key  : {TRUE, FALSE, None},
      interval : {"ok", "huge", Bad, None},
      store    : {TRUE, FALSE, None},
      on_lock  : {TRUE, FALSE, None} ]

(* A file that is not there gives nothing.                                 *)
Files ==
    {f \in AnyFile :
       f.text = "missing" =>
         /\ f.status = None /\ f.key = None /\ f.git_key = None
         /\ f.interval = None /\ f.store = None /\ f.on_lock = None}

(* What `git config --get` says: a value, "" for an empty one, None for an *)
(* exit code of 1, Bad for any other failure.                              *)
Gits == [format : {None, "openpgp", "ssh", Bad},
         key : Keys \cup {None, "", Bad}]

Or(x, default) == IF x = None THEN default ELSE x

-----------------------------------------------------------------------------
(* load_from().  The status table is part of the file and read with it.    *)

Invalid(f) ==
    \/ f.text \in {"unreadable", "malformed"}
    \/ /\ f.text = "toml"
       /\ \/ f.strange
          \/ f.status = Bad
          \/ f.interval = Bad
          \/ f.key # None /\ Or(f.git_key, FALSE)

LoadFrom(f) ==
    CASE Invalid(f) -> Fails
      [] f.text = "missing" ->
           [key |-> None, git_key |-> FALSE, huge |-> FALSE,
            store |-> FALSE, on_lock |-> FALSE]
      [] OTHER ->
           [key |-> f.key, git_key |-> Or(f.git_key, FALSE),
            huge |-> f.interval = "huge",
            store |-> Or(f.store, FALSE), on_lock |-> Or(f.on_lock, FALSE)]

(* load_status(): only the status table counts, and without an explicit    *)
(* wish to watch a file that cannot be read or parsed is as good as none.  *)
LoadStatus(f, explicit_watch) ==
    CASE f.text \in {"unreadable", "malformed"} ->
           IF explicit_watch THEN Fails ELSE [watch |-> FALSE]
      [] f.text = "toml" /\ f.status = Bad -> Fails
      [] f.text = "toml" /\ f.status \notin {None, Bad} -> f.status
      [] OTHER -> [watch |-> FALSE]

(* The options of `status`; clap lets --no-watch stand only alone.         *)
StatusOptions ==
    {o \in [watch : BOOLEAN, no_watch : BOOLEAN, interval : BOOLEAN] :
       o.no_watch => ~o.watch /\ ~o.interval}

ExplicitWatch(o) == o.watch \/ o.interval

Resolve(status, o) ==
    ~o.no_watch /\ (o.watch \/ o.interval \/ status.watch)

-----------------------------------------------------------------------------
(* signing_key() of Git.                                                   *)

GitKey(git) ==
    IF git.format \in {None, "openpgp"} /\ git.key \notin {None, "", Bad}
      THEN git.key
      ELSE Fails

(* The options of `on`; clap refuses --key with --git-key, and two words   *)
(* on storing.  A huge duration does not fit a u64 in milliseconds.        *)
OnOptions ==
    {o \in [key : Keys \cup {None}, git_key : BOOLEAN,
            interval : {"ok", "huge", None}, for : {"ok", "huge", None},
            store : BOOLEAN, no_store : BOOLEAN] :
       (o.key # None => ~o.git_key) /\ (o.store => ~o.no_store)}

Chosen(key, source) ==
    IF key = Fails THEN Fails ELSE [key |-> key, source |-> source]

(* Mutant: the file's key outdoes --git-key.                               *)
FileBeforeGit(o, config, git) ==
    CASE o.key # None -> Chosen(o.key, "explicit")
      [] o.key = None /\ config.key # None -> Chosen(config.key, "explicit")
      [] o.key = None /\ config.key = None /\ (o.git_key \/ config.git_key) ->
           Chosen(GitKey(git), "git")
      [] OTHER -> Chosen(None, "default")

SelectKey(o, config, git) ==
    CASE o.key # None -> Chosen(o.key, "explicit")
      [] o.key = None /\ o.git_key -> Chosen(GitKey(git), "git")
      [] o.key = None /\ ~o.git_key /\ config.key # None ->
           Chosen(config.key, "explicit")
      [] o.key = None /\ ~o.git_key /\ config.key = None /\ config.git_key ->
           Chosen(GitKey(git), "git")
      [] OTHER -> Chosen(None, "default")

TooLong(o, config) ==
    \/ o.for = "huge"
    \/ o.interval = "huge"
    \/ o.interval = None /\ config.huge

StoreEnabled(o, config) == o.store \/ (config.store /\ ~o.no_store)

(* The options of `lock`.                                                  *)
LockOptions ==
    {o \in [clear : BOOLEAN, keep : BOOLEAN] : ~(o.clear /\ o.keep)}

ClearCredential(o, config) == o.clear \/ (config.on_lock /\ ~o.keep)
=============================================================================
