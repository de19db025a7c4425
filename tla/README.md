# Keyhold: specifications, model checking and proofs

Keyhold keeps a GnuPG signing key unlocked for a limited time.  A per-user
daemon signs a few bytes with the key at an interval, which keeps the entry in
gpg-agent's passphrase cache alive; in session mode it also recreates the entry
before the agent's hard maximum, with a passphrase kept in the Secret Service.
Short-lived `keyhold` processes talk to the daemon over a Unix socket.

This directory models the parts of the program where order, time or partial
knowledge matter: the daemon's hold, its scheduler and its view of gpg-agent's
cache, the protocol between `lock`, activations and renewals, the credential
items and everybody who deletes them, the children gpg runs in, the commands
against a daemon that comes and goes, the lives of the daemon processes that
share one socket path, what `status` prints, and the threads of its watch.
Paths below are relative to the repository (`src/` there is this project's
`src/src/`).

## The system

| Component | State it keeps | Operations | Hard behaviour |
|---|---|---|---|
| Hold (`state.rs`) | enabled, interval, deadline, next ping, cache epoch, key, mode, generation, last error | `turn_on`, `turn_off`, `clear_error`, `due_action`, `next_wake`, `record_*`, `status` | simultaneous due actions, arithmetic on two clocks |
| Scheduler and handlers (`daemon.rs`) | `Shared` under one mutex and condvar | On, Off, Lock, Shutdown, signals; ping, renew, expire | gpg runs outside the mutex on a snapshot; late results; lost wake-ups; two-step shutdown; an entry's lifetime that nobody reports |
| Activation (`activation.rs`, `main.rs: on`) | two file locks, the typed or stored passphrase | `ordinary`, `stored`, handoff, rollback | partial failure, prompts, lost responses, killed processes |
| Lock (`daemon.rs: lock_key`) | `locking`, `activation.lock`, the key's transaction | turn off, drain, delete credential, clear cache | against activations and renewals under way |
| Credential store (`credential.rs`) | Secret Service items, `credential-store.lock`, `credential-<keygrip>.lock` | load, store, delete, clear_all | several items per key, deletions that fail half way, lock order across processes |
| Shutdown cleanup (`daemon.rs: shutdown_cleanup`) | start-time policies, retained keygrip | re-read, clear secrets, clear the cache | activations still under way; an unreadable file |
| gpg adapter (`gpg.rs`) | none; drives gpg and its agent | sign, loopback sign, clear, key state, listing, cache policy | children that hang or fill pipes; replies that refuse or break off; which key gpg would use |
| Daemon lifecycle (`daemon.rs`, `main.rs: daemon_stop`) | socket file, listener, accept thread, connection count | bind, accept, drain, cleanup, unlink, `--stop` | several processes, one path |
| Commands and IPC (`main.rs`, `ipc.rs`) | none | on, off, lock, status; one request and one response per connection | timeouts, resets, a daemon of another version or gone between two requests |
| Configuration, Git, options (`config.rs`, `git.rs`, `cli.rs`) | two files of others | load, tolerant load, precedence | broken files; five sources for one key |
| Presentation (`presentation.rs`) | none | rows of `status` | three sources at three moments |
| Status watch (`watch.rs`, `watch_terminal.rs`) | monitor, worker channels, drawn region | poll, draw, resize, quit | slow polls, shrinking windows |
| Errors, scripts | none | | |

Clients and daemon interact by messages over the socket; handlers and the
scheduler by the mutex and the condvar; processes by advisory file locks, by
gpg-agent's cache and by the Secret Service.  Nothing of the hold is persistent:
a daemon that restarts starts with the hold off.

What makes each part correct:

* hold and scheduler: a hold that is off stays off until an accepted On; late
  results never touch a replacement; nothing due is slept past; expiry goes
  before renewal and renewal before ping; an accepted shutdown admits nothing
  and ends the thread; the agent's entry outlives a hold that was not warned of;
* lock: what a success reports stays true until the next activation is
  admitted; nobody waits for ever;
* activation: nothing unvalidated is stored, no item goes before gpg accepted
  what replaces it and no cached passphrase before there is a secret to try, and
  the rollback takes back its own credential and no other;
* store and cleanup: what was cleared is gone, or the clearing reports failure;
  a daemon that should leave nothing behind leaves nothing;
* gpg adapter: what it concludes is what gpg and the agent did; the key it
  resolves is the key gpg signs with; no child is left, none is killed that
  would have ended;
* lifecycle: one daemon, reachable; cleanup after the last request, that of a
  lock that waits included; a shutdown that ends; `--stop` reports the truth;
  stale sockets are recovered;
* commands: a success means what it says, a refusal is not held, every command
  ends, and the settings combine in the documented order;
* status: no row of an earlier hold, none that contradicts another, and times
  that survive a clock that is set;
* status watch: polls never overlap or come in bursts, and each is due at a tick
  of the grid that the start of the one before laid; quitting never
  waits for a probe; drawing stays inside rows that are the watch's own, and the
  terminal is left as it was.

## Modules

| Module | Models | Shape |
|---|---|---|
| `HoldContract` | what the daemon promises of its hold | abstract: seven indivisible changes |
| `Hold` | the operations of `state.rs` | pure operators on a record, instants and durations in milliseconds |
| `Keepalive` | `Shared`, the handlers, the signal thread, the scheduler | extends `Hold`, implements `HoldContract`; one action per mutex section |
| `KeepaliveProofs` | — | theorems about `Keepalive` |
| `CacheTiming` | the client's clock readings, the schedule, gpg-agent's entry | extends `Hold`; one action per reading, signature and record |
| `CacheTimingProofs` | — | theorems about `CacheTiming` |
| `StatusView` | `Hold::status`, `StatusSnapshot`, `status_rows` | extends `Hold`; the snapshot and the rows are two steps |
| `StatusViewProofs` | — | theorems about `StatusView` |
| `LockProtocol` | `lock_key`, `on` in both modes, `renew_once`, `credential clear` | one action per lock, agent or store call |
| `LockProtocolProofs` | — | theorems about `LockProtocol` |
| `SessionStore` | `stored`, `finish_activation_handoff`, `clear_all`, `shutdown_cleanup` | one action per item deleted |
| `SessionStoreProofs` | — | theorems about `SessionStore`, and about `GpgAdapter` beneath it |
| `Option` | `None`, for `SessionStore` and `GpgAdapter` | |
| `KeyListing` | the parsers of `gpg.rs` and the choice of the signing key | pure operators |
| `GpgAdapter` | the operations of `Gpg`, `wait_with_timeout`, the drains; gpg and its agent as environment | extends `KeyListing`; one action per step of a child, a drain or the waiter |
| `Settings` | `config.rs`, `git.rs`, `select_key`, the options of `cli.rs` | pure operators |
| `Commands` | `on`, `off`, `lock`, `status` and `apply`, over connections | extends `Settings`; one action per system call or handler |
| `CommandsProofs` | — | theorems about `Commands` |
| `DaemonLifecycle` | `bind`, `accept_loop`, `handle`, shutdown, `daemon --stop` | one action per system call or mutex section |
| `DaemonLifecycleProofs` | — | theorems about `DaemonLifecycle` |
| `TerminalRegion` | the row arithmetic of `watch_terminal.rs` | pure operators on a record |
| `StatusWatch` | `watch.rs`: monitor, worker, event loop; `Terminal` | extends `TerminalRegion`; one action per step of a thread |
| `StatusWatchProofs` | — | theorems about `StatusWatch` |
| `MC...` | model values, requests, symmetry | |

Three modules see a stored activation, each with what it is about:
`LockProtocol` with every lock and the agent's cache but one item per key,
`SessionStore` with the items one by one and the prompts, `CacheTiming` with
the clocks.

### Hold and Keepalive

`hold` is `Hold` without the fields that only feed the status display.
Durations keep the code's arithmetic: `checked_add` is `CheckedAdd` and yields
`None` beyond `Horizon`, `saturating_sub` is `SaturatingSub`, and the renewal
margin and its clamp to one millisecond after now are as in `turn_on`.  A
request carries the *age* of its cache epoch in place of two wall-clock times.

`pc` is where the scheduler thread is: `check` (it has the mutex and looks for
work), `wait` (in the condvar), `expire`, `ping`, `txn` (waiting for the key's
transaction, in `renew_once`), `renew` (past its re-read of the hold), `done`.
Every action is one critical section or the completion of one outside call, so
any handler may run between two of them.  `NotifyAll` moves a waiting scheduler
to `check` and is lost on any other.  A ping that fails in session mode goes on
to `txn` with the same snapshot, as the recovery in the code does.

Requests that are refused change nothing and are not actions.  Lock is two
sections, `LockBegin` and `LockEnd`; what happens between them is
`LockProtocol`'s subject.

`HoldContract` has no clock, no scheduler and no request: it says when a hold
may begin (while open and not locking), what may end it, and whose error is
kept.  `Contract` in `Keepalive` is its instance; `epoch` is the generation and
`open` the negation of `stopping`.

### CacheTiming

The daemon decides from three things it can read, while the agent decides from
two it cannot: an entry's creation and its last use.  `now` is `Instant`,
`wall` is `SystemTime`, and the wall clock may be set between the only two
readings that are compared with each other.  The lags are real time: from the
activation's signature to `turn_on` (`ClientLag`), from due to signed and from
signed to recorded (`DaemonLag`).  `plan.warned` is whether `ordinary` or
`stored` printed a warning, and `plan.informed` whether the activation knew the
cache policy and whether a pinentry was launched: without the policy the code
prints no warning at all and schedules no renewal, so nothing is claimed of such
a hold.

A stored activation is three steps: it takes its key's transaction
(`StoredBegins`), clears the entry (`Clear`, `activation.rs:296`) and signs
(`StoredSigns`), with any time between them, as a prompt may come first.  It may
fail, be rejected or be given up at each (`GiveUp`), and leaves an earlier hold
on with no entry.  A renewal waits for that transaction (`RenewalBegins`,
`Superseded`), then clears and signs as one step, and may fail before or after
it has cleared; the hold then ends with the record of the failure.  So a prompt
that is left open makes the scheduler late: `InTime` allows it, and `freed`, the
release of the transaction, is when its lag begins to count again.
`EntryOutlivesHold` is therefore stated while the scheduler is on time
(`OnTime`), and for an entry that has not been cleared; where one is missing,
the failure is somebody's to report and the next signature's to find.  The
unprotected key and `off` and `lock`, which end a hold, are left out.

### StatusView

`kept` are the fields only the display reads.  A status is two steps: `Query`
takes the snapshot (and, for the properties, notes what of), `Show` prints it
after the agent and the store have been asked, so time passes and the hold
changes in between.  Durations are numbers of seconds as they would be shown,
rows that are not printed are `None`.

### LockProtocol

Holders of file locks are derived from where each process is (`Guarding`,
`ClientInTransaction`, `LockInTransaction`, `RenewalInTransaction`,
`StoreShared`), since the code drops locks on every return and the kernel drops
those of a dead process.  `sealed` is a history variable: the last lock that
reported success, until an activation passes its admission check.  `cache` is
gpg-agent's entry per key and `cred` the stored secret, `good` or `bad`.  Time
is left out: an action of the scheduler may be due whenever a hold is on.  Keys
are protected ones.

`GoodCredentialIsKept` speaks of the taking of a credential and not of the hold
that needs it.  With three activations a session hold can be left without one:
its own mistyped passphrase was accepted from a hot entry
(`OnlyValidatedIsStored` below), the next activation finds that rejected,
replaces it, does not reach the daemon, and rolls its own back.  What the code
does promise is that no rollback, renewal or lost response takes a good
credential that another activation stored.

### SessionStore

Items of one keygrip differ in form: `create_item` replaces an item only if all
its attributes are equal, so `plain` ones are replaced and others stay, while
`find` returns both.  `sweep` is what a process has found and still has to
delete.  `faults` bounds deletions and stores that fail and clients that are
killed; failures that change nothing (a prompt given up, gpg unwell, a load
refused) are not bounded.  The daemon is its last phases; `held` is the keygrip
it retains after a hold.  With the policy `lock_key` alone, an activation under
way may warm the key again after the daemon cleared it: nothing in the code
waits for it, and no property says otherwise.

What a failure costs is decided by when it comes.  Before there is a secret,
nothing.  A stored secret that turns out stale has cost the cached passphrase by
then, also if the second prompt is given up; a save that fails has cost the
items of the key that were deleted before it, while the key stays unlocked.
`NothingLostWithoutSecret` says this much and no more.

### KeyListing and GpgAdapter

gpg, its agent and gpgconf answer as the comments and tests of `gpg.rs` record
of GnuPG 2.4; they are marked external.  A child acts once (`Act`: it fixes its
answer, its exit status, and changes the cache), writes pieces to two pipes of
bounded size, and exits; it may hang, and may leave a descendant that keeps the
pipes open.  The waiter sees the exit (`Reap`), joins the drains, or kills at
the bound; a child or a thread that cannot be started, and a wait that fails,
are `SpawnError`.  `facts` is what really happened during a call, against which the
properties hold the result.

A find of the code (`find`, `max_by_key`) is the set of what it finds, of at most
one member.  Searches go by index, and the order in which gpg prints is the rank
of a key's place in the ring (`InOrder`), so that no definition recurs.

Assumed of keyrings (`KeyringAssumption`): a block has a primary, and an id in
any of its four forms names one key; of selectors (`SelectorAssumption`): what
names a key by its id is hexadecimal.  The ring does not change between the two
children of one call.  Ages are not restricted, and one of the rings of the run
has three signing keys of one age.  Where gpg has signed, `TargetIsSigner` holds
whatever the ages.  For a locked key `default_signing_key` has to guess, and with
a primary as new as a subkey it guesses wrong: it takes the primary
(`gpg.rs:1017`) and gpg the subkey.  The property excludes that by a condition of
its own, `PrimaryIsOldest`, without which TLC finds it violated.  Of subkeys of
one second the code takes the last and the model's gpg any, so there the property
says only that the target is one of them.

A descendant that keeps the pipes holds up `join_drain` after the exit was seen,
for as long as it lives; `CallReturns` assumes it leaves some time.

### Settings and Commands

A value that does not parse is `Bad`; what cannot be had for that reason
`Fails`.  The options are those clap lets through.

A connection is in a state of its own (connected, written, read by a handler,
answered, broken), so a request may be read after its client has gone.  The
daemon is `down`, `serving` or `stopping`, has a life (it may be another one by
the next request) and may be of a version that does not know `lock`; daemons
started by a command are of the current one.  An `on` ends with `yes`, `no`
(refused, and undone), or `unknown` (it may be held).  `unheld` is a history
variable: the commands since whose start there was a moment without a hold.

### DaemonLifecycle

`sock` is the process whose socket file is at the path.  A file outlives its
listener (crash) and a listener outlives its file (a path taken over).
Connections carry a Shutdown, a Lock, or nothing (probes, polls, the wake-up);
those that carry nothing count as one, and so do those of one client.  A Lock's
handler (`BeginLock`, `EndLock`) and a renewal (`RenewalWaits`, `RenewalEnds`)
wait for the `keyhold on` that hold `activation.lock` (`activating`), which may
be at a prompt and owe nothing, and the shutdown waits for both.  `robbed` is a
history variable: the daemons whose live socket another removed.  Two
constants say which overlaps a run allows: `ConcurrentStarts`, two processes in
`bind` at once, and `RestartWhileStopping`, one in `bind` while another is
between closing admission and its end.

### TerminalRegion and StatusWatch

A region is the first row, the number of rows and the size of the terminal as
the code remembers them; `placed` is a history field, the size they were
computed for.  `Reserve`, `Resize` and `Expand` are `acquire`, `resize` and
`reserve_to`, with the row the terminal reports for the cursor as a parameter,
since a terminal may reflow as it likes.

`ui` is where the thread that owns the terminal is, `worker` where the probing
thread is; `requests` and `responses` are the two channels of capacity one.  A
probe reports anything at any later time, or never returns (`Hang`).  `screen`
is what the region shows.  Frames are drawn as differences from `previous`, so
the screen is right only if `previous` is what it shows; a frame that is drawn
while the window has another size than the region was placed in leaves it
`Garbled`.  A window that gets its old size back is assumed to show the region
again.  Resizes that follow each other are one event, as one signal announces
them.

`resize` notes the new height before it queries the cursor.  If that query
fails and only the height had changed, `clear` sees no difference and clears
the rows of the old placement; `ClearsOwnRows` excepts that case, and only it.

## Runs

Passing runs:

| Run | Question | Bounds |
|---|---|---|
| `keepalive` | Can any interleaving corrupt the hold, revive it, or make the scheduler oversleep?  Is every step one `HoldContract` allows?  Is due work done, and does a shutdown end the scheduler? | 8 ms, 3 activations, 8 kinds of request |
| `cache_timing` | Does the agent's entry live as long as the hold, whatever activations and renewals fail?  Is the countdown shown honest? | 34 instants, 2 activations that may fail at any point, lags of 1, 3 plans, lifetimes 16 and 30 |
| `status_view` | Is each row of `status` about the hold that is on, and do the rows agree?  Do the times survive the clock being set? | 2 holds, 3 passings of time or settings of the clock, 3 requests |
| `lock_safety` | Does a successful lock's report stay true? | 2 clients, 2 keys, all initial caches and credentials |
| `lock_progress` | Do locks and activations end, and is a good credential taken only by the user or by the activation that stored it? | 2 clients that may die, 1 key |
| `teardown` | Is what loads what was validated, is nothing given up without a secret, does clearing mean cleared, and does the shutdown leave what its policies say and end? | 2 activations, 2 keys, 3 stores, 3 pairs of policies, 1 fault |
| `gpg` | Are keyhold's conclusions what gpg and the agent did, for every answer they give?  Do calls return, reap, and kill only what hangs? | 5 keyrings, 13 requests, 3 policies, output of twice a pipe's size |
| `commands` | Does each command's result mean what it says, whatever the daemon, the connection and the settings do?  Does it end? | 2 commands, 2 lives of the daemon, 8 configurations, 3 forms of `on`, 1 hold that ends by itself |
| `lifecycle_settled` | When starts and stops do not overlap, is `--stop` honest and are stale sockets recovered?  Does a shutdown that has a lock and a renewal waiting for activations end once those do? | 2 processes at a time, 1 lock, 2 activations that may never end |
| `lifecycle_overlap` | With any overlap, does cleanup stay exclusive, what cuts a daemon off, and which shutdowns do not end? | 2 processes at a time |
| `status_watch` | Can polls overlap, come in bursts, or stop?  Is the screen current, inside its rows, and the terminal restored?  Does quitting wait for a probe? | 4 ticks, region of 2 rows, 3 window sizes, 3 cursor rows |

One run ends in a violation and records where the program and its documentation
part: in `lock_late_handoff` a client delivers On and is killed, its file lock
goes, a lock succeeds, and the handler then applies On.  That is why
`lock_safety` has no unreliable clients.

### Known divergences

Some properties are true only of part of what can happen.  The passing runs
exclude the rest by a constant, the property does by a condition it names, or it
is not checked; the comments at the definitions say so, and each counterexample
is a change of a configuration or of the condition away.

| Property | To see it fail | What happens | Stated in |
|---|---|---|---|
| `DaemonLifecycle.OneDaemonServes` | add it to `lifecycle_settled` as an invariant, with `ConcurrentStarts = TRUE` | A probes (nothing), B probes, removes, binds and serves; A removes B's socket and binds.  Two daemons listen (`daemon.rs:420`). | SECURITY.md:87, "The daemon refuses to run as a second instance and verifies that an existing socket is live before replacing it." |
| the same | the same, with `RestartWhileStopping = TRUE` | A has closed its listener and is cleaning up; B binds; A removes B's socket (`daemon.rs:351`). | README.md:548, "shuts the daemon down cleanly and removes its socket" |
| `DaemonLifecycle.ShutdownCompletes` without `LostItsPath` | `lifecycle_overlap` with that disjunct taken out | B has taken A's path.  A is told to stop, connects to the path to wake its accept thread, reaches B, and waits for ever (`daemon.rs:330`). | daemon.rs:326, "wait until it can no longer admit connections" |
| `DaemonLifecycle.ShutdownCompletes` without `WaitsForUser` | `lifecycle_settled` with that disjunct taken out | A lock's handler waits for an activation at its prompt (`daemon.rs:736`), and the main thread for the handler (`daemon.rs:335`). | TODO.md:8-9 says that shutdown may then wait |
| `DaemonLifecycle.StopMeansCleanedUp` | `RestartWhileStopping = TRUE` | While A is cleaning up, B's `bind` removes the dead socket, and `--stop` finds no path and reports that A is done. | |
| `Keepalive.ExpiredHoldIsNotRenewed` | add it to `keepalive` as a property | A renewal is dispatched and waits for the key's transaction while the deadline passes; the re-read tests everything but the deadline and the entry is recreated (`daemon.rs:926`). | state.rs:318, "an expiring hold must not recreate cache entries" |
| `GpgAdapter.TargetIsSigner` without `PrimaryIsOldest` | `gpg` with that condition taken out | A signing primary and a signing subkey of one second: the target of the locked key is the primary (`gpg.rs:1017`). | |
| `LockProtocol.OnlyValidatedIsStored` | add it to `lock_safety` as an invariant | A stored activation clears the cache and an ordinary one fills it; the loopback sign succeeds with a mistyped passphrase, which is stored (`activation.rs:302`). | SECURITY.md:28, "The passphrase is validated against the exact selected key" |

### Bounds and fairness

The bounds.  In `Keepalive` every race needs at most a hold, its replacement,
and work launched for the first: two activations, three to see a chain.  The
requests have intervals of 2 and 3 ms, deadlines of 1 to 5 and renewals due at
once or after 4, so that within 8 ms pings, renewals and expiries fall due
alone, together and during work in flight.  `Horizon` is far off in the runs;
the proofs cover every value.  In `LockProtocol` a lock, a renewal and two
activations are the four kinds of actors that meet; a second key lets the hold
move off the locked one.  `LockProtocolProofs` covers any number of clients and
keys.  In `DaemonLifecycle` two processes at a time are
what every counterexample under Known divergences needs, and a name can be used
again, so that one life follows another; two activations let one end while the
other stays at its prompt.  Overlaps and locks are checked apart, as together
they take too long; of both together `DaemonLifecycleProofs` proves
`CleanupIsExclusive` and `OnlyRobbedAreCutOff`, for any number of processes.

In `CacheTiming` the lifetimes are a few times the lag and the margin a tenth of
the maximum, so that a margin that is dropped, or an epoch counted from a later
reading, is seen within one lifetime; 34 instants hold a session hold's first
epoch, its first renewal and a second activation that clears the entry under it.  `CacheTimingProofs` covers every value.  In
`StatusView` times are on either side of the second, the half minute and the
minute, where rounding changes, and the clock goes back and far ahead.  In
`SessionStore` one fault is enough for each half-way failure and each killed
client alone; the two stale items of one key are the case `delete` and `load`
differ on; `SessionStoreProofs` covers any number of all of them.  In
`GpgAdapter` output of two pieces against a pipe of one is what blocks a writer
nobody reads.  In `Commands` two lives are the daemon probed and the one that
answers; two commands are an activation and what undoes it.

Fairness.  `Keepalive`: the scheduler thread takes its next step when it can
(gpg runs under a 30 s timeout, and whoever has the key's transaction is
assumed to end it), a Shutdown handler's write is bounded by the request
timeout, and time advances; requests, signals and spurious wake-ups are free.
`LockProtocol` and `SessionStore`: every process continues, with the assumption
that a prompt or a pinentry is answered some time (TODO.md records that `lock`
waits without a bound for one that is not), and strong fairness for taking a
key's lock, whose waiters the kernel queues.  Nobody has to start anything.
`DaemonLifecycle`: the main thread, the accept thread and each handler of each
process continue when they can; starts, crashes, signals, `--stop` clients and
activations owe nothing, so a Lock's handler that waits for an activation may
wait for ever.  `ShutdownCompletes` therefore names its alternatives: a lock or
renewal that finds activations under way again and again (`WaitsForUser`), or a
wake-up that went to another daemon (`LostItsPath`).
`Commands`: a command that began continues, and its timers with it; nothing is
assumed of the daemon.  `GpgAdapter`: keyhold's threads run, the bound passes,
and a child that does not hang goes on; one that hangs, or waits at a pinentry,
owes nothing.  `CacheTiming` and `StatusView` state safety only.
`StatusWatch`: both threads continue and time passes; a probe need not return,
nobody has to quit, and the user may resize without end.

In `StatusWatch` an interval is 2 ticks and an attempt may last 0 to 4 of them,
so that it ends before, on and after a tick of its grid; the window may be
higher and lower than the region, or have no rows at all.  `Horizon` bounds the
clock and is at the same time the limit of `checked_add`, so the error exit of
an instant that cannot be represented is among the behaviours.

## Proofs

`KeepaliveProofs` proves, for all keygrips, all sets of requests and every
value of `Horizon`, `MaxClock` and `MaxGeneration`:

| Theorem | Property |
|---|---|
| `TypeCorrect` | `TypeOK` |
| `NeverOversleeps` | `NoLostWakeup` |
| `HoldStaysSound` | `HoldIsSound`, with `OffStaysQuiescent`, `LockExcludesHold`, `ErrorsStopTheHold` and `SnapshotsStayFaithful` for its four parts |
| `OffIsFinalTheorem` | `OffIsFinal` |
| `StoppingIsFinal` | `StoppingAdmitsNothing` |
| `LateResultsDiscarded` | `ReplacementUntouched` |
| `PrioritiesHold` | `PriorityRespected` |
| `Refinement` | `ImplementsContract` |
| `SessionStaysRenewable` | `SessionIsRenewable` |

The assumptions are `HoldAssumption` (`None` is none of the values it stands
beside, `Horizon` is a natural) and `KeepaliveAssumption` (the requests are
well formed, the bounds are naturals).  `SessionStaysRenewable` also assumes
`HorizonAmple`: the clock reaches past every renewal a request can ask for.
Without it the property is false of the code, which then drops the renewal; on
Linux no request of u64 milliseconds gets there.

The argument goes through the *effect* of a step and not through twenty actions
for each invariant.  `StepEffect` shows that a step leaves the hold, replaces it
with a new generation, stops it, or reschedules a live one (`HoldEffect`).
`SnapshotEffect` shows that a snapshot is taken from the present hold and kept
while its work runs; `SleepEffect` that the scheduler falls asleep only in
`Sleep`, and that a change of the hold or of the final flag wakes it.  `Inv` is
the conjunction of the five invariants.  It is needed as a whole where one leans
on another: `SnapshotFaithful` needs the generation to be monotonic and renewed
with the key and the mode, and `NoLostWakeup` needs `NextWakeIsEarliest`, that
a non-empty schedule with nothing due has an earliest instant still ahead.
`InvNext` is one step per conjunct over these effects, and the action
properties follow from the same lemmas.  `Refinement` needs no strengthening
beyond the types: `ContractStep` maps each handler to one step of the contract,
and each result of the scheduler to `Fail`, `Expire` or a stutter.
`SessionStaysRenewable` adds `EpochInv`, that scheduled instants and the ages of
snapshots stay below what `HorizonAmple` allows.

`CacheTimingProofs` proves `EntryOutlives`: `EntryOutlivesHold` for every pair
of lifetimes, every set of plans, both lags and all settings of the clock,
assuming `TimingAssumption` and `Representable` (what the daemon adds stays
below `Horizon`).  The invariant relates what the daemon has scheduled to what
it cannot see: the next ping is due, with the lag it may still suffer, before
the default lifetime after the last use; a renewal before the maximum after the
creation; an ordinary hold that was not warned of, by an activation that knew
all, has its deadline before that.  It is stated over `LastUse` and `Birth`,
which for an entry that was cleared are the present: neither ever goes back
(`Lives`, `NewEntry`), so a schedule that is early enough stays so through every
clearing, failure and new signature (`Newer`), and it holds of a scheduler that
is late as well.  Only the last step, from the schedule to the entry, needs
`OnTime`.  It is stated per phase, since between a signature and its record the
schedule is that of the signature before.  `MarginCovers` is the arithmetic of
`renew_margin`: a tenth of the maximum or a minute covers the lag `Roomy`
allows.  `CountdownStaysHonest` proves `CountdownHonest` from the same
assumptions, through `CountInv`: until the clock is set, the start of the epoch
a client read, and what is shown from it or from a renewal's, is at most the lag
later than the birth of the entry.

`LockProtocolProofs` proves, for any number of clients and keys:

| Theorem | Property |
|---|---|
| `ProtocolTypeCorrect` | `TypeOK` |
| `GoodCredentialStays` | `GoodCredentialIsKept` |
| `LockSuccessStays` | `LockSuccessLasts`, assuming `Reliable` |

The assumption on the constants is `LockProtocolAssumption`; `Reliable` says
that no client is killed or gives up, without which `lock_late_handoff` shows
the property false.  Everything rests on `Exclusive`: one activation, lock or
renewal in the transaction of a key, and none behind the barrier.  On it stands
`Known`, what a process in a transaction knows of the credential it loaded or saved, since nobody else can
change it meanwhile; with `Answered`, what an answer says of the hold, it gives
`GoodCredentialStays`.  The lock's promise needs two more: `LockShields`, that
no hold is on while the lock runs and no activation is under way once it has
drained them, and `Sealing`, that after its success no activation is past its
admission and a renewal past its re-read is another key's.  `Delivered`
(a request in the inbox has a client waiting for its answer) is where `Reliable`
is used.

`SessionStoreProofs` proves every safety property of the run `teardown`, for any
number of activations, keys, items, policies and failures, assuming
`SessionStoreAssumption`:

| Theorem | Property |
|---|---|
| `StoredIsValidated` | `ValidatedIsWhatLoads` |
| `ClearIsComplete` | `ClearedMeansEmpty` |
| `LossNeedsSecret` | `NothingLostWithoutSecret` |
| `TeardownIsComplete` | `TeardownLeavesNothing` |

Again the exclusion comes first (`Exclusive`: one transaction per key, none
during a sweep of the collection), and on it what an activation knows (`Knows`):
which items of its key are there, and that it has a validated passphrase when it
begins to delete.  `Alone` and `Writes` say what one step of an activation may
touch, so that the steps of the others are dealt with once, in `ActivationStep`
and `SweepingStep`.  `Unlocked` is for what a failure may cost: from its
signature on an activation's key stays unlocked, as only the clearing before the
signature locks it and the transaction keeps others from doing that.
`Swept` is for the daemon's end: after its sweep every item
has an activation that stored it and, the daemon accepting nothing any more,
will take it away.

`DaemonLifecycleProofs` proves, for any number of processes and of `--stop`
clients, assuming `DaemonLifecycleAssumption`:

| Theorem | Property | Under |
|---|---|---|
| `LifecycleTypeCorrect` | `TypeOK` | |
| `CleanupStaysExclusive` | `CleanupIsExclusive` | |
| `CutOffMeansRobbed` | `OnlyRobbedAreCutOff` | |
| `OneDaemonWhenSettled` | `OneDaemonServes` | `Settled` |
| `StopIsTruthful` | `StopMeansCleanedUp` | `Settled` |

`Settled` is that starts and stops do not overlap, which nothing in the code
ensures; under Known divergences is what happens when they do.  The first three
do without it.  Cleanup needs no more than `ThreadsInOrder`: how far the main
thread is tells what its accept thread and its handlers, the lock's among them,
have finished.  `CutOffMeansRobbed` is what is left of the one daemon when
anything may overlap: a daemon that listens and whose live socket nobody removed
has the path, so two daemons listen only after such a removal.  The two theorems
under `Settled` need `StoppingInOrder`, that a listener is closed only once
admission is, which it is not while a daemon binds, and `PathOwned`, whose
socket is at the path in each phase of the one daemon that is past `bind`;
`--stop` needs `AskedIsStopping`, that the daemon whose answer a client has is
past admission.

`StatusWatchProofs` proves, for every interval, horizon, height of the region,
set of window sizes and set of rows a terminal may report for its cursor:

| Theorem | Property |
|---|---|
| `WatchTypeCorrect` | `TypeOK` |
| `PollingStaysOrderly` | `PollsAreOrderly`, with `PollsNeverOverlap` (`OneAttempt`) and `PollsStayOnGrid` (`PollsOnGrid`) for its parts |
| `TerminalStaysRespected` | `TerminalIsRespected`, with `RegionAlwaysFits` (`RegionFits`) and `InputModeRestored` (`TerminalRestored`) for its parts |
| `ScreenStaysCurrent` | `ScreenIsCurrent` |
| `OwnRowsAreCleared` | `ClearsOwnRows` |

The grid of `PollsOnGrid` is that of the last start: an attempt that the loop
begins late lays a new one (`watch.rs:215`), and nothing brings polls back to
the first.  `ReserveFits` and `ResizeFits` carry the row arithmetic and need only that a
region has at least one row; `NextPollOnGrid` carries the arithmetic of
`next_poll` and needs that an attempt does not end before it begins.  That is
`InOrder`, which in turn needs `OneAttempt`: a response belongs to the last
request.  `OneAttempt` is inductive with `NothingYet`, that nothing is under way
before the loop.  `RegionFits` and `TerminalRestored` are inductive with the
types alone.  `ScreenStaysCurrent` needs `Pictured`: what was drawn last is on
the screen unless that is garbled (`DrawnIsShown`), and is what the monitor
knows (`DrawnIsCurrent`).
`OwnRowsAreCleared` needs only that `resize` places the region in the window it
was given (`ResizeFits`).

The same module proves of `GpgAdapter` what those results, and
`LockProtocol`'s, take for granted; to be read beside `SessionStore` its
specification is called `GpgSpec`.  `AdapterAssumption` says that `None` is no
number, that a pipe holds at least one piece, and that callers ask for the
operations there are; `KeyringAssumption` and `SelectorAssumption` are above.
Keyrings, sequences of requests, output and pipes are of any size:

| Theorem | Property |
|---|---|
| `ReportsStayTrue` | `ReportsAreTrue`, with `LastLineIsBelieved` (`AgentIsBelieved`) and `RejectionIsReported` (`RejectionIsTold`) for its parts |
| `ChildrenAreWaitedFor` | `ChildrenEndWell` |
| `TargetIsTheSigner` | `TargetIsSigner` |

`RepliesAreWhole` is their invariant, in three parts.  `PipesInv` counts: what a
child has still to write, what is in the pipe and what has been read are all of
its output, so when it has been reaped and the drains have ended the waiter has
read the whole of it (`AllIsRead`); and since a piece in a pipe can be read
and room in one be written to, only a child that hangs is stuck
(`OnlySlowIsStuck`).  `ReplyInv` says that what the child did is what its reply,
read by the parsers, tells (`Frank`); `AgentIsFrank` and `PassIsFrank` prove it
of every answer the agent and gpg may give, from what the parsers return: the
last line that is not blank decides (`LastLineDecides`), the first `KEYINFO`
counts (`FirstInfoCounts`), and so does the last `FAILURE`, after any number of
`KEY_CONSIDERED` (`LastFailureCounts`).  `StageInv` says that these operations
have one child only, which is therefore the one that was read.

`TargetIsTheSigner` stands on `RepliesAreWhole` and on a second invariant,
`TargetInv`, about the two children of a probe or a use.  What the first says is
true of gpg's choice (`StatusFrank`): the key that signed is a signer, a
cancelled signature means that there is one, and the last key considered heads a
block that gpg looked at.  `ListFrank` keeps what of it the second child was
started for, and `AnswerFrank` that a listing is that of the ring.  The rest is
about one listing.  `InOrderIs` shows that places sorted by rank are in order
and all there, by counting alone.  From it `BlockIs` shows that cutting the rows
at each primary gives back the blocks of the ring, each from its primary to its
last subkey, none mixed with the next.  Then `FoundIsKey` (a fingerprint finds
its key), `NewestIs` (the code's maximum is the newest signing subkey, or the
primary when there is none) and `DefaultIs` (every form of selector, forced or
not, gives gpg's key of a locked block) are compared with `Signer` case by case,
the latter two under `PrimaryIsOldest`, of which an exact selector has no need;
uniqueness of ids (`OnePlace`) is what ties a record back to its place.
`TargetInv` was checked with TLC on the constants of the run `gpg` first.

`CommandsProofs` proves every safety property of the run `commands`, for any
number of commands and of lives of the daemon, every configuration file and
every answer of Git:

| Theorem | Property |
|---|---|
| `SuccessEndedTheHold` | `OffMeansOff` |
| `RefusedStaysUnheld` | `RefusedIsNotHeld` |
| `SettingsObeyed` | `SettingsAreObeyed` |

`SettingsAssumption` and `CommandsAssumption` say that `None`, `Bad` and `Fails`
are none of the values they stand beside.  The invariant follows a request from
the command to the hold.  `ConnInv` says that a connection carries the request its command is at, and that
what a command leaves behind is a whole request, of an `on` only if its result
is `unknown`; `AskInv` that an `on` past its settings asks for what `AsWished`
says; `HoldInv` that what is held is of an `on` with the daemon's consent on its
way to it, or with the result `yes` or `unknown`.  That is why `no` is true for
ever: nothing of such a command is left that could still be applied.
`UnheldInv` is the same for successes: a consent to `off` or `lock` on its way
means that the command is in `unheld` already.

`StatusViewProofs` proves both properties of the run `status_view`, for any
number of holds and ticks, all requests and all settings of the wall clock:

| Theorem | Property |
|---|---|
| `StatusTrue` | `StatusIsTrue`, assuming `HorizonAmple` |
| `CountsDown` | `RemainingNeverGrows` |

`HorizonAmple` is, as in `KeepaliveProofs`, that the clock reaches past every
renewal; without it the daemon drops the renewal and the row still says it is
automatic.  `StatusViewAssumption` says that a request in session mode names a
keygrip, which `stored` of `activation.rs` refuses to go without.  The invariant
is about three states at once: the hold, the snapshot on its way and the rows
that were printed last.  `CountInv` says that a status of the hold now would not
show more time than the last printed, and `WayInv` the same of the snapshot on
its way, which in turn is not behind the hold; generations (`TurnInv`) tell
whether they are of one hold.  `ShownGrows` is the arithmetic: rounding to
minutes from a minute on, and seconds cut off at 59, never show more of less.
`DataInv` notes at which instant the snapshot was taken, from which
`PingIsHonest` derives that the time to the next ping is right to half a second,
and `PlanInv`, with `ClockInv`, that a session plan always has a renewal ahead.

`OffIsFinal`, `StoppingAdmitsNothing`, `PriorityRespected`, `OneDaemonServes`
and the `TypeOK` of `StatusWatch`, `LockProtocol` and `DaemonLifecycle` are
proved and stated in no run, `OneDaemonServes` only under `Settled`.  The first two also follow from
`ImplementsContract`, which the run `keepalive` checks.

Only model-checked: the liveness properties, as temporal reasoning with fairness
and ENABLED is out of the prover's reach.  Every safety property of every
passing run is a theorem.

## Not modelled

* `gpg.rs: detect` (locating tools) and the transport of the passphrase through
  the child's stdin; `--passphrase-fd` is what `right` or `wrong` abstracts.
* JSON and the request size limit; an unreadable request or answer is a case of
  `Commands`.
* TOML, the locations of files, and clap's own parsing.
* The unprotected key's activation, which touches neither cache nor store, and
  keys whose keygrip gpg does not report.
* Colours, layout, durations in words and the messages of commands; clipping and
  escape sequences of the watch.
* Errors (an enumeration), installation, release and CI scripts.
* Poisoned mutexes, as no code under a mutex panics.

## Plan

1. `Commands` with the file locks of `LockProtocol`, so that a lost handoff and
   a lock of the same key meet in one model.
2. A rename-based `bind` and a deadline test in `renew_once`, as variants in
   which the properties under Known divergences hold without their exceptions.
