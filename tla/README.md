# A TLA+ verification of responding-agent

The agent pulls a list of checks from a backend, or reads it from a file, runs
each check on its own interval, and pushes batches of results to the backend;
what it cannot deliver waits in a spool. This directory holds TLA+ models of
that program, translated from its Go source, the TLC runs that check them on
small instances, and proofs, checked by TLAPS, of the safety properties of every
module for every instance.

## The system

| Component | State | Operations | What makes it correct |
|---|---|---|---|
| Result spool, `internal/spool` | batch files or an in-memory queue; the depth `count`; the name counter `seq` | `Open`, `Add` (with `trimLocked`), `Oldest`, `Remove`, `Depth`, each under one mutex | the depth is exact; the cap drops the oldest; names sort by age; `Remove` takes what was delivered |
| Check loops, `agent.go` `runCheckLoop` | one goroutine per check, its context, its timer | run under a semaphore, drop an aborted result, hand a result over | one loop per check; slots released on every path; no aborted result; never blocked by the backend |
| Dispatcher, `agent.go` `dispatchLoop` | the batch, the backoff, `retryAt` | receive, flush, replay, post, spool, drain on shutdown | nothing vanishes; oldest first; no attempt while backing off; shutdown ends |
| Configuration, `agent.go` `Run`, `apply`, `reconcile` | the map of running checks, the cache file, `UsingCache`, `Ready` | load, validate, cache, fall back, reconcile, refresh, reload | the running checks follow the source; unchanged ones are left alone; reloads are not lost |
| Runtime configuration, `internal/config` | the `Config` of the process | `Load`, `Validate`, `DispatchEnabled` | what is accepted can drive the agent |
| Process, `cmd/responding-agent` | the run context, the signal channel | start, SIGTERM, SIGHUP, exit | a restart goes on where the last process ended |
| Backend client, `internal/dispatch` | none | fetch, post, heartbeat | (used by the above) |
| Atomic writes, `internal/fsutil` | a temporary file | write, fsync, rename, fsync of the directory | old or new content, never a part; not older than the last call that returned |
| Probes, `internal/checks` | shared HTTP clients, the echo counter `pingSeq` | http, tcp, tls, ping | the outcome is the documented one; a ping takes its own reply |
| Metrics and health, `internal/metrics`, `internal/health` | counters and gauges | count, render | the gauges tell the state |

How they interact: `Run` starts and cancels the check loops through contexts. A
loop sends a result to a bounded channel, and calls `Spool.Add` when it is full.
The dispatcher reads the channel, and calls `Oldest`, `Remove` and `Add`. All of
them write metrics. Signals reach `Run` through two channels of one place. The
spool directory and the cache file outlive the process.

What is hard: the loops and the dispatcher use the spool concurrently, and a
batch is delivered outside its lock; the process may die between any two of
those calls, and inside `Add`; calls to the operating system fail one by one; a
post may time out after the backend has stored it; the clock may be set back;
loops are cancelled while they run; a shutdown runs beside loops nobody waits
for. A loss of power takes what was not synced. Replies to pings arrive late,
twice, or belong to others, and durations and sequence numbers wrap.
`PROJECT.json` lists these hazards at their lines.

## The modules

| Module | What it is |
|---|---|
| `Spool` | `internal/spool/spool.go`, with the replay loop as its caller |
| `BoundedFifo` | what the spool promises, without files, names, clocks or counters |
| `Delivery` | the check loops from a completed run on, the channel, the dispatcher, the backend, shutdown, kill and restart; instantiates `Spool` |
| `Scheduler` | loading, caching and reconciling the configuration, the check loops up to a reported result, the semaphore, SIGHUP |
| `Outbox` | what the delivery path promises: at least once, or given up; `Delivery` implements it |
| `AtomicFile` | `WriteFileAtomic`, one system call per action, against failures, kills and losses of power |
| `Startup` | `config.Load` and `Validate`, `New`, the ticker of `Run` and the cache file across processes; extends `AtomicFile` |
| `Probes` | `internal/checks`: one run of each type of check; concurrent pings packet by packet |
| `Spool_proofs`, `Delivery_proofs`, `Scheduler_proofs`, `AtomicFile_proofs`, `Startup_proofs`, `Probes_proofs` | the theorems about the modules they are named for |
| `MCSpool`, `MCDelivery`, `MCScheduler`, `MCStartup`, `MCProbes` | the instances TLC checks |

### Spool

One call is one action, since every method holds the mutex throughout. A file is
a record of the two numbers in its name, its results, and `age`, the place of
its `Add` among all `Add`s, which the program does not keep. `held` is the batch
the replay loop has taken and not yet removed: it is what makes `Oldest`,
delivery and `Remove` three steps. `AddDisk`, `OldestDisk` and `RemoveDisk`
choose which calls fail, from the kinds in the constant `Faults`: writing,
removing, reading (or decoding), listing, and a clock set back. `Trimmed`
describes the deletions of `trimLocked` as the sets its loop can end with.
`CrashInAdd` is a death after the rename, at any point of the trim's scan
(`OldestOf`).
`Open` counts the files it finds, and starts a new sequence of names.

### Delivery

`loop[c]` is where a check loop is between a completed run and its next one, and
`d` where the dispatcher is in `dispatchLoop`, `send`, `replaySpool`,
`spoolBatch` or the drain. An action ends where another goroutine can see or
change what they share: the channel, one call of the spool, the depth gauge.
`SpoolDepth.Store(int64(spool.Depth()))` is two steps, because it is two in the
code. `outcome` records why the depth is being read, which decides where the
dispatcher goes on. The deadline `retryAt` is the Boolean `waiting`;
`BackoffExpires` is the time passing. Results are numbered as they complete;
`dropped`, `lost` and `stranded` are history: what a call logged as dropped, what
was in memory when the process died, and what a clean exit left in memory.

A failed post may or may not have reached the backend. SIGTERM is `Terminate`;
`Exit` is `main` returning after the dispatcher is done, with the loops wherever
they are. `Killed` may strike between any two steps, and inside an `Add`.

The model is of an agent with a backend and a token. Without them (dry run) the
dispatcher discards every batch.

`Outbox` counts results, and keeps which are pending, which the backend has
received and which were given up. Its refinement mapping takes as pending what is in a
loop's hands, in memory, in the spool or being posted (`Posting`); as given up
what a call logged as dropped, or what died in memory. A step that settles
results may do so for several at once, as a post or a trim of the spool does.

### Scheduler

`main` is where `Run` is: loading, caching (`"save"`), in `reconcile`, in its
`select`, or returning. `reconcile` stops and starts one loop per step, so that
its intermediate states are checked too. `served` is what the two sources hold,
and changes at any time. A loop is a slot with the check it was started with;
`stopped` are the loops whose own cancel was called, and a loop is `Cancelled` by
that or by the run context. A run that ends under a cancelled context may have
been cut short (`aborted`) or not. `asked` is history: a SIGHUP came after the
last load was answered. Both channels of a SIGHUP, `main`'s and `reloadCh`, hold
one request and are Booleans, so the number of signals needs no bound: with
`Sighups` any number is sent, and they find either channel, or both, full. A
process may be started again with the other source, on the same spool directory.

Several wake-ups may be ready in one `select`; each is a step of its own, so any
may win. The refresh interval is not a number: a tick may come in every
`select`.

### AtomicFile

`writer` is the next system call of `WriteFileAtomic`. A file is the number of
the write it holds, whether it is whole, and whether its data is on the disk.
`tmp` and `file` are what a process sees behind the two paths, and `entries` the
files that the path may name on the disk: after a rename the new one or the old
one, until the directory is synced. `CallFails` is the failure of any call up to
the rename, with the removal of the temporary file, which may fail too; a failed
sync of the directory is ignored, as in the code. `WriterDies` loses the process
and keeps what the kernel holds. `PowerLoss` picks one of `entries`, and what
was not synced may be torn. `Sweep` is `sweepTmp`. `durable` is history: the
last write that returned with its directory synced. The comment promises
durability for every call that returns; the code says, at the sync, that it is
best-effort, so the property is about those that could sync.

### Startup

`proc` follows `main`, `New` and `Run` up to the `select`. `Launch` starts a
process in any of the environments `Envs`: `Unloadable` and `Validate` decide,
line by line, whether `Load` accepts it. `SetTicker` is `time.NewTicker` and
`Ticker.Reset`, which panic unless the period is positive; `Seconds` is the
conversion of a number of seconds to a `time.Duration`, wrapping as it does.
`Fetch` with no client is the nil dereference it would be. The write-through to
the cache (`Save`) takes the steps of `AtomicFile`; `polls` records the interval
of each configuration written, so that a later process that falls back to the
cache gets the number it holds. A process may be killed, or lose power, anywhere.

### Probes

An `http`, `tcp` or `tls` probe is one step, from what the target shows (a
member of `Sights`: reached, certificate, statuses, latency) to the result; the
operators have the names of the functions. `last` is the result a loop has just
got, and `Returned` takes it away before anything else happens, so that one
variable can hold it: results do not meet inside the package. A ping is three
steps: `Send`, the packets under way (`net`), `Receive` or `NoReply`. Any packet
addressed to the agent, late or doubled, its own requests included when it pings
itself, may be given to any of its sockets, and `Accepts` is the loop's filter.
The sequence number is cut to `SeqSpace` values. `Window` bounds how many echoes
may be sent while a packet lives; without such a bound no filter by sequence
number can work, and 65536 echoes within the life of one packet are out of the
agent's reach. Restarts are left out: neither the marker nor the filter names
the process, and where the kernel hands a socket the replies to another's echoes
a new process could take one of the old. (The comment at
`internal/checks/ping.go:69` counts the echo id among what is compared; the code
sends it and relies on the kernel to compare it.)

## The runs

| Run | Checks | Instance |
|---|---|---|
| `spool_disk` | `TypeOK`, `CountMatches`, `Chronological`, the inductive invariant `SpoolInv`, `RemoveDiscardsDelivered`, with writes, removals, reads and listings failing | cap 2, 4 Adds, clock 1..3 |
| `spool_cap` | `CapAfterAdd`, `DropsOldestFirst`, and that the spool implements `BoundedFifo` (`ImplementsFifo`); writes and reads fail | as above |
| `spool_memory` | `CountMatches`, `CapAfterAdd`, `DropsOldestFirst` in memory | cap 3, 9 Adds |
| `delivery_disk` | `NothingVanishes`, `OneHolder`, `AckedOnce`, `ReplaysOldestFirst`, `NoPostWhileBackingOff`, `DrainStaysOffline`; writes fail | 2 loops, channel 1, batches of 2, cap 1, 3 results, 2 processes |
| `delivery_live` | `LoopsNeverBlock`, that delivery implements `Outbox` (`ImplementsOutbox`); `EventuallyDelivered`, `ShutdownEnds` under `FairSpec`; writes fail | 1 loop, channel 1, 2 results |
| `scheduler_safe` | `OneLoopPerCheck`, `SlotsAccounted`, `NoAbortedReport`, `ReloadNotLost`, `RunsActive`, `CacheIsActive`, `UnchangedKeepRunning`; loads fail, the process dies | 2 checks, 2 configurations (one check changes, the other stays in another place; a repeated id, an invalid entry), 1 slot of the semaphore, 3 loops, 1 change, any number of SIGHUPs, 2 processes, each with either source |
| `scheduler_live` | `ConfigConverges`, `EveryCheckRuns`, `StoppedLoopsEnd` under `FairSpec`; loads and writes of the cache fail | 1 check in two versions, which may also go, 2 loops, 1 slot of the semaphore, 2 changes, no SIGHUP |
| `startup` | `NeverTorn`, `NeverOlder`, `DrivesTheAgent`; any system call fails, the process dies, the power is lost | every combination of URL, token, token file, checks file and spool directory; integers of the environment and poll intervals of the configurations unset, negative, zero, fitting and wrapping; 2 processes, 3 writes |
| `probes` | `OwnReplyOnly`, `AsDocumented` | 2 loops, 4 echoes, 3 sequence numbers; per type of check the thresholds and sights on both sides of every edge |

Why the bounds are enough. A cap of two with four batches has a batch that is
trimmed while it is held, one that stays and one that replaces it; three clock
readings allow equal names in one process and a restart in between. Two loops
and a channel of one fill the channel, so that loop and dispatcher add to the
spool at once; three results and batches of two make a full batch and a partial
one. A process restarts at least once in the runs about restarts. Three loops
for two checks allow a stopped loop to outlive its successor; one slot makes
them compete. `scheduler_live` has no SIGHUP: one asks for a load that the
refresh ticker may ask for in every `select` anyway. The payloads of batches are
not told apart by any property, so there is one in `MCSpool`. In the runs of
`Delivery` there are as many `Add`s as results, and by `SpoolNeverBlocks` that
bound cuts none off. Three writes and two processes have a write that replaces
another, fails, dies or loses power half-way, one that follows it, and a process
that reads what they left. Four echoes over three sequence numbers have one
number used twice, with two loops waiting. Small units stand for the 64 bits of
a duration: in `startup` a number of seconds that fits, one that wraps to a
negative and one that wraps to a positive duration; in `probes` a timeout and a
threshold that wrap.

`CHECK_DEADLOCK FALSE` is set in every run: the bounds (batches, results,
changes, processes) are guards, and an instance stops when they are used up.
What must go on is stated by the liveness properties instead.

### What does not hold

Three runs show a statement of the repository that its code does not keep;
`PROJECT.json` quotes each one under `findings`.

- `spool_memory_remove`: in memory, `Remove` pops the head of the queue. If the
  delivered batch was trimmed meanwhile, the head is another batch, and it is
  gone, undelivered and unlogged.
- `delivery_shutdown`: a loop past its `ctx.Err()` check sends its result to the
  channel after the drain, and the result dies with the process.
- `delivery_stuck_remove`: a batch file that cannot be removed is replayed for
  ever; the dispatcher no longer sees its context, and `Run` does not return.

Met while modelling, and without a run of its own: the depth gauge can stay wrong
while the agent is idle, since it is read and stored without a lock and an empty
spool is not looked at again; a checks file that cannot be read at the start
gives way to the configuration a backend sent to an earlier process, which is
the fallback as designed; and a poll interval of more seconds than a
`time.Duration` holds panics in `Ticker.Reset`, and again from the cache in the
next process that finds no backend (`DrivesTheAgent` excepts such numbers, with
`Fits`).

### Fairness

`Delivery!FairSpec`: the goroutines that can go on do so (weak fairness of each
loop and of the dispatcher: the Go scheduler is fair, the spool's calls return,
and a post ends within `dispatchTimeout`). Go picks among the ready cases of a
`select` at random, hence the strong fairness of the dispatcher's three cases,
which may be ready again and again and not always. The deadline of the backoff
passes. Nothing is assumed of the backend, of signals or of the process living:
the properties that need a backend that recovers, or a process that goes on, say
so in their premise.

`Scheduler!FairSpec`: `Run` goes on (loads end by the client's timeout, the
refresh ticker ticks), each loop does, a loop that meets its cancelled context in
`select` again and again takes that case, and the senders to the semaphore are
served in turn, as the Go runtime serves those blocked on a channel.

## The proofs

The six proof modules prove, for every value of the constants:

| Module | Theorem | Assumes | Property |
|---|---|---|---|
| `Spool_proofs` | `SpoolTypeCorrect` | nothing | `TypeOK` |
| | `SpoolInvariant` | on disk, the clock is not set back | `SpoolInv` |
| | `DepthIsExact` | the same | `CountMatches` |
| | `NamesChronological` | the same | `Chronological` |
| | `CapHolds` | on disk, removals and listings work | `CapAfterAdd` |
| | `OldestAreDropped` | on disk, removals and listings work, the clock is not set back | `DropsOldestFirst` |
| | `OnlyDeliveredRemoved` | on disk, the clock is not set back; in memory, there is no cap | `RemoveDiscardsDelivered` |
| | `HeldIsRemovedFirst` | on disk, the clock is not set back | `RemoveTakesHeld` (stated there) |
| | `SpoolIsFifo` | on disk, removals and listings work, the clock is not set back; in memory, there is no cap | `ImplementsFifo` |
| | `DepthNeverLow` | nothing | `DepthNotLow` (stated there) |
| | `CallsAlwaysEnd` | the clock has a reading | `CallsEnd` (stated there) |
| `Delivery_proofs` | `UsesSpool` | nothing | the specification of `Spool` |
| | `DeliveryInvariant`, `DeliveryTypeCorrect` | nothing | `TypeOK` |
| | `HeldByOne` | nothing | `OneHolder` |
| | `BackoffIsKept` | nothing | `NoPostWhileBackingOff` |
| | `DrainSendsNothing` | nothing | `DrainStaysOffline` |
| | `AcknowledgedOnce` | on disk, removals work | `AckedOnce` |
| | `OldestReplayedFirst` | on disk, the clock is not set back, and reads or removals work | `ReplaysOldestFirst` |
| | `NoneVanishes`, `DeliveryIsOutbox` | on disk, the clock is not set back, and reads work; in memory, there is no cap | `NothingVanishes`, `ImplementsOutbox` |
| | `AgentSpoolIsFifo` | as `SpoolIsFifo` | `ImplementsFifo` of its spool |
| | `AgentDepthNeverLow` | nothing | `DepthNotLow` of its spool |
| | `SpooledOnce` | nothing | `AddedOnce` (stated there) |
| | `SpoolNeverBlocks` | the clock has a reading; `MaxResults <= MaxAdds` | `SpoolReady` (stated there) |
| | `DrainEnds` | nothing | `DrainAdvances` (stated there) |
| `Scheduler_proofs` | `SchedulerInvariant`, `SchedulerTypeCorrect` | nothing | `TypeOK` |
| | `OneLoopForEach` | nothing | `OneLoopPerCheck` |
| | `SemaphoreExact` | nothing | `SlotsAccounted` |
| | `AbortsAreDropped` | nothing | `NoAbortedReport` |
| | `ReloadsAreKept` | nothing | `ReloadNotLost` |
| | `LoopsRunActive` | nothing | `RunsActive` |
| | `UnchangedUndisturbed` | nothing | `UnchangedKeepRunning` |
| | `CacheKeptCurrent` | there is a cache, and writes of it succeed | `CacheIsActive` |
| | `ReconcileEnds` | nothing | `ReconcileShrinks`, `ReconcileFinite` (stated there) |
| `AtomicFile_proofs` | `FileInvariant`, `FileNeverTorn`, `FileNeverOlder` | nothing | `NeverTorn`, `NeverOlder` |
| `Startup_proofs` | `ImplementsFile` | nothing | the specification of `AtomicFile` |
| | `CacheNeverTorn`, `CacheNeverOlder` | nothing | `NeverTorn`, `NeverOlder` |
| | `StartInvariant`, `StartTypeCorrect`, `AcceptedDrives` | nothing | `TypeOK`, `DrivesTheAgent` |
| `Probes_proofs` | `ProbesInvariant`, `ProbesTypeCorrect` | nothing | `TypeOK` |
| | `RepliesNotMixedUp` | nothing | `OwnReplyOnly` |
| | `OutcomesDocumented` | nothing | `AsDocumented` |

A premise about "on disk" alone asks nothing of a spool in memory, so the
theorem covers both. "Stated there": the property is stated beside its theorem,
and no run checks it. "Nothing" is nothing beyond the `ASSUME`s of the modules. These give the
constants their types, so that every fault may happen, and in `Probes` say two
things of the environment: no more than `SeqSpace` echoes are sent in the life of
a packet (`Window`), and no packet of another program carries the marker of an
echo of this process (`Strays`).

### The spool

Each premise is needed. On disk, file names are wall clock readings: with the kind
`"clock"` among the faults a new file may sort before older ones, and the cap
drops it instead of them. `spool_memory_remove` shows `Remove` in memory with a
cap, and the cap cannot be kept when nothing can be deleted.

The argument. That the count is exact and that names sort by age are not
inductive by themselves. `SpoolInv` adds that every name in the directory, and
the name of the held batch, was issued before the next one (`NamesIssued`,
`HeldKeepsName`): by an earlier clock reading, or by the same reading and a lower
sequence number in the same process. A new process starts its sequence again, so
the reading must have moved on, which is why `Open` needs a later clock. With it
a new file never replaces another (`NewFileIsLast`), so that `count + 1` is right
after a write, and the held batch is the only file of its name, so that `Remove`
cannot take another. Ages are bounded by the number of `Add`s, so the new file is
also the youngest. `DiskAddTrims` then counts what `trimLocked` leaves, and
`MemAddTrims` what is left of the queue in memory. Without a directory there are no files
(`NoFilesInMemory`), which is why the clock does not matter there. `InvStep` has one step per
action; the effects of the four long ones are lemmas.

`SpoolIsFifo` maps a directory to the set of its batches' ages (`Numbers`). What
it needs beyond `SpoolInv` is that an age tells a batch (`AgesTell`): the held
batch shares its own with no file, also after a trim has taken its file, so that
`Remove` by name is the removal of one number. Each call has a lemma that names
the step of `BoundedFifo` it is (`AddPuts`, `OldestTakes`, `RemoveDiscards`,
`CrashInAddRestarts`).

In memory the held batch is the head of the queue, or else the cap has dropped it
(`HeldAtHead`). Without a cap it is the head, so that `Remove`, which pops the
head, removes the right one, and the queue is a `BoundedFifo` as well. With one,
`HeldIsRemovedFirst` says how far the code goes wrong: a batch is removed in the
place of another only when that other was dropped before.

What survives a clock set back. The new name may then be one that is already
there; the rename replaces the older file, and the depth is one too high.
`DepthInv` shows that it is never too low, whatever fails: the replay, which is
skipped at a depth of zero, hides no batch, and `trimLocked`, which counts
by listing, still keeps the cap (`CapHolds`).

`CallsAlwaysEnd` is about the model as much as about the code. A call of the
spool whose result no choice satisfies could not be taken, and all that is
proved about it would be empty. It shows that there is a result for every
directory and every set of files that cannot be deleted: names differ
(`NamesDiffer`), so that they are in a total order (`BeforeTotal`), a finite set
of them has a first (`FirstExists`), and `trimLocked` deletes the oldest it can
until the cap is kept or none is left that it can delete (`TrimEnds`).

TLC checks `SpoolInv` and each property of a run first, in `spool_disk` and
`spool_cap`.

### The delivery path

`UsesSpool` shows that the loops and the dispatcher, whatever their interleaving,
call the spool as its specification allows; each action of `Delivery` that calls
it takes one step of `Spool`. All that is proved of the spool then holds inside
the agent; in particular `SpoolInv` may be used at every step, under its own
premise, and the loops and the dispatcher together see a `BoundedFifo`
(`AgentSpoolIsFifo`) whose depth hides nothing (`AgentDepthNeverLow`).

`DeliveryInv` has five parts, the types first. `HandsMatch` says that a loop holds a result
exactly while it hands it over. `Phases` says what the dispatcher can be holding
in each phase, and that neither a backoff nor a drain is compatible with a phase
that posts, which is all of `BackoffIsKept` and `DrainSendsNothing`. `Counted`
and `Apart` say where the results are. `OneHolder` is not inductive: it says
nothing of the batch that was handed out by `Oldest`, whose file a trim may
remove while it is posted, nor that one list or two batches of the spool do not
hold a result twice. `Apart` adds these, with the held batch counted among the
spooled ones (`Spooled`). `MovesStep` first shows that each action is one of eight
moves of results between those who hold them, and `ApartStep` then has eight
cases.

`AcknowledgedOnce` strengthens its property to `Unacked`: no acknowledged result
is held anywhere, except in the batch that is about to be removed. The removal
must succeed: with a removal that fails the same process posts the batch again,
as `delivery_stuck_remove` shows. In memory `Remove` takes the head, which may be
another batch, but then this one is gone already: it was the oldest
(`HeldOldest`), so while it is in the queue it is the head.

`NoneVanishes` and `DeliveryIsOutbox` rest on `ReplayKeeps`: a batch is removed
only when the backend has received it, and a batch that is being posted is still
stored or was dropped by the cap, which logged it. `OutboxStep` shows, action by
action, that what leaves the agent's hands has been received or given up. A
file that cannot be read is deleted by `Oldest` without a count, so its results
would vanish, and with the clock set back `Remove` by name might take a newer
batch: hence the premises. In memory without a cap nothing is trimmed, and the
batch being posted stays at the head (`HeldAtHead`); with a cap
`spool_memory_remove` shows the loss.

`SpooledOnce` is a conservation law. A result that was counted and not yet added
to the spool is in a loop, in the channel, or in the dispatcher's hands
(`Unspooled`), and a replayed batch never goes back; so each `Add` spends one
(`Conserved`). It is used in `SpoolNeverBlocks`: with as many `Add`s as results the
bound `MaxAdds` is never reached by one who wants to add. That theorem collects
the conditions of an `Add` by a loop or by the dispatcher: the process is up, the
results are a batch the spool takes, and the call has a result
(`CallsAlwaysEnd`). They are the guards that `LoopsNeverBlock` speaks of with
ENABLED.

`DrainEnds` is what a proof of `ShutdownEnds` would rest on. Nothing is counted
once the dispatcher drains, so the loops can only give away what they have;
the dispatcher, at every step, takes one of finitely many results out of the
channel, or goes from draining to spooling, to the two steps of the gauge, and to
its end, never back.

`OldestReplayedFirst` needs only the spool (`HeldOldest`), in memory and on disk.
A file that can neither be read nor removed stays while younger ones are
replayed, and is replayed after them if it can be read later; TLC finds this with
both kinds of fault, so the theorem excludes one of them.

### The scheduler

`OneLoopPerCheck` and `SlotsAccounted` are parts of the inductive invariant as
they stand: every step that starts, stops or ends a loop keeps the map and the
loops in one-to-one correspondence (`RunningInjective`), and a run holds its
slot until it reports or drops its result. `NoAbortedReport` is not; what is
inductive is that the loop of a run that was cut short is cancelled and remains
so until it looks at its context (`AbortedCancelled`, `CancelledStays`).

`RunsActive` needs to know when the map follows the configuration. During a
reconcile it does not; `LoopsFollowActive` says it does outside of one, and
`ReconcileDone` that it does again when nothing is outdated and nothing missing.
For that the wanted checks of a validated list must have different ids
(`WantedOnce`), and every configuration that is loaded, cached or applied must be
a validated list (`ConfigsTyped`). `CacheMetric` says where in the cycle the
metric is already about the configuration being applied. `CacheKeptCurrent` adds
that the cache follows (`CacheFollows`); a write that fails leaves the cache
behind, which the code accepts, hence its premise.

`UnchangedUndisturbed` says that no loop is begun for a check which the last
applied configuration already wanted. A loop is begun for what is `Missing`, so
the argument is about all the steps before it: when a reconcile begins,
`LoopsFollowActive` gives each check wanted by both configurations its loop
(`AppliedRun`), and no step of the reconcile, of a loop or of the outside takes it
away before the reconcile is done (`KeptInPlace`, `KeptStep`). In particular what
is stopped has no id in common with what is kept, whatever the list repeats
(`WantedOnce`), and a loop that is not stopped does not end.

`ReconcileEnds` gives the measure by which a reconcile ends: each of its steps
makes the set of loops to stop (`Outdated`) smaller, or, once that is empty, the
set of those to start (`Missing`), and nothing else enlarges either while it goes
on. Both are finite, since the map and a list of checks are.

### The probes

Every packet under way carries, twice, the number of the echo it belongs to
(`PacketsMarked`), and a waiting ping and any packet it may be given belong to
echoes of one window (`WithinWindow`). Two numbers less than `SeqSpace` apart
with the same remainder are the same number (`SeqInjective`), so that a reply
`Accepts` lets through is the reply to that very echo; `OwnTarget` says it came
from the target. The remainder is the only arithmetic the solvers do not do
themselves; `ModBound`, `ModSmall` and `ModInjective` derive what is needed from
its definition.

`OutcomesDocumented` has one lemma per runner, that each return gives a
documented outcome; durations that wrap are excluded by `Fits`, as in the run
(what they do instead is not stated by any property).

### The cache file and the start

That the path never names a torn or an old file is not inductive: the next step
may be a rename of anything, or a loss of power. `FileInv` says of every file the
path may name on the disk that it is whole, synced and not older than `durable`
(`Good`), and of the writer that what it has done by now to the temporary file
is in the file (`Progress`): by the rename it is whole and synced, so the rename
adds a good entry, and a loss of power changes none (`GoodIsLeft`).

`ImplementsFile` shows that every step of `Startup` is one of `AtomicFile` or
leaves the file alone: there is one writer at a time, the next one begins after
the last has ended, and the sweep runs while nothing is written. The two
guarantees of the file follow for the cache across any number of processes.

`AcceptedDrives` needs of a running process that it has a checks file or a
client, which is what `Validate` leaves (`Accepted`), that the seconds the
ticker is first set to are positive, and that the cached configuration it falls
back to is one that was written, which is where `FileInv` is used again. The
arithmetic is in `SecondsBounded` and `NoWrap`: a positive number of seconds
that fits gives a positive period, so that only the others panic.

### What stays with TLC

Liveness: tlapm proves nothing about ENABLED, hence nothing under fairness
(`EventuallyDelivered`, `ShutdownEnds`, `ConfigConverges`, `EveryCheckRuns`,
`StoppedLoopsEnd`). What two of them rest on is proved: each step of a drain
(`DrainEnds`) and of a reconcile (`ReconcileEnds`) leaves less to do. What is left
to TLC is that such a step is taken.

For the same reason `LoopsNeverBlock`, which says that an action is enabled. What
is proved is that its guards hold (`SpoolNeverBlocks`); that the guards are all
there is to ENABLED is what TLC checks.

In memory with a cap `RemoveDiscardsDelivered`, `NothingVanishes` and the two
refinements are neither proved nor checked: `spool_memory_remove` shows why the
code does not keep them.

## Not modelled

The heartbeat and the health server, which keep no state but a counter and read
the metrics; the counters of the metrics and their text format; the widths of
the check interval and of the jitter; flags and logging; the encodings; inside a
probe the requests, name resolution and handshakes of the standard library.
Packaging has no behaviour. `Spool` and `Scheduler` take an atomic write as one
step; `AtomicFile` is the justification. A batch the backend rejects for good is
not modelled: in `EventuallyDelivered` a healthy backend accepts every batch.

## Plan

1. Done: the modules `Spool` with `BoundedFifo`, `Delivery` with `Outbox`,
   `Scheduler`, `AtomicFile`, `Startup`, `Probes`, and the runs.
2. Done: the proofs of every safety property of the runs, `LoopsNeverBlock` in
   the form of its guards, of both refinements, in memory as far as the code
   keeps them, and of the measures behind `ShutdownEnds` and `ConfigConverges`.
3. Left, and out of the prover's reach: the liveness properties themselves.
