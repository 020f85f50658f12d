----------------------------- MODULE Scheduler -----------------------------
(***************************************************************************)
(* What runs the checks, in internal/agent/agent.go: Run loads the check   *)
(* configuration (from the backend, or from a checks file), falls back to  *)
(* the cached one when the first load fails, and reconciles the running    *)
(* check loops with it, at the start, on every poll tick and on SIGHUP.    *)
(* Each check loop is a goroutine with a context of its own; a semaphore   *)
(* bounds how many run their check at once.                                *)
(*                                                                         *)
(* The goroutines are Run, one loop per started check and the one that     *)
(* turns SIGHUP into Reload.  What follows a reported result is module     *)
(* Delivery.                                                               *)
(***************************************************************************)
EXTENDS Integers, Sequences, FiniteSets

CONSTANTS
    Configs,              \* check lists a source may serve
    Unreadable,           \* a source that cannot be read, or not decoded
    Modes,                \* sources a process may be started with
    HasCache,             \* a spool directory is configured
    MaxConcurrentChecks,  \* capacity of the semaphore
    MaxLoops,             \* bound: check loops alive at once
    MaxChanges,           \* bound: changes of what the sources serve
    Sighups,              \* SIGHUPs are sent, any number of them
    MaxStarts,            \* bound: processes started
    Faults                \* what may go wrong, see FaultKinds

\* The sources cannot be read, the cache cannot be written, the process dies.
FaultKinds == {"load", "save", "crash"}

Check == UNION {{c[i] : i \in DOMAIN c} : c \in Configs}
Ids == {c.id : c \in Check}
Slots == 1..MaxLoops

ASSUME SchedulerAssumption ==
    /\ Configs \subseteq Seq(Check)
    /\ \A c \in Check : {"id", "spec", "valid"} \subseteq DOMAIN c
    /\ Unreadable \notin Configs
    /\ Modes \subseteq {"backend", "file"}
    /\ HasCache \in BOOLEAN /\ Sighups \in BOOLEAN
    /\ MaxConcurrentChecks \in Nat \ {0}
    /\ {MaxLoops, MaxChanges} \subseteq Nat
    /\ MaxStarts \in Nat \ {0}
    /\ Faults \subseteq FaultKinds

NoConfig == [from |-> "none", checks |-> <<>>]

VARIABLES
    \* the outside
    served,      \* what each source serves
    cache,       \* config-cache.json, NoConfig when there is none
    starts,      \* processes started so far
    changes,     \* changes of what is served so far
    \* the process
    up,          \* it runs
    mode,        \* its source
    cancelled,   \* the run context is cancelled
    hup,         \* a signal waits in main's channel
    reloadCh,    \* a request waits in the reload channel
    \* Run
    main,        \* where it is
    loaded,      \* the configuration being applied
    running,     \* the map of running checks: id to loop
    usingCache,  \* metrics.UsingCache
    ready,       \* metrics.Ready: some configuration was applied
    active,      \* history: the configuration last applied
    asked,       \* history: a SIGHUP came after the last load was answered
    \* the check loops
    at,          \* where each loop is
    chk,         \* the check it was started with
    stopped,     \* the loops whose own cancel was called
    aborted,     \* the loops whose run a cancelled context cut short
    inUse        \* values in the semaphore

outsideVars == <<served, changes>>
processVars == <<up, mode, starts>>
signalVars == <<hup, reloadCh, asked>>
configVars == <<cache, loaded, usingCache, ready, active>>
loopVars == <<at, aborted, inUse>>
vars == <<outsideVars, processVars, signalVars, configVars, loopVars,
          cancelled, main, running, chk, stopped>>

NoCheck == [id |-> "", spec |-> "", valid |-> FALSE]

\* A slip: the loop does not look at a context of its own.
RunContextOnly(l) == cancelled

\* A loop's context is a child of the run context.
Cancelled(l) == cancelled \/ l \in stopped

TypeOK ==
    /\ served \in [Modes -> Configs \cup {Unreadable}]
    /\ cache.from \in {"none", "backend"}
    /\ up \in BOOLEAN
    /\ mode \in {"backend", "file"}
    /\ cancelled \in BOOLEAN
    /\ hup \in BOOLEAN /\ reloadCh \in BOOLEAN
    /\ main \in {"load", "save", "reconcile", "select", "return"}
    /\ {loaded.from, active.from} \subseteq {"none", "backend", "file"}
    /\ DOMAIN running \subseteq Ids /\ \A id \in DOMAIN running : running[id] \in Slots
    /\ usingCache \in BOOLEAN /\ ready \in BOOLEAN /\ asked \in BOOLEAN
    /\ at \in [Slots -> {"none", "wait", "acquire", "run", "ran", "report"}]
    /\ chk \in [Slots -> Check \cup {NoCheck}]
    /\ stopped \subseteq Slots /\ aborted \subseteq Slots
    /\ inUse \in 0..MaxConcurrentChecks
    /\ starts \in 1..MaxStarts /\ changes \in 0..MaxChanges

Init ==
    /\ served \in [Modes -> Configs \cup {Unreadable}]
    /\ cache = NoConfig
    /\ starts = 1 /\ changes = 0
    /\ up = TRUE
    /\ mode \in Modes
    /\ cancelled = FALSE
    /\ hup = FALSE /\ reloadCh = FALSE
    /\ main = "load"
    /\ loaded = NoConfig
    /\ running = [id \in {} |-> 0]
    /\ usingCache = FALSE /\ ready = FALSE
    /\ active = NoConfig /\ asked = FALSE
    /\ at = [l \in Slots |-> "none"]
    /\ chk = [l \in Slots |-> NoCheck]
    /\ stopped = {} /\ aborted = {}
    /\ inUse = 0

-----------------------------------------------------------------------------
(* Loading the configuration: apply, up to reconcile *)

\* validateChecks.  What is left keeps its place in the list: only the order of
\* the checks matters.
Validated(checks) == [i \in {j \in DOMAIN checks : checks[j].valid} |-> checks[i]]

RunStep ==
    up /\ UNCHANGED <<outsideVars, processVars, cancelled, hup>>

\* The source answers: a checks file is applied as it is, what the backend
\* sent goes to the cache first.  A fetch needs its context.
Load ==
    /\ RunStep
    /\ main = "load"
    /\ served[mode] # Unreadable
    /\ mode = "backend" => ~cancelled
    /\ loaded' = [from |-> mode, checks |-> Validated(served[mode])]
    /\ asked' = FALSE
    /\ main' = "save"
    /\ UNCHANGED <<cache, usingCache, ready, active, reloadCh, loopVars, running,
                   chk, stopped>>

\* A slip in the write-through: only the first configuration is cached.
CachedOnce == IF mode = "backend" /\ HasCache /\ ~ready THEN loaded ELSE cache

\* The cache once saveCachedConfig has written it.
Cached == IF mode = "backend" /\ HasCache THEN loaded ELSE cache

\* saveCachedConfig, whose failures are ignored, and the branch of apply that
\* follows a load without error.
Save ==
    /\ RunStep
    /\ main = "save"
    /\ \/ cache' = Cached
       \/ "save" \in Faults /\ UNCHANGED cache
    /\ usingCache' = FALSE
    /\ main' = "reconcile"
    /\ UNCHANGED <<loaded, ready, active, reloadCh, asked, loopVars, running, chk,
                   stopped>>

\* The load failed.  Before the first configuration the cached one serves,
\* if there is one; otherwise the current checks are kept.
LoadFails ==
    /\ RunStep
    /\ main = "load"
    /\ served[mode] = Unreadable \/ (mode = "backend" /\ cancelled)
    /\ IF cache # NoConfig /\ ~ready
       THEN /\ loaded' = [cache EXCEPT !.checks = Validated(@)]
            /\ usingCache' = TRUE
            /\ main' = "reconcile"
       ELSE /\ main' = "select"
            /\ UNCHANGED <<loaded, usingCache>>
    /\ asked' = FALSE
    /\ UNCHANGED <<cache, ready, active, reloadCh, loopVars, running, chk, stopped>>

-----------------------------------------------------------------------------
(* reconcile *)

\* The checks wanted: of several with one id, the last.
Want(checks) ==
    {checks[i] : i \in {j \in DOMAIN checks :
        \A k \in DOMAIN checks : k > j => checks[k].id # checks[j].id}}

\* A slip in the comparison: the id decides.
RunsSameId(id, c) == id \in DOMAIN running /\ id = c.id

Runs(id, c) == id \in DOMAIN running /\ chk[running[id]] = c

\* A slip in reconcile: once one check is gone or changed, all are restarted.
RestartsAll ==
    IF \E id \in DOMAIN running : ~\E c \in Want(loaded.checks) : Runs(id, c)
    THEN DOMAIN running ELSE {}

\* The running checks to stop: gone from the configuration, or changed.
Outdated == {id \in DOMAIN running : ~\E c \in Want(loaded.checks) : Runs(id, c)}

\* The wanted checks to start, once the outdated ones are gone.
Missing == {c \in Want(loaded.checks) : c.id \notin DOMAIN running}

Without(f, x) == [y \in DOMAIN f \ {x} |-> f[y]]
With(f, x, v) == [y \in DOMAIN f \cup {x} |-> IF y = x THEN v ELSE f[y]]

\* A slip in reconcile: the loop is forgotten and not cancelled.
NoCancel(l) == stopped

\* The cancel function of the map.
Cancel(l) == stopped \cup {l}

StopOne ==
    /\ RunStep
    /\ main = "reconcile"
    /\ \E id \in Outdated :
         /\ stopped' = Cancel(running[id])
         /\ running' = Without(running, id)
    /\ UNCHANGED <<main, configVars, reloadCh, asked, loopVars, chk>>

\* No goroutine is in the slot, and the map does not name it.
Free(l) == at[l] = "none" /\ \A id \in DOMAIN running : running[id] # l

\* A goroutine starts in a slot that is free, its context not yet cancelled.
StartOne ==
    /\ RunStep
    /\ main = "reconcile"
    /\ Outdated = {}
    /\ \E c \in Missing, l \in Slots :
         /\ Free(l)
         /\ \A k \in Slots : Free(k) => l <= k
         /\ running' = With(running, c.id, l)
         /\ at' = [at EXCEPT ![l] = "wait"]
         /\ chk' = [chk EXCEPT ![l] = c]
         /\ stopped' = stopped \ {l}
    /\ UNCHANGED <<main, configVars, reloadCh, asked, aborted, inUse>>

\* reconcile is done; the reload is counted.
Applied ==
    /\ RunStep
    /\ main = "reconcile"
    /\ Outdated = {} /\ Missing = {}
    /\ ready' = TRUE
    /\ active' = loaded
    /\ main' = "select"
    /\ UNCHANGED <<cache, loaded, usingCache, reloadCh, asked, loopVars, running,
                   chk, stopped>>

-----------------------------------------------------------------------------
(* The select of Run *)

RefreshTick ==
    /\ RunStep
    /\ main = "select"
    /\ main' = "load"
    /\ UNCHANGED <<configVars, reloadCh, asked, loopVars, running, chk, stopped>>

TakeReload ==
    /\ RunStep
    /\ main = "select"
    /\ reloadCh
    /\ reloadCh' = FALSE
    /\ main' = "load"
    /\ UNCHANGED <<configVars, asked, loopVars, running, chk, stopped>>

\* Every loop is cancelled; Run then waits for the dispatcher.
Shutdown ==
    /\ RunStep
    /\ main = "select"
    /\ cancelled
    /\ stopped' = stopped \cup {running[id] : id \in DOMAIN running}
    /\ main' = "return"
    /\ UNCHANGED <<configVars, reloadCh, asked, loopVars, running, chk>>

Run ==
    \/ Load \/ LoadFails \/ Save
    \/ StopOne \/ StartOne \/ Applied
    \/ RefreshTick \/ TakeReload \/ Shutdown

-----------------------------------------------------------------------------
(* runCheckLoop *)

LoopStep == up /\ UNCHANGED <<outsideVars, processVars, signalVars, configVars,
                              cancelled, main, running>>

\* The jitter or the interval passes.
Due(l) ==
    /\ LoopStep
    /\ at[l] = "wait"
    /\ at' = [at EXCEPT ![l] = "acquire"]
    /\ UNCHANGED <<aborted, inUse, chk, stopped>>

\* A wait sees the cancelled context instead: the goroutine ends.
End(l) ==
    /\ LoopStep
    /\ at[l] = "wait"
    /\ Cancelled(l)
    /\ at' = [at EXCEPT ![l] = "none"]
    /\ chk' = IF l \in stopped THEN [chk EXCEPT ![l] = NoCheck] ELSE chk
    /\ stopped' = stopped \ {l}
    /\ UNCHANGED <<aborted, inUse>>

\* A slip: the semaphore is one larger.
HasSlotOffByOne == inUse <= MaxConcurrentChecks

HasSlot == inUse < MaxConcurrentChecks

Acquire(l) ==
    /\ LoopStep
    /\ at[l] = "acquire"
    /\ HasSlot
    /\ inUse' = inUse + 1
    /\ at' = [at EXCEPT ![l] = "run"]
    /\ UNCHANGED <<aborted, chk, stopped>>

\* The run is given up before it has begun.
Leave(l) ==
    /\ LoopStep
    /\ at[l] = "acquire"
    /\ Cancelled(l)
    /\ at' = [at EXCEPT ![l] = "wait"]
    /\ UNCHANGED <<aborted, inUse, chk, stopped>>

\* A slip: a cancelled run returns without releasing the semaphore.
FreedUnlessCancelled(l) == IF Cancelled(l) THEN inUse ELSE inUse - 1

\* The semaphore once l has released it.
Freed(l) == inUse - 1

\* Runner.Run returns, whatever the check did, panics included.  If the context
\* was cancelled meanwhile the result may reflect that, not the target.
Ran(l) ==
    /\ LoopStep
    /\ at[l] = "run"
    /\ \/ UNCHANGED aborted
       \/ Cancelled(l) /\ aborted' = aborted \cup {l}
    /\ inUse' = Freed(l)
    /\ at' = [at EXCEPT ![l] = "ran"]
    /\ UNCHANGED <<chk, stopped>>

\* A slip: a result is only dropped at shutdown.
DropsAtShutdown(l) == cancelled

\* The result of a run whose context is cancelled by now is dropped.
Drops(l) == Cancelled(l)

DropOrKeep(l) ==
    /\ LoopStep
    /\ at[l] = "ran"
    /\ IF Drops(l)
       THEN at' = [at EXCEPT ![l] = "wait"] /\ aborted' = aborted \ {l}
       ELSE at' = [at EXCEPT ![l] = "report"] /\ UNCHANGED aborted
    /\ UNCHANGED <<inUse, chk, stopped>>

\* RecordResult counts the result and Delivery has it from there.
Report(l) ==
    /\ LoopStep
    /\ at[l] = "report"
    /\ at' = [at EXCEPT ![l] = "wait"]
    /\ UNCHANGED <<aborted, inUse, chk, stopped>>

Loop(l) ==
    \/ Due(l) \/ End(l)
    \/ Acquire(l) \/ Leave(l)
    \/ Ran(l) \/ DropOrKeep(l) \/ Report(l)

-----------------------------------------------------------------------------
(* Signals, the sources and the process *)

\* What a source serves changes, or it cannot be read any more.
Change ==
    /\ changes < MaxChanges
    /\ changes' = changes + 1
    /\ \E m \in Modes, c \in Configs \cup (IF "load" \in Faults THEN {Unreadable}
                                                                ELSE {}) :
         /\ c # served[m]
         /\ served' = [served EXCEPT ![m] = c]
    /\ UNCHANGED <<processVars, signalVars, configVars, loopVars, cancelled, main,
                   running, chk, stopped>>

\* SIGHUP: main's channel holds one, signal.Notify drops what does not fit.
Sighup ==
    /\ up
    /\ Sighups
    /\ hup' = TRUE
    /\ asked' = TRUE
    /\ UNCHANGED <<outsideVars, processVars, reloadCh, configVars, loopVars,
                   cancelled, main, running, chk, stopped>>

\* A slip in Reload: what a full channel holds is taken out instead of left.
Emptied == ~reloadCh

\* The channel holds one request until Run takes it; a full one stays full.
Queued == TRUE

\* The signal goroutine calls Reload, which never blocks.
Reload ==
    /\ up
    /\ hup
    /\ hup' = FALSE
    /\ reloadCh' = Queued
    /\ UNCHANGED <<outsideVars, processVars, asked, configVars, loopVars,
                   cancelled, main, running, chk, stopped>>

Terminate ==
    /\ up
    /\ ~cancelled
    /\ cancelled' = TRUE
    /\ UNCHANGED <<outsideVars, processVars, signalVars, configVars, loopVars,
                   main, running, chk, stopped>>

\* The process ends: Run has returned, or it was killed.
Gone ==
    /\ up
    /\ main = "return" \/ "crash" \in Faults
    /\ up' = FALSE
    /\ cancelled' = FALSE
    /\ hup' = FALSE /\ reloadCh' = FALSE /\ asked' = FALSE
    /\ main' = "load"
    /\ loaded' = NoConfig /\ active' = NoConfig
    /\ running' = [id \in {} |-> 0]
    /\ usingCache' = FALSE /\ ready' = FALSE
    /\ at' = [l \in Slots |-> "none"]
    /\ chk' = [l \in Slots |-> NoCheck]
    /\ stopped' = {} /\ aborted' = {} /\ inUse' = 0
    /\ UNCHANGED <<outsideVars, mode, starts, cache>>

\* It is started again, perhaps with the other source.
Start ==
    /\ ~up
    /\ starts < MaxStarts
    /\ starts' = starts + 1
    /\ up' = TRUE
    /\ mode' \in Modes
    /\ UNCHANGED <<outsideVars, signalVars, configVars, loopVars, cancelled, main,
                   running, chk, stopped>>

Next ==
    \/ Run
    \/ \E l \in Slots : Loop(l)
    \/ Change \/ Sighup \/ Reload \/ Terminate \/ Gone \/ Start

Spec == Init /\ [][Next]_vars

\* Every goroutine that can go on does: a load and a check end by their
\* timeouts, and the tickers tick.  The select of a loop that sees a cancelled
\* context again and again takes that case in the end, and a goroutine that
\* waits for the semaphore is served in turn.
FairSpec ==
    /\ Spec
    /\ WF_vars(Run)
    /\ \A l \in Slots :
          WF_vars(Loop(l)) /\ SF_vars(Acquire(l)) /\ SF_vars(End(l))

-----------------------------------------------------------------------------
(* Properties *)

Running == {l \in Slots : at[l] = "run"}

\* At any time, in the middle of a reconcile too, the loops that are alive and
\* not cancelled are exactly those of the map, one for each check id: no check
\* runs twice, and no loop is left that nothing can stop.
OneLoopPerCheck ==
    /\ \A l \in Slots : at[l] # "none" /\ l \notin stopped
          => \E id \in DOMAIN running : running[id] = l
    /\ main # "return" => \A id \in DOMAIN running :
          LET l == running[id]
          IN  chk[l].id = id /\ l \notin stopped /\ (at[l] = "none" => cancelled)

\* "A concurrency semaphore bounds how many checks execute at once": the
\* semaphore holds one value for each check that executes, and none for a loop
\* that was cancelled while it waited or ran.
SlotsAccounted ==
    /\ inUse = Cardinality(Running)
    /\ inUse <= MaxConcurrentChecks

\* A run that a config refresh or the shutdown aborted is never reported: the
\* result "reflects the abort, not the target".
NoAbortedReport == \A l \in Slots : at[l] = "report" => l \notin aborted

\* "Reload ... never blocks: a refresh is already pending if the channel is
\* full": a SIGHUP that finds both channels full is still followed by a load
\* that is answered after it.
ReloadNotLost ==
    asked => hup \/ reloadCh \/ main \in {"load", "return"}

\* Between two applies the process runs what it last applied, whichever loads
\* failed since, and the metric "1 when the active config came from the on-disk
\* cache" tells where that came from.
RunsActive ==
    main = "select" /\ ~cancelled =>
        /\ {chk[running[id]] : id \in DOMAIN running} = Want(active.checks)
        /\ ready <=> active # NoConfig
        /\ usingCache => active = cache

\* A process that cannot reach the backend at its start goes on with what the
\* last one ran, when the cache could be written.
CacheIsActive ==
    main = "select" /\ active.from = "backend" => cache = active

\* "leaves unchanged checks running so their ticker phase is preserved": while the
\* next configuration is loaded and reconciled, no loop is started for a check
\* that the last one applied already wanted.  So with RunsActive, which has such a
\* check running before and after, it is the same loop that ran it all along,
\* through failed loads, repeated ids, invalid checks and other checks' restarts.
Begins(id) == id \in DOMAIN running' /\ (id \in DOMAIN running => running'[id] # running[id])

UnchangedKeepRunning ==
    [][\A id \in Ids : Begins(id) => chk'[running'[id]] \notin Want(active.checks)]_vars

\* What the source serves in the end is what runs in the end, although loads
\* failed and configurations came and went.
ConfigConverges ==
    (<>[](up /\ ~cancelled) /\ <>[][UNCHANGED served]_served) =>
        \A m \in Modes, c \in Configs :
            <>[](mode = m /\ served[m] = c) =>
                <>[]({chk[running[id]] : id \in DOMAIN running}
                        = Want(Validated(c)))

\* Every check keeps being run: a loop that waits for the semaphore, behind
\* loops that are cancelled meanwhile, has its turn.
EveryCheckRuns ==
    \A l \in Slots : at[l] = "acquire" ~> at[l] \in {"run", "wait", "none"}

\* A loop that was stopped ends, and frees what it held.
StoppedLoopsEnd ==
    \A l \in Slots : l \in stopped ~> at[l] = "none"
=============================================================================
