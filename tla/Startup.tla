------------------------------ MODULE Startup ------------------------------
(***************************************************************************)
(* From the environment to the first configuration, and again after every  *)
(* end of the process: internal/config/config.go reads and validates the   *)
(* environment, main and New build the agent on it, spool.Open sweeps the  *)
(* directory, and Run sets its ticker, loads the check configuration and   *)
(* writes it through to the cache file with WriteFileAtomic, whose steps   *)
(* module AtomicFile gives.  What the checks then do is module Scheduler.  *)
(***************************************************************************)
EXTENDS AtomicFile, Sequences

CONSTANTS
    Envs,       \* environments the process may be started in
    Polls,      \* pollIntervalSeconds a source may serve
    Unset,      \* a variable of the environment that is not set
    NoURL,      \* no backend URL
    Second,     \* a second, in units of time.Duration
    Half,       \* time.Duration holds -Half..Half - 1
    MaxStarts   \* bound: processes started

\* What the integers are when the environment does not set them.
IntDefaults == [poll |-> 1, spoolMax |-> 1, maxConcurrent |-> 1]

ASSUME StartupAssumption ==
    /\ \A e \in Envs :
         /\ e.token \in {"", "secret"}
         /\ e.tokenFile \in {"unset", "unreadable", "blank", "secret"}
         /\ e.checksFile \in BOOLEAN
         /\ e.spoolDir \in {"", "usable", "unusable"}
         /\ \A i \in DOMAIN IntDefaults : e.ints[i] = Unset \/ e.ints[i] \in Int
    /\ Polls \subseteq Int
    /\ Second \in Nat \ {0} /\ Half \in Nat \ {0}
    /\ MaxStarts \in Nat

VARIABLES
    proc,      \* where main and Run are, "off" when there is no process
    cfg,       \* the runtime configuration of the process
    client,    \* it has a dispatch client
    ready,     \* it has applied a configuration
    poll,      \* the seconds its ticker is set, or about to be set, to
    interval,  \* the period of the refresh ticker
    polls,     \* the seconds in each configuration written to the cache
    panic,     \* why the last process panicked, "none" if it did not
    starts     \* processes started so far

vars == <<proc, cfg, client, ready, poll, interval, polls, panic, starts, fileVars>>

NoCfg == [url |-> NoURL, token |-> "", checksFile |-> FALSE, spoolDir |-> "",
          ints |-> IntDefaults]

TypeOK ==
    /\ FileTypeOK
    /\ proc \in {"off", "new", "run", "load", "save", "apply", "select"}
    /\ {client, ready, cfg.checksFile} \subseteq BOOLEAN
    /\ cfg.token \in {"", "secret"} /\ cfg.spoolDir \in {"", "usable", "unusable"}
    /\ \A i \in DOMAIN cfg.ints : cfg.ints[i] \in Nat \ {0}
    /\ poll \in Nat \cup Polls /\ interval \in 0..(Half - 1)
    /\ polls \in Seq(Polls) /\ Len(polls) = writes
    /\ panic \in {"none", "nil", "ticker"}
    /\ starts \in 0..MaxStarts

Init ==
    /\ FileInit
    /\ proc = "off" /\ cfg = NoCfg
    /\ client = FALSE /\ ready = FALSE
    /\ poll = 0 /\ interval = 0
    /\ polls = <<>>
    /\ panic = "none"
    /\ starts = 0

-----------------------------------------------------------------------------
(* config.Load *)

\* A token file overrides the token; its white space is trimmed.
Token(e) ==
    CASE e.tokenFile = "unset" -> e.token
      [] e.tokenFile = "blank" -> ""
      [] OTHER                 -> e.tokenFile

\* A slip in Unloadable: zero passes.
AcceptsZero(e) ==
    \/ e.tokenFile = "unreadable"
    \/ \E i \in DOMAIN IntDefaults : e.ints[i] # Unset /\ e.ints[i] < 0

\* Load returns an error before it validates.
Unloadable(e) ==
    \/ e.tokenFile = "unreadable"
    \/ \E i \in DOMAIN IntDefaults : e.ints[i] # Unset /\ e.ints[i] <= 0

\* Either the flag or the variable may name a checks file.
Loaded(e) ==
    [url |-> e.url, token |-> Token(e), checksFile |-> e.checksFile,
     spoolDir |-> e.spoolDir,
     ints |-> [i \in DOMAIN IntDefaults |->
                  IF e.ints[i] = Unset THEN IntDefaults[i] ELSE e.ints[i]]]

\* validateBackendURL: plain http is for this machine only.
ValidBackendURL(u) ==
    /\ u.scheme \in {"https", "http"}
    /\ u.scheme = "http" => u.host = "loopback"
    /\ u.host # "none"

\* A slip in Validate: a backend without a token passes.
ValidateURLOnly(c) ==
    /\ c.url # NoURL \/ c.checksFile
    /\ c.url # NoURL => ValidBackendURL(c.url)

Validate(c) ==
    /\ c.url # NoURL \/ c.checksFile
    /\ c.url # NoURL /\ ~c.checksFile => c.token # ""
    /\ c.url # NoURL => ValidBackendURL(c.url)

DispatchEnabled(c) == c.url # NoURL /\ c.token # ""

\* main: an environment that is not accepted ends the process.
Launch ==
    /\ proc = "off"
    /\ starts < MaxStarts
    /\ starts' = starts + 1
    /\ panic' = "none"
    /\ poll' = 0
    /\ \E e \in Envs :
         IF Unloadable(e) \/ ~Validate(Loaded(e))
         THEN UNCHANGED <<proc, cfg>>
         ELSE proc' = "new" /\ cfg' = Loaded(e)
    /\ UNCHANGED <<client, ready, interval, polls, fileVars>>

-----------------------------------------------------------------------------
(* New and Run *)

\* The process is gone, for this reason, with n in its hands.
Ends(why, n) ==
    /\ proc' = "off" /\ cfg' = NoCfg
    /\ client' = FALSE /\ ready' = FALSE /\ interval' = 0
    /\ panic' = why
    /\ poll' = n

HasDir == cfg.spoolDir = "usable"

\* spool.Open fails where the directory cannot be made or read.
New ==
    /\ proc = "new"
    /\ IF cfg.spoolDir = "unusable"
       THEN Ends("none", 0) /\ UNCHANGED fileVars
       ELSE /\ IF HasDir THEN Sweep ELSE UNCHANGED fileVars
            /\ client' = DispatchEnabled(cfg)
            /\ proc' = "run"
            /\ poll' = cfg.ints.poll
            /\ UNCHANGED <<cfg, ready, interval, panic>>
    /\ UNCHANGED <<polls, starts>>

\* A number of seconds as a time.Duration.
Seconds(n) == ((n * Second + Half) % (2 * Half)) - Half

\* NewTicker and Ticker.Reset panic unless the period is positive.
SetTicker(then, applied) ==
    IF Seconds(poll) <= 0
    THEN Ends("ticker", poll)
    ELSE /\ interval' = Seconds(poll)
         /\ proc' = then
         /\ ready' = applied
         /\ UNCHANGED <<cfg, client, panic, poll>>

RunStarts ==
    /\ proc = "run"
    /\ SetTicker("load", FALSE)
    /\ UNCHANGED <<polls, starts, fileVars>>

\* The checks file answers.
LoadFile ==
    /\ proc = "load" /\ cfg.checksFile
    /\ poll' \in Polls
    /\ proc' = "apply"
    /\ UNCHANGED <<cfg, client, ready, interval, polls, panic, starts, fileVars>>

\* The backend answers, and saveCachedConfig begins.  Without a client the call
\* of FetchConfig is a nil dereference.
Fetch ==
    /\ proc = "load" /\ ~cfg.checksFile
    /\ IF ~client
       THEN Ends("nil", 0) /\ UNCHANGED <<polls, fileVars>>
       ELSE /\ poll' \in Polls
            /\ IF HasDir
               THEN Begin /\ polls' = Append(polls, poll') /\ proc' = "save"
               ELSE UNCHANGED <<polls, fileVars>> /\ proc' = "apply"
            /\ UNCHANGED <<cfg, client, ready, interval, panic>>
    /\ UNCHANGED starts

\* The source does not answer: the cache serves a process that has nothing yet.
LoadFails ==
    /\ proc = "load"
    /\ cfg.checksFile \/ client
    /\ IF HasDir /\ file # NoFile /\ file.whole /\ ~ready
       THEN poll' = polls[file.data] /\ proc' = "apply"
       ELSE proc' = "select" /\ UNCHANGED poll
    /\ UNCHANGED <<cfg, client, ready, interval, polls, panic, starts, fileVars>>

\* A step of WriteFileAtomic; its errors are ignored.
Save ==
    /\ proc = "save"
    /\ writer # "idle"
    /\ Write
    /\ proc' = IF writer' = "idle" THEN "apply" ELSE "save"
    /\ UNCHANGED <<cfg, client, ready, poll, interval, polls, panic, starts>>

\* The rest of apply.  A configuration need not give an interval.
Apply ==
    /\ proc = "apply"
    /\ IF poll > 0
       THEN SetTicker("select", TRUE)
       ELSE proc' = "select" /\ ready' = TRUE
            /\ UNCHANGED <<cfg, client, poll, interval, panic>>
    /\ UNCHANGED <<polls, starts, fileVars>>

\* The ticker, or SIGHUP.
Refresh ==
    /\ proc = "select"
    /\ proc' = "load"
    /\ UNCHANGED <<cfg, client, ready, poll, interval, polls, panic, starts, fileVars>>

\* SIGTERM.
Stop ==
    /\ proc = "select"
    /\ Ends("none", 0)
    /\ UNCHANGED <<polls, starts, fileVars>>

\* The process is killed, and perhaps the machine with it.
Killed ==
    /\ proc # "off"
    /\ Ends("none", 0)
    /\ WriterDies \/ PowerLoss
    /\ UNCHANGED <<polls, starts>>

Next ==
    \/ Launch \/ New \/ RunStarts
    \/ LoadFile \/ Fetch \/ LoadFails
    \/ Save \/ Apply \/ Refresh \/ Stop \/ Killed

Spec == Init /\ [][Next]_vars

-----------------------------------------------------------------------------
(* Properties *)

\* A time.Duration can hold this number of seconds.
Fits(n) == n * Second < Half

\* "Validate ensures the configuration can actually drive the agent": whatever
\* combination of variables Load accepts, the process has the client its source
\* needs, and neither its own interval nor one of a configuration, fresh or from
\* the cache of an earlier process, stops it with a panic, unless the interval
\* is longer than a time.Duration can be.
DrivesTheAgent ==
    /\ panic # "nil"
    /\ panic = "ticker" => ~Fits(poll)
=============================================================================
