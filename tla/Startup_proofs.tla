--------------------------- MODULE Startup_proofs ---------------------------
(***************************************************************************)
(* For every set of environments, intervals and faults, and any number of  *)
(* processes: what Startup does to the cache file is WriteFileAtomic's     *)
(* doing, and what Load accepts drives the agent.                          *)
(***************************************************************************)
EXTENDS Startup, AtomicFile_proofs

-----------------------------------------------------------------------------
(* The cache file *)

LEMMA FileStepped == [Next]_vars => [FileNext]_fileVars
<1> SUFFICES ASSUME [Next]_vars PROVE [FileNext]_fileVars
  OBVIOUS
<1>1. CASE UNCHANGED vars
  BY <1>1 DEF vars
<1>2. CASE Launch
  BY <1>2 DEF Launch
<1>3. CASE New
  BY <1>3 DEF New, FileNext
<1>4. CASE RunStarts \/ LoadFile \/ LoadFails \/ Apply \/ Refresh \/ Stop
  BY <1>4 DEF RunStarts, LoadFile, LoadFails, Apply, Refresh, Stop
<1>5. CASE Fetch
  BY <1>5 DEF Fetch, FileNext, Write
<1>6. CASE Save
  BY <1>6 DEF Save, FileNext
<1>7. CASE Killed
  BY <1>7 DEF Killed, FileNext
<1> QED BY <1>1, <1>2, <1>3, <1>4, <1>5, <1>6, <1>7 DEF Next

\* Run, and the processes that follow each other, use the file as AtomicFile
\* says, one write at a time and a sweep between processes.
THEOREM ImplementsFile == Spec => FileSpec
<1>1. Init => FileInit
  BY DEF Init
<1> QED BY <1>1, FileStepped, PTL DEF Spec, FileSpec

\* The cache that a process reads is never torn.
THEOREM CacheNeverTorn == Spec => []NeverTorn
BY ImplementsFile, FileNeverTorn, PTL

\* And never older than the last write that returned.
THEOREM CacheNeverOlder == Spec => []NeverOlder
BY ImplementsFile, FileNeverOlder, PTL
\* What is assumed of the numbers alone.
LEMMA Numbers == Polls \subseteq Int /\ Second \in Nat \ {0} /\ Half \in Nat \ {0} /\ MaxStarts \in Nat
BY StartupAssumption

-----------------------------------------------------------------------------
(* Durations *)

LEMMA Product ==
    ASSUME NEW a \in Nat, NEW b \in Nat \ {0}
    PROVE  a * b \in Nat /\ (a # 0 => a * b >= 1)
OBVIOUS

LEMMA ModBound ==
    ASSUME NEW x \in Int, NEW m \in Nat \ {0}
    PROVE  x % m \in 0..(m - 1)
OBVIOUS

LEMMA ModSmall ==
    ASSUME NEW m \in Nat \ {0}, NEW x \in 0..(m - 1)
    PROVE  x % m = x
BY SMTT(30)

\* A period that is set is one a ticker takes.
LEMMA SecondsBounded ==
    ASSUME NEW n \in Nat
    PROVE  Seconds(n) \in Int /\ Seconds(n) <= Half - 1
<1> DEFINE x == n * Second
           m == 2 * Half
           r == (x + Half) % m
<1>1. Seconds(n) = r - Half /\ Half \in Nat \ {0}
  BY Numbers DEF Seconds
<1>2. x \in Nat
  BY Numbers, Product
<1> HIDE DEF x
<1>3. x + Half \in Int /\ m \in Nat \ {0} /\ m = 2 * Half
  BY <1>1, <1>2
<1> HIDE DEF m
<1>4. r \in 0..(m - 1)
  BY <1>3, ModBound
<1> HIDE DEF r
<1> QED BY <1>1, <1>3, <1>4

\* A positive number of seconds that fits does not wrap.
LEMMA NoWrap ==
    ASSUME NEW n \in Nat \ {0}, Fits(n)
    PROVE  Seconds(n) > 0
<1> DEFINE x == n * Second
           m == 2 * Half
<1>1. Seconds(n) = ((x + Half) % m) - Half /\ Half \in Nat \ {0} /\ x < Half
  BY Numbers DEF Seconds, Fits
<1>2. x \in Nat /\ x >= 1
  BY Numbers, Product
<1> HIDE DEF x
<1>3. x + Half \in 0..(m - 1) /\ m \in Nat \ {0}
  BY <1>1, <1>2
<1> HIDE DEF m
<1>4. (x + Half) % m = x + Half
  BY <1>3, ModSmall
<1> QED BY <1>1, <1>2, <1>4
-----------------------------------------------------------------------------
(* What Load accepts drives the agent *)

\* A running process has what its source needs, and a panic is accounted for.
Driven ==
    /\ proc # "off" => panic = "none" /\ (cfg.checksFile \/ DispatchEnabled(cfg))
    /\ proc \notin {"off", "new"} => client = DispatchEnabled(cfg)
    /\ proc = "run" => poll > 0
    /\ DOMAIN cfg.ints = DOMAIN IntDefaults
    /\ DrivesTheAgent

\* The inductive invariant.
StartInv == TypeOK /\ FileInv /\ Driven

LEMMA DefaultsPositive ==
    \A i \in DOMAIN IntDefaults : IntDefaults[i] \in Nat \ {0}
BY DEF IntDefaults

LEMMA InitStart == Init => StartInv
<1> SUFFICES ASSUME Init PROVE StartInv
  OBVIOUS
<1>1. FileInv
  BY InitFile DEF Init
<1>2. cfg.ints = IntDefaults /\ cfg.checksFile = FALSE /\ cfg.token = "" /\ cfg.spoolDir = ""
  BY DEF Init, NoCfg
<1>3. TypeOK
  <2>1. \A i \in DOMAIN cfg.ints : cfg.ints[i] \in Nat \ {0}
    BY <1>2, DefaultsPositive
  <2>2. polls \in Seq(Polls) /\ Len(polls) = writes
    BY DEF Init, FileInit
  <2>3. interval \in 0..(Half - 1) /\ starts \in 0..MaxStarts
    BY Numbers DEF Init
  <2> QED BY <1>1, <1>2, <2>1, <2>2, <2>3 DEF Init, FileInv, TypeOK
<1>4. Driven
  BY <1>2 DEF Init, Driven, DrivesTheAgent
<1> QED BY <1>1, <1>3, <1>4 DEF StartInv

\* What Load and Validate accept.
LEMMA Accepted ==
    ASSUME NEW e \in Envs, ~Unloadable(e), Validate(Loaded(e))
    PROVE  LET c == Loaded(e) IN
           /\ c.token \in {"", "secret"} /\ c.spoolDir \in {"", "usable", "unusable"}
           /\ c.checksFile \in BOOLEAN
           /\ c.checksFile \/ DispatchEnabled(c)
           /\ DOMAIN c.ints = DOMAIN IntDefaults
           /\ \A i \in DOMAIN IntDefaults : c.ints[i] \in Nat \ {0}
<1> DEFINE c == Loaded(e)
<1>1. c.token = Token(e) /\ c.spoolDir = e.spoolDir /\ c.checksFile = e.checksFile
      /\ c.ints = [i \in DOMAIN IntDefaults |->
                      IF e.ints[i] = Unset THEN IntDefaults[i] ELSE e.ints[i]]
  BY DEF Loaded
<1>2. Token(e) \in {"", "secret"}
  BY StartupAssumption DEF Token, Unloadable
<1>3. c.checksFile \/ DispatchEnabled(c)
  BY DEF Validate, DispatchEnabled
<1>4. ASSUME NEW i \in DOMAIN IntDefaults PROVE c.ints[i] \in Nat \ {0}
  <2>1. c.ints[i] = IF e.ints[i] = Unset THEN IntDefaults[i] ELSE e.ints[i]
    BY <1>1
  <2>2. e.ints[i] = Unset \/ (e.ints[i] \in Int /\ ~(e.ints[i] <= 0))
    <3>1. e.ints[i] = Unset \/ e.ints[i] \in Int
      BY StartupAssumption
    <3> QED BY <3>1 DEF Unloadable
  <2> HIDE DEF c
  <2> QED BY <2>1, <2>2, DefaultsPositive
<1> QED BY <1>1, <1>2, <1>3, <1>4, StartupAssumption

\* The end of a process, for a reason it may have.
LEMMA EndKeeps ==
    ASSUME StartInv, FileInv', NEW why \in {"none", "ticker"}, NEW n \in Nat,
           Ends(why, n), why = "ticker" => ~Fits(n), UNCHANGED <<polls, writes>>,
           starts' = starts
    PROVE  StartInv'
<1>1. cfg'.ints = IntDefaults /\ cfg'.checksFile = FALSE /\ cfg'.token = "" /\ cfg'.spoolDir = ""
  BY DEF Ends, NoCfg
<1>2. TypeOK'
  <2>1. \A i \in DOMAIN cfg'.ints : cfg'.ints[i] \in Nat \ {0}
    BY <1>1, DefaultsPositive
  <2>2. interval' \in 0..(Half - 1)
    BY Numbers DEF Ends
  <2> QED BY <1>1, <2>1, <2>2 DEF StartInv, Ends, FileInv, TypeOK
<1>3. Driven'
  BY <1>1 DEF Ends, Driven, DrivesTheAgent, Fits
<1> QED BY <1>2, <1>3 DEF StartInv

\* Neither the first period nor that of a configuration panics, if it fits.
LEMMA TickerKeeps ==
    ASSUME StartInv, FileInv', proc \in {"run", "apply"}, poll > 0,
           NEW then \in {"load", "select"}, NEW applied \in BOOLEAN,
           SetTicker(then, applied), UNCHANGED <<polls, writes, starts>>
    PROVE  StartInv'
<1>1. poll \in Nat \ {0}
  <2>1. poll \in Nat \cup Polls BY DEF StartInv, TypeOK
  <2>. QED BY <2>1, Numbers
<1>2. Seconds(poll) \in Int /\ Seconds(poll) <= Half - 1
  BY <1>1, SecondsBounded
<1>3. CASE Seconds(poll) <= 0
  <2>1. ~Fits(poll)
    BY <1>1, <1>2, <1>3, NoWrap
  <2> QED BY <1>1, <1>3, <2>1, EndKeeps DEF SetTicker
<1>4. CASE ~(Seconds(poll) <= 0)
  <2>1. /\ interval' = Seconds(poll) /\ proc' = then /\ ready' = applied
        /\ UNCHANGED <<cfg, client, panic, poll>>
    BY <1>4 DEF SetTicker
  <2>2. interval' \in 0..(Half - 1)
    BY <1>2, <1>4, <2>1, Numbers
  <2>3. TypeOK'
    BY <2>1, <2>2 DEF StartInv, FileInv, TypeOK
  <2>4. Driven'
    BY <2>1 DEF StartInv, Driven, DrivesTheAgent, DispatchEnabled, Fits
  <2> QED BY <2>3, <2>4 DEF StartInv
<1> QED BY <1>3, <1>4

LEMMA StartStep == StartInv /\ [Next]_vars => StartInv'
<1> SUFFICES ASSUME StartInv, [Next]_vars PROVE StartInv'
  OBVIOUS
<1>0. FileInv'
  BY FileStepped, FileStep DEF StartInv
<1> USE DEF DrivesTheAgent, DispatchEnabled, Fits
<1>1. CASE UNCHANGED vars
  BY <1>0, <1>1 DEF vars, fileVars, StartInv, FileInv, TypeOK, Driven
<1>2. CASE Launch
  <2>1. PICK e \in Envs :
          IF Unloadable(e) \/ ~Validate(Loaded(e))
          THEN UNCHANGED <<proc, cfg>>
          ELSE proc' = "new" /\ cfg' = Loaded(e)
    BY <1>2 DEF Launch
  <2>2. /\ proc = "off" /\ starts' = starts + 1 /\ starts < MaxStarts
        /\ panic' = "none" /\ poll' = 0
        /\ UNCHANGED <<client, ready, interval, polls, writes>>
    BY <1>2 DEF Launch, fileVars
  <2>3. starts' \in 0..MaxStarts
    <3>1. starts \in 0..MaxStarts
      BY DEF StartInv, TypeOK
    <3> QED BY <2>2, <3>1, Numbers
  <2>4. CASE Unloadable(e) \/ ~Validate(Loaded(e))
    BY <1>0, <2>1, <2>2, <2>3, <2>4 DEF StartInv, FileInv, TypeOK, Driven
  <2>5. CASE ~(Unloadable(e) \/ ~Validate(Loaded(e)))
    <3>1. proc' = "new" /\ cfg' = Loaded(e)
      BY <2>1, <2>5
    <3>2. TypeOK'
      BY <1>0, <2>2, <2>3, <2>5, <3>1, Accepted DEF StartInv, FileInv, TypeOK
    <3>3. Driven'
      BY <2>2, <2>5, <3>1, Accepted DEF Driven
    <3> QED BY <1>0, <3>2, <3>3 DEF StartInv
  <2> QED BY <2>4, <2>5
<1>3. CASE New
  <2>0. writes' = writes /\ polls' = polls /\ starts' = starts
    BY <1>3 DEF New, Sweep, fileVars, Ends
  <2>1. CASE cfg.spoolDir = "unusable"
    BY <1>0, <1>3, <2>0, <2>1, EndKeeps DEF New
  <2>2. CASE cfg.spoolDir # "unusable"
    <3>1. /\ proc = "new" /\ proc' = "run" /\ client' = DispatchEnabled(cfg)
          /\ poll' = cfg.ints.poll /\ UNCHANGED <<cfg, ready, interval, panic>>
      BY <1>3, <2>2 DEF New
    <3>2. cfg.ints.poll \in Nat \ {0}
      BY DEF StartInv, TypeOK, Driven, IntDefaults
    <3>3. poll' = cfg.ints.poll
      BY <3>1
    <3>4. poll' \in Nat \cup Polls /\ poll' > 0
      BY <3>2, <3>3
    <3> QED BY <1>0, <2>0, <3>1, <3>4 DEF StartInv, FileInv, TypeOK, Driven
  <2> QED BY <2>1, <2>2
<1>4. CASE RunStarts
  BY <1>0, <1>4, TickerKeeps DEF RunStarts, fileVars, StartInv, Driven
<1>5. CASE LoadFile
  BY <1>0, <1>5, Numbers
  DEF LoadFile, fileVars, StartInv, FileInv, TypeOK, Driven
<1>6. CASE Fetch
  <2>1. client
    BY <1>6 DEF Fetch, StartInv, Driven
  <2>2. poll' \in Polls /\ poll' \in Int /\ proc' \in {"save", "apply"} /\ proc = "load"
        /\ UNCHANGED <<cfg, client, ready, interval, panic, starts>>
    BY <1>6, <2>1, Numbers DEF Fetch
  <2>3. polls' \in Seq(Polls) /\ Len(polls') = writes'
    <3>1. polls \in Seq(Polls) /\ Len(polls) = writes
      BY DEF StartInv, TypeOK
    <3>2. CASE HasDir
      BY <1>6, <2>1, <2>2, <3>1, <3>2 DEF Fetch, Begin
    <3>3. CASE ~HasDir
      BY <1>6, <2>1, <3>1, <3>3 DEF Fetch, fileVars
    <3> QED BY <3>2, <3>3
  <2> QED BY <1>0, <2>2, <2>3 DEF StartInv, FileInv, TypeOK, Driven
<1>7. CASE LoadFails
  <2>1. poll' \in Nat \cup Polls
    <3>1. CASE HasDir /\ file # NoFile /\ file.whole /\ ~ready
      <4>1. file.data \in 1..Len(polls)
        BY <3>1 DEF StartInv, FileInv, Good, TypeOK
      <4>2. polls \in Seq(Polls)
        BY DEF StartInv, TypeOK
      <4>3. polls[file.data] \in Polls
        BY <4>1, <4>2
      <4> QED BY <1>7, <3>1, <4>3, Numbers DEF LoadFails
    <3>2. CASE ~(HasDir /\ file # NoFile /\ file.whole /\ ~ready)
      BY <1>7, <3>2 DEF LoadFails, StartInv, TypeOK
    <3> QED BY <3>1, <3>2
  <2>2. proc = "load" /\ proc' \in {"apply", "select"}
        /\ UNCHANGED <<cfg, client, ready, interval, polls, panic, starts, writes>>
    BY <1>7 DEF LoadFails, fileVars
  <2> QED BY <1>0, <2>1, <2>2 DEF StartInv, FileInv, TypeOK, Driven
<1>8. CASE Save
  <2>1. writes' = writes
    BY <1>8 DEF Save, Write, Begin, Calls, OpenTmp, WriteTmp, SyncTmp, CloseTmp, Rename,
                SyncDir, CallFails
  <2>2. proc = "save" /\ proc' \in {"apply", "save"}
        /\ UNCHANGED <<cfg, client, ready, poll, interval, polls, panic, starts>>
    BY <1>8 DEF Save
  <2> QED BY <1>0, <2>1, <2>2 DEF StartInv, FileInv, TypeOK, Driven
<1>9. CASE Apply
  <2>1. CASE poll > 0
    <3>1. proc = "apply" /\ SetTicker("select", TRUE) /\ UNCHANGED <<polls, writes, starts>>
      BY <1>9, <2>1 DEF Apply, fileVars
    <3> QED BY <1>0, <2>1, <3>1, TickerKeeps
  <2>2. CASE ~(poll > 0)
    BY <1>0, <1>9, <2>2 DEF Apply, fileVars, StartInv, FileInv, TypeOK, Driven
  <2> QED BY <2>1, <2>2
<1>10. CASE Refresh
  BY <1>0, <1>10 DEF Refresh, fileVars, StartInv, FileInv, TypeOK, Driven
<1>11. CASE Stop \/ Killed
  <2>1. Ends("none", 0) /\ UNCHANGED <<polls, starts, writes>>
    BY <1>11 DEF Stop, Killed, WriterDies, PowerLoss, fileVars
  <2> QED BY <1>0, <2>1, EndKeeps
<1> QED
  BY <1>1, <1>2, <1>3, <1>4, <1>5, <1>6, <1>7, <1>8, <1>9, <1>10, <1>11 DEF Next

\* The inductive invariant of the start and of the processes that follow.
THEOREM StartInvariant == Spec => []StartInv
<1>1. Init => StartInv
  BY InitStart
<1>2. StartInv /\ [Next]_vars => StartInv'
  BY StartStep
<1> QED BY <1>1, <1>2, PTL DEF Spec

\* Type correctness of the start: what Load accepts is in range, every period
\* set is positive or not set yet, and the cache file names a configuration.
THEOREM StartTypeCorrect == Spec => []TypeOK
<1>1. StartInv => TypeOK
  BY DEF StartInv
<1> QED BY <1>1, StartInvariant, PTL

\* "Validate ensures the configuration can actually drive the agent": no
\* environment, configuration, fault or restart leads to a nil client or to a
\* ticker that panics, unless an interval is too long for a time.Duration.
THEOREM AcceptedDrives == Spec => []DrivesTheAgent
<1>1. StartInv => DrivesTheAgent
  BY DEF StartInv, Driven
<1> QED BY <1>1, StartInvariant, PTL
=============================================================================
