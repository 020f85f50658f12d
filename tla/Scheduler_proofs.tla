-------------------------- MODULE Scheduler_proofs --------------------------
(***************************************************************************)
(* Proofs about the check loops and the configuration they follow, for     *)
(* every set of configurations, any number of loops, processes, changes    *)
(* and signals, and every capacity of the semaphore.                       *)
(***************************************************************************)
EXTENDS Scheduler, FiniteSetTheorems, TLAPS

(***************************************************************************)
(* The inductive invariant                                                 *)
(***************************************************************************)

\* The lists a configuration may hold once it was validated.
Lists == {Validated(c) : c \in Configs} \cup {<<>>}

\* What is loaded, applied or cached is a validated list with its source, or
\* nothing.
ConfigsTyped ==
    /\ {loaded, active} \subseteq [from : {"none", "backend", "file"}, checks : Lists]
    /\ cache \in [from : {"none", "backend"}, checks : Lists]
    /\ \A c \in {loaded, active, cache} : c.from = "none" => c = NoConfig
    /\ mode \in Modes

\* A run that was cut short ends in a loop whose context is cancelled, and is
\* cancelled still when the loop looks at it.
AbortedCancelled == \A l \in aborted : at[l] = "ran" /\ Cancelled(l)

\* A process that is not running has loaded nothing.
NothingWhileDown == ~up => main = "load"

\* Where Run is, it has what it works with.
LoadedInHand ==
    /\ main = "save" => loaded.from = mode
    /\ main = "reconcile" => loaded # NoConfig
    /\ ready <=> active # NoConfig

Settled == main \in {"load", "save", "select"}

\* Outside of a reconcile the loops of the map run what was last applied.
LoopsFollowActive ==
    Settled => {chk[running[id]] : id \in DOMAIN running} = Want(active.checks)

\* The metric is about the configuration that is applied, or being applied.
CacheMetric ==
    usingCache => \/ Settled /\ active = cache
                  \/ main = "reconcile" /\ loaded = cache
                  \/ main = "return"

\* The same of the cache itself, when it is written at every load.
CacheFollows ==
    /\ Settled /\ active.from = "backend" => cache = active
    /\ main = "reconcile" /\ loaded.from = "backend" => cache = loaded

SchedulerInv ==
    /\ TypeOK
    /\ NothingWhileDown
    /\ ConfigsTyped
    /\ OneLoopPerCheck
    /\ SlotsAccounted
    /\ AbortedCancelled
    /\ ReloadNotLost
    /\ LoadedInHand
    /\ LoopsFollowActive
    /\ CacheMetric

(***************************************************************************)
(* Lists of checks                                                         *)
(***************************************************************************)

\* Each list of a configuration is a sequence of checks.
LEMMA ConfigsAreLists ==
    \A list \in Configs : DOMAIN list \subseteq Nat /\ \A i \in DOMAIN list : list[i] \in Check
<1>. SUFFICES ASSUME NEW list \in Configs
              PROVE  DOMAIN list \subseteq Nat /\ \A i \in DOMAIN list : list[i] \in Check
  OBVIOUS
<1>1. list \in Seq(Check) BY SchedulerAssumption
<1>2. DOMAIN list \subseteq Nat BY <1>1
<1>3. \A i \in DOMAIN list : list[i] \in Check BY DEF Check
<1>. QED BY <1>2, <1>3

\* So is what validateChecks leaves of one, and validating that again changes
\* nothing.
LEMMA ValidatedLists ==
    ASSUME NEW list \in Lists
    PROVE  /\ DOMAIN list \subseteq Nat
           /\ \A i \in DOMAIN list : list[i] \in Check
           /\ Validated(list) = list
<1>1. CASE list = <<>>
  <2>1. DOMAIN list = {} BY <1>1
  <2>2. DOMAIN Validated(list) = {} BY <2>1 DEF Validated
  <2>3. list = [i \in {} |-> list[i]] BY <1>1
  <2>4. Validated(list) = [i \in {} |-> list[i]] BY <2>1, <2>2 DEF Validated
  <2>. QED BY <2>1, <2>3, <2>4
<1>2. CASE \E c \in Configs : list = Validated(c)
  <2>1. PICK c \in Configs : list = Validated(c) BY <1>2
  <2>2. /\ DOMAIN list = {j \in DOMAIN c : c[j].valid}
        /\ \A i \in DOMAIN list : list[i] = c[i]
    BY <2>1 DEF Validated
  <2>3. {j \in DOMAIN list : list[j].valid} = DOMAIN list BY <2>2
  <2>4. Validated(list) = [i \in DOMAIN list |-> list[i]] BY <2>3 DEF Validated
  <2>5. list = [i \in DOMAIN list |-> list[i]] BY <2>1 DEF Validated
  <2>. QED BY <2>2, <2>4, <2>5, ConfigsAreLists
<1>. QED BY <1>1, <1>2 DEF Lists

\* Of several checks with one id the last is wanted: no two wanted checks share
\* their id.
LEMMA WantedOnce ==
    ASSUME NEW list \in Lists
    PROVE  /\ Want(list) \subseteq Check
           /\ \A c, d \in Want(list) : c.id = d.id => c = d
<1>1. Want(list) \subseteq Check BY ValidatedLists DEF Want
<1>2. ASSUME NEW c \in Want(list), NEW d \in Want(list), c.id = d.id
      PROVE  c = d
  <2>1. PICK i \in DOMAIN list :
          c = list[i] /\ \A k \in DOMAIN list : k > i => list[k].id # c.id
    BY DEF Want
  <2>2. PICK j \in DOMAIN list :
          d = list[j] /\ \A k \in DOMAIN list : k > j => list[k].id # d.id
    BY DEF Want
  <2>3. ~(i > j) /\ ~(j > i) BY <1>2, <2>1, <2>2
  <2>4. i \in Nat /\ j \in Nat BY ValidatedLists
  <2>. QED BY <2>1, <2>2, <2>3, <2>4
<1>. QED BY <1>1, <1>2

LEMMA NothingWanted == Want(<<>>) = {}
BY DEF Want

(***************************************************************************)
(* Type correctness                                                        *)
(***************************************************************************)

\* The bounds are numbers, the sources have one of two kinds.
LEMMA Bounds ==
    /\ Modes \subseteq {"backend", "file"}
    /\ MaxConcurrentChecks \in Nat \ {0}
    /\ MaxLoops \in Nat /\ MaxChanges \in Nat
    /\ MaxStarts \in Nat \ {0}
BY SchedulerAssumption

\* The loops that execute their check are finitely many.
LEMMA RunningFinite == IsFiniteSet(Running) /\ Cardinality(Running) \in Nat
<1>1. IsFiniteSet(Slots) BY Bounds, FS_Interval DEF Slots
<1>2. Running \subseteq Slots BY DEF Running
<1>. QED BY <1>1, <1>2, FS_Subset, FS_CardinalityType

\* Before a run is handed back the semaphore holds its value.
LEMMA HeldWhileRunning ==
    SlotsAccounted /\ TypeOK => \A l \in Running : inUse > 0
<1>. SUFFICES ASSUME SlotsAccounted, TypeOK, NEW l \in Running PROVE inUse > 0
  OBVIOUS
<1>1. Cardinality(Running) # 0 BY RunningFinite, FS_EmptySet
<1>. QED BY <1>1, RunningFinite DEF SlotsAccounted

LEMMA TypeStep == SchedulerInv /\ [Next]_vars => TypeOK'
<1>. SUFFICES ASSUME SchedulerInv, [Next]_vars PROVE TypeOK'
  OBVIOUS
<1>. USE Bounds
<1>1. TypeOK /\ ConfigsTyped /\ SlotsAccounted /\ LoadedInHand BY DEF SchedulerInv
<1>2. CASE Load BY <1>1, <1>2 DEF Load, RunStep, TypeOK, outsideVars, processVars, signalVars, loopVars
<1>3. CASE LoadFails BY <1>1, <1>3 DEF LoadFails, RunStep, TypeOK, ConfigsTyped, outsideVars, processVars, signalVars, loopVars
<1>4. CASE Save BY <1>1, <1>4 DEF Save, Cached, RunStep, TypeOK, ConfigsTyped, LoadedInHand, outsideVars, processVars, signalVars, loopVars
<1>5. CASE StopOne BY <1>1, <1>5 DEF StopOne, Cancel, Without, Outdated, RunStep, TypeOK, outsideVars, processVars, signalVars, loopVars, configVars
<1>6. CASE StartOne
  <2>1. PICK c \in Missing, l \in Slots : /\ running' = With(running, c.id, l)
                                         /\ at' = [at EXCEPT ![l] = "wait"]
                                         /\ chk' = [chk EXCEPT ![l] = c]
                                         /\ stopped' = stopped \ {l}
    BY <1>6 DEF StartOne
  <2>2. loaded.checks \in Lists BY <1>1 DEF ConfigsTyped
  <2>3. c \in Check BY <2>2, WantedOnce DEF Missing
  <2>4. DOMAIN running' \subseteq Ids /\ \A id \in DOMAIN running' : running'[id] \in Slots
    BY <1>1, <2>1, <2>3 DEF With, Ids, TypeOK
  <2>5. /\ at' \in [Slots -> {"none", "wait", "acquire", "run", "ran", "report"}]
        /\ chk' \in [Slots -> Check \cup {NoCheck}]
        /\ stopped' \subseteq Slots
    BY <1>1, <2>1, <2>3 DEF TypeOK
  <2>. QED
    BY <1>1, <1>6, <2>4, <2>5
    DEF StartOne, RunStep, TypeOK, outsideVars, processVars, signalVars, configVars
<1>7. CASE Applied BY <1>1, <1>7 DEF Applied, RunStep, TypeOK, outsideVars, processVars, signalVars, loopVars
<1>8. CASE RefreshTick BY <1>1, <1>8 DEF RefreshTick, RunStep, TypeOK, outsideVars, processVars, signalVars, loopVars, configVars
<1>9. CASE TakeReload BY <1>1, <1>9 DEF TakeReload, RunStep, TypeOK, outsideVars, processVars, signalVars, loopVars, configVars
<1>10. CASE Shutdown BY <1>1, <1>10 DEF Shutdown, RunStep, TypeOK, outsideVars, processVars, signalVars, loopVars, configVars
<1>11. ASSUME NEW l \in Slots, Loop(l) PROVE TypeOK'
  <2>. USE <1>1 DEF LoopStep, TypeOK, outsideVars, processVars, signalVars, configVars
  <2>1. CASE Due(l) BY <2>1 DEF Due
  <2>2. CASE End(l) BY <2>2 DEF End
  <2>3. CASE Acquire(l) BY <2>3 DEF Acquire, HasSlot
  <2>4. CASE Leave(l) BY <2>4 DEF Leave
  <2>5. CASE Ran(l) BY <2>5, HeldWhileRunning DEF Ran, Freed, Running
  <2>6. CASE DropOrKeep(l) BY <2>6 DEF DropOrKeep
  <2>7. CASE Report(l) BY <2>7 DEF Report
  <2>. QED BY <1>11, <2>1, <2>2, <2>3, <2>4, <2>5, <2>6, <2>7 DEF Loop
<1>12. CASE Change BY <1>1, <1>12 DEF Change, TypeOK, processVars, signalVars, configVars, loopVars
<1>13. CASE Sighup BY <1>1, <1>13 DEF Sighup, TypeOK, outsideVars, processVars, configVars, loopVars
<1>14. CASE Reload BY <1>1, <1>14 DEF Reload, Queued, TypeOK, outsideVars, processVars, configVars, loopVars
<1>15. CASE Terminate BY <1>1, <1>15 DEF Terminate, TypeOK, outsideVars, processVars, signalVars, configVars, loopVars
<1>16. CASE Gone
  <2>1. DOMAIN running' = {} BY <1>16 DEF Gone
  <2>2. at' \in [Slots -> {"none", "wait", "acquire", "run", "ran", "report"}]
    BY <1>16 DEF Gone
  <2>3. chk' \in [Slots -> Check \cup {NoCheck}] BY <1>16 DEF Gone
  <2>4. loaded'.from = "none" /\ active'.from = "none" BY <1>16 DEF Gone, NoConfig
  <2>5. /\ UNCHANGED <<served, changes, mode, starts, cache>>
        /\ up' = FALSE /\ cancelled' = FALSE /\ hup' = FALSE /\ reloadCh' = FALSE
        /\ asked' = FALSE /\ usingCache' = FALSE /\ ready' = FALSE
        /\ main' = "load" /\ stopped' = {} /\ aborted' = {} /\ inUse' = 0
    BY <1>16 DEF Gone, outsideVars
  <2>6. DOMAIN running' \subseteq Ids /\ \A id \in DOMAIN running' : running'[id] \in Slots
    BY <2>1, Zenon
  <2>7. /\ {loaded'.from, active'.from} \subseteq {"none", "backend", "file"}
        /\ cache'.from \in {"none", "backend"}
    BY <1>1, <2>4, <2>5 DEF TypeOK
  <2>8. /\ served' \in [Modes -> Configs \cup {Unreadable}]
        /\ mode' \in {"backend", "file"}
        /\ main' \in {"load", "save", "reconcile", "select", "return"}
        /\ stopped' \subseteq Slots /\ aborted' \subseteq Slots
    BY <1>1, <2>5 DEF TypeOK
  <2>9. inUse' \in 0..MaxConcurrentChecks /\ starts' \in 1..MaxStarts
        /\ changes' \in 0..MaxChanges
    BY <1>1, <2>5 DEF TypeOK
  <2>. QED BY <2>2, <2>3, <2>5, <2>6, <2>7, <2>8, <2>9 DEF TypeOK
<1>17. CASE Start BY <1>1, <1>17 DEF Start, TypeOK, outsideVars, signalVars, configVars, loopVars
<1>18. CASE UNCHANGED vars
  BY <1>1, <1>18 DEF vars, TypeOK, outsideVars, processVars, signalVars, configVars, loopVars
<1>. QED
  BY <1>2, <1>3, <1>4, <1>5, <1>6, <1>7, <1>8, <1>9, <1>10, <1>11, <1>12, <1>13,
     <1>14, <1>15, <1>16, <1>17, <1>18
  DEF Next, Run

(***************************************************************************)
(* What the steps leave alone                                              *)
(***************************************************************************)

\* A loop moves by a step of its own, or when it is started; the process takes
\* all of them with it.
LEMMA WhoMovesLoops ==
    [Next]_vars => \/ \E l \in Slots : Loop(l)
                   \/ StartOne
                   \/ Gone
                   \/ UNCHANGED loopVars
<1>. SUFFICES ASSUME [Next]_vars, ~Gone, ~StartOne, ~\E l \in Slots : Loop(l)
              PROVE  UNCHANGED loopVars
  OBVIOUS
<1>1. CASE Run
  BY <1>1 DEF Run, Load, LoadFails, Save, StopOne, Applied, RefreshTick, TakeReload, Shutdown
<1>2. CASE Change \/ Sighup \/ Reload \/ Terminate \/ Start
  BY <1>2 DEF Change, Sighup, Reload, Terminate, Start
<1>3. CASE UNCHANGED vars BY <1>3 DEF vars
<1>. QED BY <1>1, <1>2, <1>3 DEF Next

\* A context stays cancelled while its goroutine lives.
LEMMA CancelledStays ==
    [Next]_vars /\ ~Gone =>
        \A l \in Slots : Cancelled(l) /\ at[l] \notin {"none", "wait"} => Cancelled(l)'
<1>. SUFFICES ASSUME [Next]_vars, ~Gone,
                     NEW l \in Slots, Cancelled(l), at[l] \notin {"none", "wait"}
              PROVE  Cancelled(l)'
  OBVIOUS
<1>1. CASE Run
  <2>1. CASE StartOne
    BY <1>1, <2>1 DEF StartOne, Free, RunStep, Cancelled
  <2>2. CASE ~StartOne
    BY <1>1, <2>2
    DEF Run, Load, LoadFails, Save, StopOne, Cancel, Applied, RefreshTick, TakeReload,
        Shutdown, RunStep, Cancelled
  <2>. QED BY <2>1, <2>2
<1>2. ASSUME NEW k \in Slots, Loop(k) PROVE Cancelled(l)'
  BY <1>2
  DEF Loop, Due, End, Acquire, Leave, Ran, DropOrKeep, Report, LoopStep, Cancelled
<1>3. CASE Change \/ Sighup \/ Reload \/ Terminate \/ Start
  BY <1>3 DEF Change, Sighup, Reload, Terminate, Start, Cancelled
<1>4. CASE UNCHANGED vars BY <1>4 DEF vars, Cancelled
<1>. QED BY <1>1, <1>2, <1>3, <1>4 DEF Next

(***************************************************************************)
(* The semaphore and the runs that are cut short                           *)
(***************************************************************************)

\* A value is put in when a loop begins to execute, and taken out when it ends.
LEMMA SlotsStep == TypeOK /\ SlotsAccounted /\ [Next]_vars => SlotsAccounted'
<1>. SUFFICES ASSUME TypeOK, SlotsAccounted, [Next]_vars PROVE SlotsAccounted'
  OBVIOUS
<1>. USE Bounds
<1>1. ASSUME NEW l \in Slots, Loop(l) PROVE SlotsAccounted'
  <2>1. CASE Acquire(l)
    <3>1. Running' = Running \cup {l} /\ l \notin Running
      BY <2>1 DEF Acquire, Running, TypeOK
    <3>2. Cardinality(Running') = Cardinality(Running) + 1
      BY <3>1, RunningFinite, FS_AddElement
    <3>. QED BY <2>1, <3>2, RunningFinite DEF Acquire, HasSlot, SlotsAccounted
  <2>2. CASE Ran(l)
    <3>1. Running' = Running \ {l} /\ l \in Running
      BY <2>2 DEF Ran, Running, TypeOK
    <3>2. Cardinality(Running') = Cardinality(Running) - 1
      BY <3>1, RunningFinite, FS_RemoveElement
    <3>. QED BY <2>2, <3>2, RunningFinite DEF Ran, Freed, SlotsAccounted
  <2>3. CASE Due(l) \/ End(l) \/ Leave(l) \/ DropOrKeep(l) \/ Report(l)
    <3>1. Running' = Running /\ inUse' = inUse
      BY <2>3 DEF Due, End, Leave, DropOrKeep, Report, Running, TypeOK
    <3>. QED BY <3>1 DEF SlotsAccounted
  <2>. QED BY <1>1, <2>1, <2>2, <2>3 DEF Loop
<1>2. CASE StartOne
  <2>1. Running' = Running /\ inUse' = inUse
    BY <1>2 DEF StartOne, Free, Running, TypeOK
  <2>. QED BY <2>1 DEF SlotsAccounted
<1>3. CASE Gone
  <2>1. Running' = {} /\ inUse' = 0 BY <1>3 DEF Gone, Running
  <2>. QED BY <2>1, FS_EmptySet DEF SlotsAccounted
<1>4. CASE UNCHANGED loopVars
  BY <1>4 DEF loopVars, SlotsAccounted, Running
<1>. QED BY <1>1, <1>2, <1>3, <1>4, WhoMovesLoops

\* A run cut short is remembered until the loop has dropped its result.
LEMMA AbortedStep == TypeOK /\ AbortedCancelled /\ [Next]_vars => AbortedCancelled'
<1>. SUFFICES ASSUME TypeOK, AbortedCancelled, [Next]_vars PROVE AbortedCancelled'
  OBVIOUS
<1>1. CASE Gone BY <1>1 DEF Gone, AbortedCancelled
<1>2. CASE ~Gone
  <2>. SUFFICES ASSUME NEW k \in aborted' PROVE at'[k] = "ran" /\ Cancelled(k)'
    BY DEF AbortedCancelled
  <2>. DEFINE KCutShort == /\ k \in Slots /\ at'[k] = "ran"
                           /\ Cancelled(k) /\ at[k] \in {"run", "ran"}
  <2>1. ASSUME NEW l \in Slots, Loop(l) PROVE KCutShort
    BY <2>1
    DEF Loop, Due, End, Acquire, Leave, Ran, DropOrKeep, Report, Drops, TypeOK,
        AbortedCancelled
  <2>2. ASSUME StartOne PROVE KCutShort
    <3>1. k \in aborted BY <2>2 DEF StartOne
    <3>2. k \in Slots /\ at[k] = "ran" /\ Cancelled(k)
      BY <3>1 DEF TypeOK, AbortedCancelled
    <3>3. at'[k] = "ran"
      <4>1. PICK l \in Slots : Free(l) /\ at' = [at EXCEPT ![l] = "wait"]
        BY <2>2 DEF StartOne
      <4>2. at[l] = "none" BY <4>1 DEF Free
      <4>. QED BY <3>2, <4>1, <4>2 DEF TypeOK
    <3>. QED BY <3>2, <3>3
  <2>3. ASSUME UNCHANGED loopVars PROVE KCutShort
    BY <2>3 DEF loopVars, TypeOK, AbortedCancelled
  <2>4. KCutShort BY <1>2, <2>1, <2>2, <2>3, WhoMovesLoops
  <2>. QED BY <1>2, <2>4, CancelledStays
<1>. QED BY <1>1, <1>2

\* Its result is not reported: a loop reports what it has kept, and keeps what
\* was not cut short.
LEMMA AbortedUnreported == AbortedCancelled => NoAbortedReport
BY DEF AbortedCancelled, NoAbortedReport

(***************************************************************************)
(* Reloads                                                                 *)
(***************************************************************************)

\* A signal stays in one of the two channels until a load begins.
LEMMA ReloadStep == ReloadNotLost /\ [Next]_vars => ReloadNotLost'
<1>. SUFFICES ASSUME ReloadNotLost, [Next]_vars PROVE ReloadNotLost'
  OBVIOUS
<1>1. CASE Run
  BY <1>1
  DEF Run, Load, LoadFails, Save, StopOne, StartOne, Applied, RefreshTick, TakeReload,
      Shutdown, RunStep, signalVars, ReloadNotLost
<1>2. ASSUME NEW l \in Slots, Loop(l) PROVE ReloadNotLost'
  BY <1>2
  DEF Loop, Due, End, Acquire, Leave, Ran, DropOrKeep, Report, LoopStep, signalVars,
      ReloadNotLost
<1>3. CASE Change \/ Terminate \/ Start
  BY <1>3 DEF Change, Terminate, Start, signalVars, ReloadNotLost
<1>4. CASE Sighup BY <1>4 DEF Sighup, ReloadNotLost
<1>5. CASE Reload BY <1>5 DEF Reload, Queued, ReloadNotLost
<1>6. CASE Gone BY <1>6 DEF Gone, ReloadNotLost
<1>7. CASE UNCHANGED vars BY <1>7 DEF vars, signalVars, ReloadNotLost
<1>. QED BY <1>1, <1>2, <1>3, <1>4, <1>5, <1>6, <1>7 DEF Next

(***************************************************************************)
(* One loop for each check                                                 *)
(***************************************************************************)

\* The map names a loop once: the loop knows its check, and the check its id.
LEMMA RunningInjective ==
    ASSUME OneLoopPerCheck, main # "return",
           NEW id \in DOMAIN running, NEW other \in DOMAIN running,
           running[id] = running[other]
    PROVE  id = other
BY DEF OneLoopPerCheck

\* A loop enters the map when it starts, and leaves it when it is cancelled.
LEMMA LoopsStep == TypeOK /\ OneLoopPerCheck /\ [Next]_vars => OneLoopPerCheck'
<1>. SUFFICES ASSUME TypeOK, OneLoopPerCheck, [Next]_vars PROVE OneLoopPerCheck'
  OBVIOUS
<1>1. CASE StopOne
  <2>1. PICK id \in DOMAIN running :
          stopped' = stopped \cup {running[id]} /\ running' = Without(running, id)
    BY <1>1 DEF StopOne, Outdated, Cancel
  <2>2. /\ DOMAIN running' = DOMAIN running \ {id}
        /\ \A x \in DOMAIN running' : running'[x] = running[x]
    BY <2>1 DEF Without
  <2>3. UNCHANGED <<main, at, chk, cancelled>> /\ main = "reconcile"
    BY <1>1 DEF StopOne, RunStep, loopVars
  <2>4. ASSUME NEW l \in Slots, at[l] # "none", l \notin stopped'
        PROVE  \E x \in DOMAIN running' : running'[x] = l
    <3>1. PICK x \in DOMAIN running : running[x] = l
      BY <2>1, <2>4 DEF OneLoopPerCheck
    <3>. QED BY <2>1, <2>2, <2>4, <3>1
  <2>5. ASSUME NEW x \in DOMAIN running'
        PROVE  /\ chk[running[x]].id = x /\ running[x] \notin stopped'
               /\ at[running[x]] = "none" => cancelled
    <3>1. x \in DOMAIN running /\ x # id BY <2>2
    <3>2. running[x] # running[id] BY <2>3, <3>1, RunningInjective
    <3>. QED BY <2>1, <2>3, <3>1, <3>2 DEF OneLoopPerCheck
  <2>. QED BY <2>2, <2>3, <2>4, <2>5 DEF OneLoopPerCheck
<1>2. CASE StartOne
  <2>1. PICK c \in Missing, l \in Slots : /\ Free(l)
                                         /\ running' = With(running, c.id, l)
                                         /\ at' = [at EXCEPT ![l] = "wait"]
                                         /\ chk' = [chk EXCEPT ![l] = c]
                                         /\ stopped' = stopped \ {l}
    BY <1>2 DEF StartOne
  <2>2. /\ c.id \notin DOMAIN running
        /\ DOMAIN running' = DOMAIN running \cup {c.id}
        /\ running'[c.id] = l
        /\ \A x \in DOMAIN running : running'[x] = running[x] /\ running[x] # l
    BY <2>1 DEF With, Missing, Free
  <2>3. UNCHANGED <<main, cancelled>> /\ main = "reconcile"
    BY <1>2 DEF StartOne, RunStep
  <2>4. /\ at'[l] = "wait" /\ chk'[l] = c
        /\ \A k \in Slots \ {l} : at'[k] = at[k] /\ chk'[k] = chk[k]
    BY <2>1 DEF TypeOK
  <2>5. ASSUME NEW k \in Slots, at'[k] # "none", k \notin stopped'
        PROVE  \E x \in DOMAIN running' : running'[x] = k
    BY <2>1, <2>2, <2>4, <2>5 DEF OneLoopPerCheck
  <2>6. ASSUME NEW x \in DOMAIN running'
        PROVE  /\ chk'[running'[x]].id = x /\ running'[x] \notin stopped'
               /\ at'[running'[x]] = "none" => cancelled
    <3>1. CASE x = c.id BY <2>1, <2>2, <2>4, <3>1
    <3>2. CASE x # c.id
      <4>1. x \in DOMAIN running /\ running[x] \in Slots \ {l}
        BY <2>2, <3>2 DEF TypeOK
      <4>. QED BY <2>1, <2>2, <2>3, <2>4, <4>1 DEF OneLoopPerCheck
    <3>. QED BY <3>1, <3>2
  <2>. QED BY <2>2, <2>3, <2>5, <2>6 DEF OneLoopPerCheck
<1>3. CASE Shutdown
  <2>1. main' = "return" /\ UNCHANGED <<at, running>> /\ stopped \subseteq stopped'
    BY <1>3 DEF Shutdown, loopVars
  <2>. QED BY <2>1 DEF OneLoopPerCheck
<1>4. CASE Load \/ LoadFails \/ Save \/ Applied \/ RefreshTick \/ TakeReload
  <2>1. /\ UNCHANGED <<at, running, chk, stopped, cancelled>>
        /\ main # "return" /\ main' # "return"
    BY <1>4 DEF Load, LoadFails, Save, Applied, RefreshTick, TakeReload, RunStep, loopVars
  <2>. QED BY <2>1 DEF OneLoopPerCheck
<1>5. ASSUME NEW l \in Slots, Loop(l) PROVE OneLoopPerCheck'
  <2>1. CASE End(l)
    <3>1. /\ UNCHANGED <<running, main, cancelled>>
          /\ at' = [at EXCEPT ![l] = "none"] /\ stopped' = stopped \ {l}
          /\ chk' = IF l \in stopped THEN [chk EXCEPT ![l] = NoCheck] ELSE chk
          /\ Cancelled(l)
      BY <2>1 DEF End, LoopStep
    <3>2. ASSUME NEW k \in Slots, at'[k] # "none", k \notin stopped'
          PROVE  \E x \in DOMAIN running' : running'[x] = k
      BY <3>1, <3>2 DEF OneLoopPerCheck, TypeOK
    <3>3. ASSUME main # "return", NEW x \in DOMAIN running
          PROVE  /\ chk'[running[x]].id = x /\ running[x] \notin stopped'
                 /\ at'[running[x]] = "none" => cancelled
      <4>1. /\ running[x] \in Slots /\ running[x] \notin stopped
            /\ chk[running[x]].id = x
            /\ at[running[x]] = "none" => cancelled
        BY <3>3 DEF OneLoopPerCheck, TypeOK
      <4>2. chk'[running[x]] = chk[running[x]] BY <3>1, <4>1 DEF TypeOK
      <4>3. running[x] = l => cancelled BY <3>1, <4>1 DEF Cancelled
      <4>4. running[x] # l => at'[running[x]] = at[running[x]]
        BY <3>1, <4>1 DEF TypeOK
      <4>5. running[x] \notin stopped' BY <3>1, <4>1
      <4>. QED BY <4>1, <4>2, <4>3, <4>4, <4>5
    <3>. QED BY <3>1, <3>2, <3>3 DEF OneLoopPerCheck
  <2>2. CASE Due(l) \/ Acquire(l) \/ Leave(l) \/ Ran(l) \/ DropOrKeep(l) \/ Report(l)
    <3>1. /\ UNCHANGED <<running, main, cancelled, chk, stopped>>
          /\ \A k \in Slots : at'[k] = "none" <=> at[k] = "none"
      BY <2>2 DEF Due, Acquire, Leave, Ran, DropOrKeep, Report, LoopStep, TypeOK
    <3>. QED BY <3>1 DEF OneLoopPerCheck, TypeOK
  <2>. QED BY <1>5, <2>1, <2>2 DEF Loop
<1>6. CASE Change \/ Sighup \/ Reload \/ Start
  BY <1>6 DEF Change, Sighup, Reload, Start, loopVars, OneLoopPerCheck
<1>7. CASE Terminate
  BY <1>7 DEF Terminate, loopVars, OneLoopPerCheck
<1>8. CASE Gone
  <2>1. at' = [l \in Slots |-> "none"] /\ DOMAIN running' = {} BY <1>8 DEF Gone
  <2>. QED BY <2>1, Zenon DEF OneLoopPerCheck
<1>9. CASE UNCHANGED vars BY <1>9 DEF vars, loopVars, OneLoopPerCheck
<1>. QED BY <1>1, <1>2, <1>3, <1>4, <1>5, <1>6, <1>7, <1>8, <1>9 DEF Next, Run

(***************************************************************************)
(* The configuration that is applied                                       *)
(***************************************************************************)

\* The configurations move when Run loads, saves and applies one, and with the
\* process; its source changes when it starts.
LEMMA WhoMovesConfigs ==
    [Next]_vars => \/ Load \/ LoadFails \/ Save \/ Applied \/ Gone
                   \/ /\ UNCHANGED configVars
                      /\ main' = main \/ main' = "return" \/ (main = "select" /\ main' = "load")
                      /\ mode' = mode \/ (~up /\ mode' \in Modes)
<1>. SUFFICES ASSUME [Next]_vars, ~Load, ~LoadFails, ~Save, ~Applied, ~Gone
              PROVE  /\ UNCHANGED configVars
                     /\ main' = main \/ main' = "return" \/ (main = "select" /\ main' = "load")
                     /\ mode' = mode \/ (~up /\ mode' \in Modes)
  OBVIOUS
<1>1. CASE Run
  BY <1>1 DEF Run, StopOne, StartOne, RefreshTick, TakeReload, Shutdown, RunStep, processVars
<1>2. ASSUME NEW l \in Slots, Loop(l)
      PROVE  UNCHANGED <<configVars, main, mode>>
  BY <1>2 DEF Loop, Due, End, Acquire, Leave, Ran, DropOrKeep, Report, LoopStep, processVars
<1>3. CASE Change \/ Sighup \/ Reload \/ Terminate
  BY <1>3 DEF Change, Sighup, Reload, Terminate, processVars
<1>4. CASE Start BY <1>4 DEF Start
<1>5. CASE UNCHANGED vars BY <1>5 DEF vars, processVars
<1>. QED BY <1>1, <1>2, <1>3, <1>4, <1>5 DEF Next

\* A process that has ended begins with a load when it is started.
LEMMA DownStep == NothingWhileDown /\ [Next]_vars => NothingWhileDown'
<1>. SUFFICES ASSUME NothingWhileDown, [Next]_vars PROVE NothingWhileDown'
  OBVIOUS
<1>1. CASE Run
  BY <1>1
  DEF Run, Load, LoadFails, Save, StopOne, StartOne, Applied, RefreshTick, TakeReload,
      Shutdown, RunStep, processVars, NothingWhileDown
<1>2. ASSUME NEW l \in Slots, Loop(l) PROVE NothingWhileDown'
  BY <1>2
  DEF Loop, Due, End, Acquire, Leave, Ran, DropOrKeep, Report, LoopStep, processVars,
      NothingWhileDown
<1>3. CASE Change \/ Sighup \/ Reload \/ Terminate \/ Start \/ Gone
  BY <1>3 DEF Change, Sighup, Reload, Terminate, Start, Gone, processVars, NothingWhileDown
<1>4. CASE UNCHANGED vars BY <1>4 DEF vars, processVars, NothingWhileDown
<1>. QED BY <1>1, <1>2, <1>3, <1>4 DEF Next

\* What a source serves is validated before it is applied or cached.
LEMMA ConfigsStep ==
    TypeOK /\ ConfigsTyped /\ LoadedInHand /\ [Next]_vars => ConfigsTyped'
<1>. SUFFICES ASSUME TypeOK, ConfigsTyped, LoadedInHand, [Next]_vars PROVE ConfigsTyped'
  OBVIOUS
<1>. USE Bounds
<1>1. CASE Load
  <2>1. mode \in {"backend", "file"} /\ served[mode] \in Configs
    BY <1>1 DEF Load, TypeOK, ConfigsTyped
  <2>2. Validated(served[mode]) \in Lists BY <2>1 DEF Lists
  <2>3. loaded' = [from |-> mode, checks |-> Validated(served[mode])] BY <1>1 DEF Load
  <2>4. loaded' \in [from : {"none", "backend", "file"}, checks : Lists] /\ loaded'.from # "none"
    BY <2>1, <2>2, <2>3
  <2>. QED BY <1>1, <2>4 DEF Load, RunStep, processVars, ConfigsTyped
<1>2. CASE LoadFails
  <2>1. CASE cache # NoConfig /\ ~ready
    <3>1. loaded' = [cache EXCEPT !.checks = Validated(@)] BY <1>2, <2>1 DEF LoadFails
    <3>2. cache.checks \in Lists BY DEF ConfigsTyped
    <3>3. loaded' = cache BY <3>1, <3>2, ValidatedLists DEF ConfigsTyped
    <3>. QED BY <1>2, <3>3 DEF LoadFails, RunStep, processVars, ConfigsTyped
  <2>2. CASE ~(cache # NoConfig /\ ~ready)
    BY <1>2, <2>2 DEF LoadFails, RunStep, processVars, ConfigsTyped
  <2>. QED BY <2>1, <2>2
<1>3. CASE Save
  <2>1. cache' \in {cache, loaded} /\ (cache' = loaded => cache' = cache \/ mode = "backend")
    BY <1>3 DEF Save, Cached
  <2>2. loaded.from = mode BY <1>3 DEF Save, LoadedInHand
  <2>3. cache' \in [from : {"none", "backend"}, checks : Lists]
    BY <2>1, <2>2 DEF ConfigsTyped
  <2>. QED BY <1>3, <2>1, <2>3 DEF Save, RunStep, processVars, ConfigsTyped
<1>4. CASE Applied
  BY <1>4 DEF Applied, RunStep, processVars, ConfigsTyped
<1>5. CASE Gone
  <2>1. NoConfig \in [from : {"none", "backend", "file"}, checks : Lists]
    BY DEF NoConfig, Lists
  <2>2. loaded' = NoConfig /\ active' = NoConfig /\ UNCHANGED <<cache, mode>>
    BY <1>5 DEF Gone
  <2>. QED BY <2>1, <2>2 DEF ConfigsTyped
<1>6. CASE UNCHANGED configVars /\ (mode' = mode \/ mode' \in Modes)
  BY <1>6 DEF configVars, ConfigsTyped
<1>. QED BY <1>1, <1>2, <1>3, <1>4, <1>5, <1>6, WhoMovesConfigs

\* Save follows a load from the source, reconcile one or the cached list, and
\* the process is ready once a list was applied.
LEMMA InHandStep ==
    NothingWhileDown /\ TypeOK /\ ConfigsTyped /\ LoadedInHand /\ [Next]_vars => LoadedInHand'
<1>. SUFFICES ASSUME NothingWhileDown, TypeOK, ConfigsTyped, LoadedInHand, [Next]_vars
              PROVE  LoadedInHand'
  OBVIOUS
<1>. USE Bounds
<1>1. CASE Load
  BY <1>1 DEF Load, RunStep, processVars, LoadedInHand
<1>2. CASE LoadFails
  <2>1. CASE cache # NoConfig /\ ~ready
    <3>1. loaded' = [cache EXCEPT !.checks = Validated(@)] BY <1>2, <2>1 DEF LoadFails
    <3>2. cache.from = "backend" BY <2>1 DEF ConfigsTyped
    <3>3. loaded'.from = "backend" BY <3>1, <3>2 DEF ConfigsTyped
    <3>4. loaded' # NoConfig BY <3>3 DEF NoConfig
    <3>. QED BY <1>2, <2>1, <3>4 DEF LoadFails, LoadedInHand
  <2>2. CASE ~(cache # NoConfig /\ ~ready)
    BY <1>2, <2>2 DEF LoadFails, LoadedInHand
  <2>. QED BY <2>1, <2>2
<1>3. CASE Save
  <2>1. loaded.from # "none" BY <1>3 DEF Save, LoadedInHand, TypeOK
  <2>2. loaded # NoConfig BY <2>1 DEF NoConfig
  <2>. QED BY <1>3, <2>2 DEF Save, LoadedInHand
<1>4. CASE Applied BY <1>4 DEF Applied, LoadedInHand
<1>5. CASE Gone BY <1>5 DEF Gone, LoadedInHand
<1>6. CASE /\ UNCHANGED configVars
           /\ main' = main \/ main' = "return" \/ (main = "select" /\ main' = "load")
           /\ mode' = mode \/ ~up
  BY <1>6 DEF configVars, NothingWhileDown, LoadedInHand
<1>. QED BY <1>1, <1>2, <1>3, <1>4, <1>5, <1>6, WhoMovesConfigs

\* The metric is set with the cached list and cleared with one from the source.
LEMMA MetricStep ==
    ConfigsTyped /\ CacheMetric /\ [Next]_vars => CacheMetric'
<1>. SUFFICES ASSUME ConfigsTyped, CacheMetric, [Next]_vars PROVE CacheMetric'
  OBVIOUS
<1>1. CASE Load BY <1>1 DEF Load, CacheMetric, Settled
<1>2. CASE LoadFails
  <2>1. CASE cache # NoConfig /\ ~ready
    <3>1. loaded' = [cache EXCEPT !.checks = Validated(@)] BY <1>2, <2>1 DEF LoadFails
    <3>2. cache.checks \in Lists BY DEF ConfigsTyped
    <3>3. loaded' = cache BY <3>1, <3>2, ValidatedLists DEF ConfigsTyped
    <3>. QED BY <1>2, <2>1, <3>3 DEF LoadFails, CacheMetric
  <2>2. CASE ~(cache # NoConfig /\ ~ready)
    BY <1>2, <2>2 DEF LoadFails, CacheMetric, Settled
  <2>. QED BY <2>1, <2>2
<1>3. CASE Save BY <1>3 DEF Save, CacheMetric
<1>4. CASE Applied BY <1>4 DEF Applied, CacheMetric, Settled
<1>5. CASE Gone BY <1>5 DEF Gone, CacheMetric
<1>6. CASE /\ UNCHANGED configVars
           /\ main' = main \/ main' = "return" \/ (main = "select" /\ main' = "load")
  BY <1>6 DEF configVars, CacheMetric, Settled
<1>. QED BY <1>1, <1>2, <1>3, <1>4, <1>5, <1>6, WhoMovesConfigs

\* A cache that is written at every load from the backend is what is applied.
LEMMA CacheStep ==
    ASSUME HasCache = TRUE, "save" \notin Faults
    PROVE  ConfigsTyped /\ LoadedInHand /\ CacheFollows /\ [Next]_vars => CacheFollows'
<1>. SUFFICES ASSUME ConfigsTyped, LoadedInHand, CacheFollows, [Next]_vars PROVE CacheFollows'
  OBVIOUS
<1>1. CASE Load BY <1>1 DEF Load, CacheFollows, Settled
<1>2. CASE LoadFails
  <2>1. CASE cache # NoConfig /\ ~ready
    <3>1. loaded' = [cache EXCEPT !.checks = Validated(@)] BY <1>2, <2>1 DEF LoadFails
    <3>2. cache.checks \in Lists BY DEF ConfigsTyped
    <3>3. loaded' = cache BY <3>1, <3>2, ValidatedLists DEF ConfigsTyped
    <3>. QED BY <1>2, <2>1, <3>3 DEF LoadFails, CacheFollows, Settled
  <2>2. CASE ~(cache # NoConfig /\ ~ready)
    BY <1>2, <2>2 DEF LoadFails, CacheFollows, Settled
  <2>. QED BY <2>1, <2>2
<1>3. CASE Save
  <2>1. loaded.from = mode BY <1>3 DEF Save, LoadedInHand
  <2>2. cache' = Cached /\ loaded' = loaded /\ main' = "reconcile" BY <1>3 DEF Save
  <2>. QED BY <2>1, <2>2 DEF Cached, CacheFollows, Settled
<1>4. CASE Applied BY <1>4 DEF Applied, CacheFollows, Settled
<1>5. CASE Gone BY <1>5 DEF Gone, NoConfig, CacheFollows, Settled
<1>6. CASE /\ UNCHANGED configVars
           /\ main' = main \/ main' = "return" \/ (main = "select" /\ main' = "load")
  BY <1>6 DEF configVars, CacheFollows, Settled
<1>. QED BY <1>1, <1>2, <1>3, <1>4, <1>5, <1>6, WhoMovesConfigs

(***************************************************************************)
(* The loops follow the configuration                                      *)
(***************************************************************************)

RunningChecks == {chk[running[id]] : id \in DOMAIN running}

\* When nothing is outdated and nothing is missing, reconcile is done.
LEMMA ReconcileDone ==
    ASSUME ConfigsTyped, OneLoopPerCheck, main = "reconcile", Outdated = {}, Missing = {}
    PROVE  RunningChecks = Want(loaded.checks)
<1>0. loaded.checks \in Lists BY DEF ConfigsTyped
<1>1. ASSUME NEW id \in DOMAIN running PROVE chk[running[id]] \in Want(loaded.checks)
  BY DEF Outdated, Runs
<1>2. ASSUME NEW c \in Want(loaded.checks) PROVE c \in RunningChecks
  <2>1. c.id \in DOMAIN running BY DEF Missing
  <2>2. chk[running[c.id]].id = c.id BY <2>1 DEF OneLoopPerCheck
  <2>3. chk[running[c.id]] = c BY <1>0, <1>1, <2>1, <2>2, WantedOnce
  <2>. QED BY <2>1, <2>3 DEF RunningChecks
<1>. QED BY <1>1, <1>2 DEF RunningChecks

LEMMA FollowStep ==
    TypeOK /\ ConfigsTyped /\ OneLoopPerCheck /\ LoopsFollowActive /\ [Next]_vars
        => LoopsFollowActive'
<1>. SUFFICES ASSUME TypeOK, ConfigsTyped, OneLoopPerCheck, LoopsFollowActive, [Next]_vars
              PROVE  LoopsFollowActive'
  OBVIOUS
<1>1. CASE Load \/ LoadFails \/ Save \/ RefreshTick \/ TakeReload \/ Shutdown
  <2>1. /\ UNCHANGED <<running, chk, active>>
        /\ main \in {"load", "save", "select"}
    BY <1>1 DEF Load, LoadFails, Save, RefreshTick, TakeReload, Shutdown, configVars
  <2>. QED BY <2>1 DEF LoopsFollowActive, Settled
<1>2. CASE StopOne \/ StartOne
  <2>1. main' = "reconcile" BY <1>2 DEF StopOne, StartOne
  <2>. QED BY <2>1 DEF LoopsFollowActive, Settled
<1>3. CASE Applied
  <2>1. /\ UNCHANGED <<running, chk>> /\ active' = loaded
        /\ main = "reconcile" /\ Outdated = {} /\ Missing = {}
    BY <1>3 DEF Applied
  <2>2. RunningChecks = Want(loaded.checks) BY <2>1, ReconcileDone
  <2>. QED BY <2>1, <2>2 DEF RunningChecks, LoopsFollowActive
<1>4. ASSUME NEW l \in Slots, Loop(l) PROVE LoopsFollowActive'
  <2>1. CASE End(l) /\ Settled
    <3>1. UNCHANGED <<main, running, active>> /\ main # "return"
      BY <2>1 DEF End, LoopStep, configVars, Settled
    <3>2. chk' = IF l \in stopped THEN [chk EXCEPT ![l] = NoCheck] ELSE chk
      BY <2>1 DEF End
    <3>3. \A id \in DOMAIN running : running[id] \in Slots /\ running[id] \notin stopped
      BY <3>1 DEF OneLoopPerCheck, TypeOK
    <3>4. \A id \in DOMAIN running : chk'[running[id]] = chk[running[id]]
      BY <3>2, <3>3 DEF TypeOK
    <3>5. {chk'[running'[id]] : id \in DOMAIN running'} = {chk[running[id]] : id \in DOMAIN running}
      BY <3>1, <3>4
    <3>. QED BY <3>1, <3>5 DEF LoopsFollowActive, Settled
  <2>2. CASE End(l) /\ ~Settled
    BY <2>2 DEF End, LoopStep, LoopsFollowActive, Settled
  <2>3. CASE Due(l) \/ Acquire(l) \/ Leave(l) \/ Ran(l) \/ DropOrKeep(l) \/ Report(l)
    <3>1. UNCHANGED <<main, running, chk, active>>
      BY <2>3 DEF Due, Acquire, Leave, Ran, DropOrKeep, Report, LoopStep, configVars
    <3>. QED BY <3>1 DEF LoopsFollowActive, Settled
  <2>. QED BY <1>4, <2>1, <2>2, <2>3 DEF Loop
<1>5. CASE Change \/ Sighup \/ Reload \/ Terminate \/ Start
  BY <1>5 DEF Change, Sighup, Reload, Terminate, Start, configVars, LoopsFollowActive, Settled
<1>6. CASE Gone
  <2>1. DOMAIN running' = {} /\ active'.checks = <<>> BY <1>6 DEF Gone, NoConfig
  <2>2. {chk'[running'[id]] : id \in DOMAIN running'} = {} BY <2>1, Zenon
  <2>. QED BY <2>1, <2>2, NothingWanted DEF LoopsFollowActive
<1>7. CASE UNCHANGED vars BY <1>7 DEF vars, configVars, LoopsFollowActive, Settled
<1>. QED BY <1>1, <1>2, <1>3, <1>4, <1>5, <1>6, <1>7 DEF Next, Run

(***************************************************************************)
(* The theorems                                                            *)
(***************************************************************************)

LEMMA SchedulerInit == Init => SchedulerInv /\ CacheFollows
<1>. SUFFICES ASSUME Init PROVE SchedulerInv /\ CacheFollows
  OBVIOUS
<1>. USE Bounds
<1>1. /\ DOMAIN running = {} /\ main = "load" /\ up = TRUE
      /\ \A l \in Slots : at[l] = "none"
      /\ aborted = {} /\ asked = FALSE /\ inUse = 0 /\ usingCache = FALSE
      /\ ready = FALSE /\ mode \in Modes
      /\ cache = NoConfig /\ loaded = NoConfig /\ active = NoConfig
  BY DEF Init
<1>2. TypeOK
  <2>1. DOMAIN running \subseteq Ids /\ \A id \in DOMAIN running : running[id] \in Slots
    BY <1>1, Zenon
  <2>2. {loaded.from, active.from, cache.from} = {"none"} BY <1>1 DEF NoConfig
  <2>3. chk \in [Slots -> Check \cup {NoCheck}]
    BY DEF Init
  <2>4. at \in [Slots -> {"none", "wait", "acquire", "run", "ran", "report"}]
    BY DEF Init
  <2>5. /\ served \in [Modes -> Configs \cup {Unreadable}]
        /\ starts = 1 /\ changes = 0 /\ cancelled = FALSE
        /\ hup = FALSE /\ reloadCh = FALSE /\ stopped = {}
    BY DEF Init
  <2>6. /\ inUse \in 0..MaxConcurrentChecks /\ starts \in 1..MaxStarts
        /\ changes \in 0..MaxChanges
    BY <1>1, <2>5
  <2>7. /\ cache.from \in {"none", "backend"} /\ mode \in {"backend", "file"}
        /\ {loaded.from, active.from} \subseteq {"none", "backend", "file"}
        /\ main \in {"load", "save", "reconcile", "select", "return"}
        /\ stopped \subseteq Slots /\ aborted \subseteq Slots
    BY <1>1, <2>2, <2>5
  <2>. QED BY <1>1, <2>1, <2>3, <2>4, <2>5, <2>6, <2>7 DEF TypeOK
<1>3. ConfigsTyped
  <2>1. /\ NoConfig \in [from : {"none", "backend", "file"}, checks : Lists]
        /\ NoConfig \in [from : {"none", "backend"}, checks : Lists]
    BY DEF NoConfig, Lists
  <2>. QED BY <1>1, <2>1 DEF ConfigsTyped
<1>4. OneLoopPerCheck BY <1>1, Zenon DEF OneLoopPerCheck
<1>5. SlotsAccounted
  <2>1. Running = {} BY <1>1 DEF Running
  <2>. QED BY <1>1, <2>1, FS_EmptySet DEF SlotsAccounted
<1>6. LoopsFollowActive
  <2>1. {chk[running[id]] : id \in DOMAIN running} = {} BY <1>1, Zenon
  <2>2. active.checks = <<>> BY <1>1 DEF NoConfig
  <2>. QED BY <2>1, <2>2, NothingWanted DEF LoopsFollowActive
<1>7. AbortedCancelled /\ ReloadNotLost /\ LoadedInHand /\ CacheMetric /\ NothingWhileDown
  BY <1>1 DEF AbortedCancelled, ReloadNotLost, LoadedInHand, CacheMetric, NothingWhileDown
<1>8. CacheFollows BY <1>1 DEF NoConfig, CacheFollows
<1>. QED BY <1>2, <1>3, <1>4, <1>5, <1>6, <1>7, <1>8 DEF SchedulerInv

LEMMA SchedulerStep == SchedulerInv /\ [Next]_vars => SchedulerInv'
BY TypeStep, DownStep, ConfigsStep, LoopsStep, SlotsStep, AbortedStep, ReloadStep,
   InHandStep, FollowStep, MetricStep
DEF SchedulerInv

\* Whatever loads and writes fail, however often the sources change, signals
\* come and processes die: the invariant holds.
THEOREM SchedulerInvariant == Spec => []SchedulerInv
<1>1. Init => SchedulerInv BY SchedulerInit
<1>. QED BY <1>1, SchedulerStep, PTL DEF Spec

\* Every variable has its type, and the semaphore is never over its capacity.
THEOREM SchedulerTypeCorrect == Spec => []TypeOK
<1>1. SchedulerInv => TypeOK BY DEF SchedulerInv
<1>. QED BY <1>1, SchedulerInvariant, PTL

\* "starts, stops and restarts check loops": at any time the loops that are not
\* cancelled are those of the map, one for each check id.
THEOREM OneLoopForEach == Spec => []OneLoopPerCheck
<1>1. SchedulerInv => OneLoopPerCheck BY DEF SchedulerInv
<1>. QED BY <1>1, SchedulerInvariant, PTL

\* The semaphore of runCheckLoop holds one value for each check that executes.
THEOREM SemaphoreExact == Spec => []SlotsAccounted
<1>1. SchedulerInv => SlotsAccounted BY DEF SchedulerInv
<1>. QED BY <1>1, SchedulerInvariant, PTL

\* A run that a cancelled context cut short is never reported.
THEOREM AbortsAreDropped == Spec => []NoAbortedReport
<1>1. SchedulerInv => NoAbortedReport BY AbortedUnreported DEF SchedulerInv
<1>. QED BY <1>1, SchedulerInvariant, PTL

\* A SIGHUP is followed by a load that is answered after it, whichever channel
\* it found full.
THEOREM ReloadsAreKept == Spec => []ReloadNotLost
<1>1. SchedulerInv => ReloadNotLost BY DEF SchedulerInv
<1>. QED BY <1>1, SchedulerInvariant, PTL

\* Between two applies the loops run the wanted checks of the configuration last
\* applied, and the metric tells whether it came from the cache.
THEOREM LoopsRunActive == Spec => []RunsActive
<1>1. SchedulerInv => RunsActive
  BY DEF SchedulerInv, LoopsFollowActive, CacheMetric, LoadedInHand, Settled, RunsActive
<1>. QED BY <1>1, SchedulerInvariant, PTL

\* When there is a cache and its writes succeed, it holds the configuration from
\* the backend that is applied.
THEOREM CacheKeptCurrent ==
    ASSUME HasCache = TRUE, "save" \notin Faults
    PROVE  Spec => []CacheIsActive
<1>1. Init => SchedulerInv /\ CacheFollows BY SchedulerInit
<1>2. SchedulerInv /\ CacheFollows /\ [Next]_vars => (SchedulerInv /\ CacheFollows)'
  BY SchedulerStep, CacheStep DEF SchedulerInv
<1>3. SchedulerInv /\ CacheFollows => CacheIsActive
  BY DEF CacheFollows, Settled, CacheIsActive
<1>. QED BY <1>1, <1>2, <1>3, PTL DEF Spec

(***************************************************************************)
(* Unchanged checks keep their loop through a refresh                      *)
(***************************************************************************)

\* In the middle of a reconcile, what the configuration before and the one that
\* comes both want still has the loop it had.
KeptInPlace ==
    main = "reconcile" =>
        \A c \in Want(active.checks) : c \in Want(loaded.checks) => Runs(c.id, c)

\* When a reconcile begins, every check that was applied has its loop.
LEMMA AppliedRun ==
    ASSUME OneLoopPerCheck, LoopsFollowActive, Settled, NEW c \in Want(active.checks)
    PROVE  Runs(c.id, c)
<1>1. PICK id \in DOMAIN running : chk[running[id]] = c
  BY DEF LoopsFollowActive
<1>2. main # "return" BY DEF Settled
<1>3. c.id = id BY <1>1, <1>2 DEF OneLoopPerCheck
<1>. QED BY <1>1, <1>3 DEF Runs

\* No step of reconcile, of a loop or of the outside takes it away.
LEMMA KeptStep ==
    TypeOK /\ OneLoopPerCheck /\ LoopsFollowActive /\ KeptInPlace /\ [Next]_vars
        => KeptInPlace'
<1>. SUFFICES ASSUME TypeOK, OneLoopPerCheck, LoopsFollowActive, KeptInPlace,
                     [Next]_vars, main' = "reconcile",
                     NEW c \in Want(active'.checks), c \in Want(loaded'.checks)
              PROVE  Runs(c.id, c)'
  BY DEF KeptInPlace
<1>1. CASE Load \/ LoadFails \/ Save
  <2>1. UNCHANGED <<active, running, chk>> /\ Settled
    BY <1>1 DEF Load, LoadFails, Save, Settled
  <2>2. Runs(c.id, c) BY <2>1, AppliedRun
  <2>. QED BY <2>1, <2>2 DEF Runs
<1>2. CASE StopOne
  <2>1. PICK id \in Outdated : running' = Without(running, id)
    BY <1>2 DEF StopOne
  <2>2. UNCHANGED <<active, loaded, chk>> /\ main = "reconcile"
    BY <1>2 DEF StopOne, configVars
  <2>3. Runs(c.id, c) BY <2>2 DEF KeptInPlace
  <2>4. c.id # id BY <2>1, <2>2, <2>3 DEF Outdated
  <2>5. c.id \in DOMAIN running' /\ running'[c.id] = running[c.id]
    BY <2>1, <2>3, <2>4 DEF Without, Runs
  <2>. QED BY <2>2, <2>3, <2>5 DEF Runs
<1>3. CASE StartOne
  <2>1. PICK m \in Missing, l \in Slots : /\ Free(l)
                                         /\ running' = With(running, m.id, l)
                                         /\ chk' = [chk EXCEPT ![l] = m]
    BY <1>3 DEF StartOne
  <2>2. UNCHANGED <<active, loaded>> /\ main = "reconcile"
    BY <1>3 DEF StartOne, configVars
  <2>3. Runs(c.id, c) BY <2>2 DEF KeptInPlace
  <2>4. c.id \in DOMAIN running /\ m.id \notin DOMAIN running
    BY <2>1, <2>3 DEF Missing, Runs
  <2>5. c.id \in DOMAIN running' /\ running'[c.id] = running[c.id]
    BY <2>1, <2>4 DEF With
  <2>6. running[c.id] \in Slots /\ running[c.id] # l
    BY <2>1, <2>4 DEF Free, TypeOK
  <2>7. chk'[running[c.id]] = chk[running[c.id]]
    BY <2>1, <2>6 DEF TypeOK
  <2>. QED BY <2>3, <2>5, <2>7 DEF Runs
<1>4. ASSUME NEW l \in Slots, Loop(l) PROVE Runs(c.id, c)'
  <2>1. UNCHANGED <<running, loaded, active, main>>
    BY <1>4 DEF Loop, Due, End, Acquire, Leave, Ran, DropOrKeep, Report, LoopStep,
       configVars
  <2>2. chk' = chk \/ (l \in stopped /\ chk' = [chk EXCEPT ![l] = NoCheck])
    BY <1>4 DEF Loop, Due, End, Acquire, Leave, Ran, DropOrKeep, Report, LoopStep
  <2>3. Runs(c.id, c) BY <2>1 DEF KeptInPlace
  <2>4. running[c.id] \in Slots /\ running[c.id] \notin stopped
    BY <2>1, <2>3 DEF OneLoopPerCheck, TypeOK, Runs
  <2>5. chk'[running[c.id]] = chk[running[c.id]] BY <2>2, <2>4 DEF TypeOK
  <2>. QED BY <2>1, <2>3, <2>5 DEF Runs
<1>5. CASE Change \/ Sighup \/ Reload \/ Terminate \/ Start \/ UNCHANGED vars
  <2>1. UNCHANGED <<running, loaded, active, chk, main>>
    BY <1>5 DEF Change, Sighup, Reload, Terminate, Start, vars, configVars
  <2>2. Runs(c.id, c) BY <2>1 DEF KeptInPlace
  <2>. QED BY <2>1, <2>2 DEF Runs
<1>6. ~Applied /\ ~RefreshTick /\ ~TakeReload /\ ~Shutdown /\ ~Gone
  BY DEF Applied, RefreshTick, TakeReload, Shutdown, Gone
<1>. QED BY <1>1, <1>2, <1>3, <1>4, <1>5, <1>6 DEF Next, Run

\* Only StartOne starts a loop, and not where one was kept.
LEMMA NoneBegins ==
    ASSUME TypeOK, KeptInPlace, [Next]_vars, NEW id \in Ids, Begins(id)
    PROVE  chk'[running'[id]] \notin Want(active.checks)
<1>1. CASE StartOne
  <2>1. PICK m \in Missing, l \in Slots : /\ running' = With(running, m.id, l)
                                         /\ chk' = [chk EXCEPT ![l] = m]
    BY <1>1 DEF StartOne
  <2>2. main = "reconcile" BY <1>1 DEF StartOne
  <2>3. id = m.id /\ running'[id] = l BY <2>1 DEF With, Begins
  <2>4. m \in Want(loaded.checks) /\ m.id \notin DOMAIN running
    BY <2>1 DEF Missing
  <2>5. m \notin Want(active.checks) BY <2>2, <2>4 DEF KeptInPlace, Runs
  <2>6. chk'[l] = m BY <2>1 DEF TypeOK
  <2>. QED BY <2>3, <2>5, <2>6
<1>2. ~StopOne
  <2>. SUFFICES ASSUME StopOne PROVE FALSE
    OBVIOUS
  <2>1. PICK o \in Outdated : running' = Without(running, o) BY DEF StopOne
  <2>. QED BY <2>1 DEF Without, Begins
<1>3. ~Gone
  <2>. SUFFICES ASSUME Gone PROVE FALSE
    OBVIOUS
  <2>1. DOMAIN running' = {} BY DEF Gone
  <2>. QED BY <2>1 DEF Begins
<1>4. running' # running BY DEF Begins
<1>5. \A l \in Slots : ~Loop(l)
  BY <1>4 DEF Loop, Due, End, Acquire, Leave, Ran, DropOrKeep, Report, LoopStep
<1>6. /\ ~Load /\ ~LoadFails /\ ~Save /\ ~Applied
      /\ ~RefreshTick /\ ~TakeReload /\ ~Shutdown
  BY <1>4 DEF Load, LoadFails, Save, Applied, RefreshTick, TakeReload, Shutdown
<1>7. ~Change /\ ~Sighup /\ ~Reload /\ ~Terminate /\ ~Start /\ ~UNCHANGED vars
  BY <1>4 DEF Change, Sighup, Reload, Terminate, Start, vars
<1>. QED BY <1>1, <1>2, <1>3, <1>5, <1>6, <1>7 DEF Next, Run

\* "leaves unchanged checks running so their ticker phase is preserved": through
\* every refresh, failed load and restart of other checks, no loop is started for
\* a check that the configuration applied before already wanted.
THEOREM UnchangedUndisturbed == Spec => UnchangedKeepRunning
<1>1. Init => SchedulerInv /\ KeptInPlace
  <2>1. Init => main = "load" BY DEF Init
  <2>. QED BY <2>1, SchedulerInit DEF KeptInPlace
<1>2. SchedulerInv /\ KeptInPlace /\ [Next]_vars => (SchedulerInv /\ KeptInPlace)'
  BY SchedulerStep, KeptStep DEF SchedulerInv
<1>3. SchedulerInv /\ KeptInPlace /\ [Next]_vars
        => [\A id \in Ids : Begins(id)
                 => chk'[running'[id]] \notin Want(active.checks)]_vars
  BY NoneBegins DEF SchedulerInv
<1>. QED BY <1>1, <1>2, <1>3, PTL DEF Spec, UnchangedKeepRunning

(***************************************************************************)
(* A reconcile comes to its end                                            *)
(***************************************************************************)

\* A set with less in it.
Fewer(S, T) == S \subseteq T /\ S # T

\* While reconcile is under way each change of the map takes a check off what is
\* left to do, first the stops and then the starts, and nothing else puts one
\* back: no loop that ends, no signal, no change of the sources.
ReconcileShrinks ==
    [][main = "reconcile" /\ main' = "reconcile" =>
          \/ UNCHANGED <<running, Outdated, Missing>>
          \/ Fewer(Outdated', Outdated)
          \/ Outdated = {} /\ Outdated' = {} /\ Fewer(Missing', Missing)]_vars

\* What is left to do is finite.
ReconcileFinite == IsFiniteSet(Outdated) /\ IsFiniteSet(Missing)

\* What is outdated and missing depends on the map, the checks of its loops and
\* the configuration only.
LEMMA SameToDo ==
    ASSUME UNCHANGED <<running, loaded>>,
           \A id \in DOMAIN running : chk'[running[id]] = chk[running[id]]
    PROVE  UNCHANGED <<Outdated, Missing>>
<1>1. \A id \in DOMAIN running : \A c : (Runs(id, c))' <=> Runs(id, c)
  BY DEF Runs
<1>2. Outdated' = Outdated BY <1>1 DEF Outdated
<1>3. Missing' = Missing BY DEF Missing
<1>. QED BY <1>2, <1>3

\* Each step of reconcile takes one away.
LEMMA ShrinkStep ==
    ASSUME TypeOK, ConfigsTyped, OneLoopPerCheck, [Next]_vars,
           main = "reconcile", main' = "reconcile"
    PROVE  \/ UNCHANGED <<running, Outdated, Missing>>
           \/ Fewer(Outdated', Outdated)
           \/ Outdated = {} /\ Outdated' = {} /\ Fewer(Missing', Missing)
<1>1. CASE StopOne
  <2>1. PICK id \in Outdated : running' = Without(running, id)
    BY <1>1 DEF StopOne
  <2>2. UNCHANGED <<chk, loaded>> BY <1>1 DEF StopOne, configVars
  <2>3. /\ DOMAIN running' = DOMAIN running \ {id}
        /\ \A x \in DOMAIN running' : running'[x] = running[x]
    BY <2>1 DEF Without
  <2>4. Outdated' \subseteq Outdated BY <2>2, <2>3 DEF Outdated, Runs
  <2>5. id \notin Outdated' BY <2>3 DEF Outdated
  <2>. QED BY <2>1, <2>4, <2>5 DEF Fewer
<1>2. CASE StartOne
  <2>1. PICK c \in Missing, l \in Slots : /\ Free(l)
                                         /\ running' = With(running, c.id, l)
                                         /\ chk' = [chk EXCEPT ![l] = c]
    BY <1>2 DEF StartOne
  <2>2. UNCHANGED loaded /\ Outdated = {} BY <1>2 DEF StartOne, configVars
  <2>3. /\ c.id \notin DOMAIN running /\ c \in Want(loaded.checks)
        /\ DOMAIN running' = DOMAIN running \cup {c.id}
        /\ running'[c.id] = l
        /\ \A x \in DOMAIN running : running'[x] = running[x] /\ running[x] # l
    BY <2>1 DEF With, Missing, Free
  <2>4. chk'[l] = c /\ \A k \in Slots \ {l} : chk'[k] = chk[k]
    BY <2>1 DEF TypeOK
  <2>5. \A x \in DOMAIN running : running[x] \in Slots \ {l}
    BY <2>3 DEF TypeOK
  <2>6. ASSUME NEW x \in DOMAIN running' PROVE x \notin Outdated'
    <3>1. CASE x = c.id BY <2>2, <2>3, <2>4, <3>1 DEF Outdated, Runs
    <3>2. CASE x # c.id
      <4>1. x \in DOMAIN running /\ chk'[running'[x]] = chk[running[x]]
        BY <2>3, <2>4, <2>5, <3>2
      <4>2. PICK w \in Want(loaded.checks) : chk[running[x]] = w
        BY <2>2, <4>1 DEF Outdated, Runs
      <4>. QED BY <2>2, <4>1, <4>2 DEF Outdated, Runs
    <3>. QED BY <3>1, <3>2
  <2>7. Outdated' = {} BY <2>6 DEF Outdated
  <2>8. Missing' \subseteq Missing /\ c \in Missing /\ c \notin Missing'
    BY <2>1, <2>2, <2>3 DEF Missing
  <2>. QED BY <2>2, <2>7, <2>8 DEF Fewer
<1>3. ASSUME NEW l \in Slots, Loop(l) PROVE UNCHANGED <<running, Outdated, Missing>>
  <2>1. UNCHANGED <<running, loaded>>
    BY <1>3 DEF Loop, Due, End, Acquire, Leave, Ran, DropOrKeep, Report, LoopStep,
       configVars
  <2>2. chk' = chk \/ (l \in stopped /\ chk' = [chk EXCEPT ![l] = NoCheck])
    BY <1>3 DEF Loop, Due, End, Acquire, Leave, Ran, DropOrKeep, Report, LoopStep
  <2>3. \A id \in DOMAIN running : running[id] \in Slots /\ running[id] \notin stopped
    BY DEF OneLoopPerCheck, TypeOK
  <2>4. \A id \in DOMAIN running : chk'[running[id]] = chk[running[id]]
    BY <2>2, <2>3 DEF TypeOK
  <2>. QED BY <2>1, <2>4, SameToDo
<1>4. CASE Change \/ Sighup \/ Reload \/ Terminate \/ Start \/ UNCHANGED vars
  <2>1. UNCHANGED <<running, loaded, chk>>
    BY <1>4 DEF Change, Sighup, Reload, Terminate, Start, vars, configVars
  <2>. QED BY <2>1, SameToDo
<1>5. ~Load /\ ~LoadFails /\ ~Save /\ ~Applied /\ ~RefreshTick /\ ~TakeReload
        /\ ~Shutdown /\ ~Gone
  BY DEF Load, LoadFails, Save, Applied, RefreshTick, TakeReload, Shutdown, Gone
<1>. QED BY <1>1, <1>2, <1>3, <1>4, <1>5 DEF Next, Run

\* A finite list wants finitely many checks.
LEMMA WantFinite ==
    ASSUME NEW list \in Lists
    PROVE  IsFiniteSet(Want(list))
<1>1. IsFiniteSet(DOMAIN list)
  <2>1. CASE list = <<>> BY <2>1, FS_EmptySet
  <2>2. CASE \E c \in Configs : list = Validated(c)
    <3>1. PICK c \in Configs : list = Validated(c) BY <2>2
    <3>2. c \in Seq(Check) BY SchedulerAssumption
    <3>3. DOMAIN c = 1..Len(c) /\ Len(c) \in Int BY <3>2
    <3>4. IsFiniteSet(DOMAIN c) BY <3>3, FS_Interval
    <3>5. DOMAIN list \subseteq DOMAIN c BY <3>1 DEF Validated
    <3>. QED BY <3>4, <3>5, FS_Subset
  <2>. QED BY <2>1, <2>2 DEF Lists
<1>. DEFINE Listed == {list[i] : i \in DOMAIN list}
            f == [i \in DOMAIN list |-> list[i]]
<1>2. f \in Surjection(DOMAIN list, Listed) BY DEF Surjection
<1>3. IsFiniteSet(Listed)
  <2>. HIDE DEF Listed, f
  <2>. QED BY <1>1, <1>2, FS_Surjection
<1>4. Want(list) \subseteq Listed BY DEF Want
<1>. QED BY <1>3, <1>4, FS_Subset

\* And finitely many loops are in the map.
LEMMA ToDoFinite ==
    ASSUME TypeOK, ConfigsTyped, OneLoopPerCheck, main = "reconcile"
    PROVE  ReconcileFinite
<1>1. IsFiniteSet(Missing)
  <2>1. loaded.checks \in Lists BY DEF ConfigsTyped
  <2>2. Missing \subseteq Want(loaded.checks) BY DEF Missing
  <2>. QED BY <2>1, <2>2, WantFinite, FS_Subset
<1>2. IsFiniteSet(DOMAIN running)
  <2>. DEFINE f == [id \in DOMAIN running |-> running[id]]
  <2>1. f \in [DOMAIN running -> Slots] BY DEF TypeOK
  <2>2. \A id, o \in DOMAIN running : f[id] = f[o] => id = o
    BY RunningInjective
  <2>3. f \in Injection(DOMAIN running, Slots)
    BY <2>1, <2>2 DEF Injection, IsInjective
  <2>4. IsFiniteSet(Slots) BY Bounds, FS_Interval DEF Slots
  <2>. HIDE DEF f
  <2>. QED BY <2>3, <2>4, FS_Injection
<1>3. Outdated \subseteq DOMAIN running BY DEF Outdated
<1>. QED BY <1>1, <1>2, <1>3, FS_Subset DEF ReconcileFinite

\* So a reconcile ends after finitely many stops and starts, whatever the loops,
\* the signals and the sources do meanwhile; what Applied then finds running is
\* what is wanted.
THEOREM ReconcileEnds ==
    Spec => /\ ReconcileShrinks
            /\ [](main = "reconcile" => ReconcileFinite)
<1>. DEFINE Shrinks == main = "reconcile" /\ main' = "reconcile" =>
          \/ UNCHANGED <<running, Outdated, Missing>>
          \/ Fewer(Outdated', Outdated)
          \/ Outdated = {} /\ Outdated' = {} /\ Fewer(Missing', Missing)
<1>1. SchedulerInv /\ [Next]_vars => [Shrinks]_vars
  BY ShrinkStep DEF SchedulerInv
<1>2. SchedulerInv => (main = "reconcile" => ReconcileFinite)
  BY ToDoFinite DEF SchedulerInv
<1>. QED BY <1>1, <1>2, SchedulerInvariant, PTL DEF Spec, ReconcileShrinks
=============================================================================
