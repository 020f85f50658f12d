------------------------------- MODULE Spool -------------------------------
(***************************************************************************)
(* The result spool of internal/spool/spool.go: a bounded FIFO of batches  *)
(* the agent could not deliver, kept in a directory or in memory.          *)
(*                                                                         *)
(* Every method holds the mutex for its whole body, so one call is one     *)
(* action; what interleaves is the calls of several goroutines (the check  *)
(* loops add, the dispatcher adds, and the dispatcher's replay takes the   *)
(* oldest batch, delivers it without the lock, and only then removes it),  *)
(* and the process dying between or inside calls.                          *)
(***************************************************************************)
EXTENDS Integers, Sequences, FiniteSets

CONSTANTS
    OnDisk,      \* a spool directory is configured (dir # "")
    MaxBatches,  \* the cap; zero or less disables it
    Batches,     \* the batches callers add, each a non-empty sequence
    Faults,      \* what the environment may do wrong, see FaultKinds
    MaxAdds,     \* bound: batches ever added
    MaxNano      \* bound: the wall clock

\* Calls of the operating system that may fail, and a wall clock that may be
\* set back.
FaultKinds == {"write", "remove", "read", "list", "clock"}

ASSUME SpoolAssumption ==
    /\ OnDisk \in BOOLEAN
    /\ MaxBatches \in Int
    /\ <<>> \notin Batches
    /\ Faults \subseteq FaultKinds
    /\ MaxAdds \in Nat
    /\ MaxNano \in Nat

VARIABLES
    files,  \* the batch files in the directory
    mem,    \* the in-memory queue, used without a directory
    count,  \* the depth the process keeps in memory
    seq,    \* sequence number that disambiguates equal clock readings
    clock,  \* last reading of the wall clock
    held,   \* what Oldest handed to the replay loop, NoBatch if nothing
    up,     \* the process runs
    adds    \* history: batches ever added, the source of their ages

vars == <<files, mem, count, seq, clock, held, up, adds>>

(***************************************************************************)
(* A spooled batch.  nano and seq are its file name; age, its place in the *)
(* order of the Add calls, is history the program does not keep.           *)
(***************************************************************************)
Entry == [nano : Nat, seq : Nat, age : Nat, results : Batches]

\* The zero Batch of the code.
NoBatch == [nano |-> 0, seq |-> 0, age |-> 0, results |-> <<>>]

SameName(f, g) == f.nano = g.nano /\ f.seq = g.seq

\* A slip in the name: the sequence number comes first.
SeqFirst(f, g) ==
    \/ f.seq < g.seq
    \/ f.seq = g.seq /\ f.nano < g.nano

\* The order of the zero-padded file names.
Before(f, g) ==
    \/ f.nano < g.nano
    \/ f.nano = g.nano /\ f.seq < g.seq

Stored == IF OnDisk THEN files ELSE {mem[i] : i \in 1..Len(mem)}

TypeOK ==
    /\ files \subseteq Entry
    /\ IsFiniteSet(files)
    /\ mem \in Seq(Entry)
    /\ count \in Int
    /\ seq \in Nat
    /\ clock \in Nat
    /\ held \in Entry \cup {NoBatch}
    /\ up \in BOOLEAN
    /\ adds \in Nat

Init ==
    /\ files = {} /\ mem = <<>> /\ held = NoBatch
    /\ count = 0 /\ seq = 0 /\ adds = 0 /\ clock = 1
    /\ up = TRUE

-----------------------------------------------------------------------------
\* The files among S on which a call of this kind may fail.
May(kind, S) == IF kind \in Faults THEN SUBSET S ELSE {{}}

\* Readings the wall clock may give next, within one run of the process.
Stamps == IF "clock" \in Faults THEN 1..MaxNano ELSE clock..MaxNano

\* The directory once f is renamed into place: a file of that name is replaced.
Written(f) == {g \in files : ~SameName(g, f)} \cup {f}

\* The file Add names: the sequence number tells equal clock readings apart.
NewFile(results, nano) ==
    [nano |-> nano, seq |-> seq + 1, age |-> adds + 1, results |-> results]

\* A slip in the test: the batch just added is not counted.
WithinCapOffByOne == MaxBatches <= 0 \/ count <= MaxBatches

\* The cap is off, or met by the batches with the one just added.
WithinCap == MaxBatches <= 0 \/ count + 1 <= MaxBatches

\* gone is what a scan of S in the order of the names has deleted so far.
OldestOf(S, gone) == gone \subseteq S /\ \A f \in gone, g \in S \ gone : Before(f, g)

\* trimLocked on the directory fs: gone is what it deletes when the files of
\* stuck cannot be removed.  It goes through the names in order and stops at
\* the cap; a list error deletes nothing.
Trimmed(fs, stuck, gone) ==
    IF WithinCap THEN gone = {}
    ELSE \/ /\ OldestOf(fs \ stuck, gone)
            /\ gone = {} \/ Cardinality(fs \ gone) >= MaxBatches
            /\ gone = fs \ stuck \/ Cardinality(fs \ gone) <= MaxBatches
         \/ "list" \in Faults /\ gone = {}

AddDisk(results) ==
    /\ OnDisk
    /\ \E nano \in Stamps :
         LET fs == Written(NewFile(results, nano))
         IN  /\ clock' = nano
             /\ \E stuck \in May("remove", fs), gone \in SUBSET fs :
                  /\ Trimmed(fs, stuck, gone)
                  /\ files' = fs \ gone
                  /\ count' = count + 1 - Cardinality(gone)
    /\ seq' = seq + 1
    /\ UNCHANGED mem

\* Slips in trimLocked: it does nothing in memory, or keeps the head.
NoExcess(m) == 0
KeepsHead(m, n) == SubSeq(m, 1, Len(m) - n)

\* How many batches trimLocked drops from the queue m, and what it leaves.
Excess(m) ==
    IF ~WithinCap /\ Len(m) > MaxBatches THEN Len(m) - MaxBatches ELSE 0
Kept(m, n) == SubSeq(m, n + 1, Len(m))

AddMem(results) ==
    /\ ~OnDisk
    /\ LET m == Append(mem, [nano |-> 0, seq |-> 0, age |-> adds + 1,
                             results |-> results])
       IN  /\ mem' = Kept(m, Excess(m))
           /\ count' = count + 1 - Excess(m)
    /\ UNCHANGED <<files, seq, clock>>

\* Add, returning no error.
Add(results) ==
    /\ up
    /\ adds < MaxAdds
    /\ results # <<>>
    /\ adds' = adds + 1
    /\ AddDisk(results) \/ AddMem(results)
    /\ UNCHANGED <<held, up>>

\* Add when the file cannot be written: the name is spent, nothing is stored.
AddFails(results) ==
    /\ up
    /\ OnDisk
    /\ "write" \in Faults
    /\ results # <<>>
    /\ seq < MaxAdds
    /\ clock' \in Stamps
    /\ seq' = seq + 1
    /\ UNCHANGED <<files, mem, count, held, up, adds>>

\* Slips in Oldest: a file that does not decode is handed out empty, or the
\* names are taken from the end.
OldestUndecoded ==
    /\ OnDisk
    /\ \E bad \in May("read", files) :
         held' = IF files = {} THEN NoBatch
                 ELSE LET first == CHOOSE f \in files :
                                     \A g \in files : g = f \/ Before(f, g)
                      IN  IF first \in bad THEN [first EXCEPT !.results = <<>>]
                                           ELSE first
    /\ UNCHANGED <<files, mem, count>>
OldestIsNewest ==
    /\ OnDisk
    /\ held' = IF files = {} THEN NoBatch
               ELSE CHOOSE f \in files : \A g \in files : g = f \/ Before(g, f)
    /\ UNCHANGED <<files, mem, count>>

OldestDisk ==
    /\ OnDisk
    /\ \/ \E bad \in May("read", files) :
          \E stuck \in May("remove", bad) :
             LET good == files \ bad
                 gone(first) == {f \in bad \ stuck :
                                   good = {} \/ Before(f, first)}
             IN  \E first \in IF good = {} THEN {NoBatch} ELSE good :
                    /\ \A g \in good : g = first \/ Before(first, g)
                    /\ held' = first
                    /\ files' = files \ gone(first)
                    /\ count' = Cardinality(files) - Cardinality(gone(first))
       \/ /\ "list" \in Faults
          /\ UNCHANGED <<files, count, held>>
    /\ UNCHANGED mem

OldestMem ==
    /\ ~OnDisk
    /\ held' = IF mem = <<>> THEN NoBatch ELSE Head(mem)
    /\ UNCHANGED <<files, mem, count>>

\* Oldest: the oldest readable batch goes to the replay loop; unreadable ones
\* before it are deleted when they can be.
Oldest ==
    /\ up
    /\ held = NoBatch
    /\ OldestDisk \/ OldestMem
    /\ UNCHANGED <<seq, clock, up, adds>>

\* Slips in Remove: the count is lowered although the removal failed, the file
\* that is now oldest is removed, or none is.
RemoveMiscounts ==
    /\ OnDisk
    /\ files' \in {files, {f \in files : ~SameName(f, held)}}
    /\ count' = count - 1
    /\ UNCHANGED mem
RemoveOldest ==
    /\ OnDisk
    /\ LET target == {f \in files : \A g \in files : g = f \/ Before(f, g)}
       IN  files' = files \ target /\ count' = count - Cardinality(target)
    /\ UNCHANGED mem
RemoveNothing == OnDisk /\ UNCHANGED <<files, mem, count>>

\* On disk the held batch is removed by name; a file that is already gone (a
\* concurrent trim took it) or cannot be removed leaves the count alone.
RemoveDisk ==
    /\ OnDisk
    /\ \/ LET target == {f \in files : SameName(f, held)}
          IN  /\ files' = files \ target
              /\ count' = count - Cardinality(target)
       \/ /\ "remove" \in Faults
          /\ UNCHANGED <<files, count>>
    /\ UNCHANGED mem

\* A slip in Remove: the count is not lowered.
RemoveMemMiscounts ==
    ~OnDisk /\ mem # <<>> /\ mem' = Tail(mem) /\ UNCHANGED <<files, count>>

\* In memory whatever is at the head goes, held or not.
RemoveMem ==
    /\ ~OnDisk
    /\ IF mem = <<>>
       THEN UNCHANGED <<mem, count>>
       ELSE mem' = Tail(mem) /\ count' = count - 1
    /\ UNCHANGED files

Remove ==
    /\ up
    /\ held # NoBatch
    /\ RemoveDisk \/ RemoveMem
    /\ held' = NoBatch
    /\ UNCHANGED <<seq, clock, up, adds>>

\* The replay loop's delivery failed: it forgets the batch, the spool keeps it.
GiveUp ==
    /\ up
    /\ held # NoBatch
    /\ held' = NoBatch
    /\ UNCHANGED <<files, mem, count, seq, clock, up, adds>>

\* The process is gone, and its memory with it.
Died ==
    /\ up' = FALSE
    /\ mem' = <<>> /\ held' = NoBatch
    /\ count' = 0 /\ seq' = 0

Crash ==
    /\ up
    /\ Died
    /\ UNCHANGED <<files, clock, adds>>

\* The process dies inside Add, after the rename and during the trim.
CrashInAdd(results) ==
    /\ up
    /\ OnDisk
    /\ adds < MaxAdds
    /\ results # <<>>
    /\ adds' = adds + 1
    /\ \E nano \in Stamps :
         LET fs == Written(NewFile(results, nano))
         IN  /\ clock' = nano
             /\ \E stuck \in May("remove", fs), gone \in SUBSET fs :
                  /\ OldestOf(fs \ stuck, gone)
                  /\ \/ gone = {}
                     \/ ~WithinCap /\ Cardinality(fs \ gone) >= MaxBatches
                  /\ files' = fs \ gone
    /\ Died

\* A slip in Open: what the last process left is not counted.
Uncounted == 0

\* The batch files a new process finds.
Found == IF OnDisk THEN Cardinality(files) ELSE 0

\* A new process opens the spool.  The clock has moved on since the last
\* reading, unless it was set back.
Open ==
    /\ ~up
    /\ up' = TRUE
    /\ clock' \in IF "clock" \in Faults THEN 1..MaxNano ELSE (clock + 1)..MaxNano
    /\ count' = Found
    /\ UNCHANGED <<files, mem, seq, held, adds>>

Next ==
    \/ \E b \in Batches : Add(b) \/ AddFails(b) \/ CrashInAdd(b)
    \/ Oldest
    \/ Remove
    \/ GiveUp
    \/ Crash
    \/ Open

Spec == Init /\ [][Next]_vars

-----------------------------------------------------------------------------
(* Properties *)

\* The depth the process keeps, which gates the cap in trimLocked and the
\* replay in replaySpool, is the number of batches really stored, whatever
\* failed removals, dropped unreadable files, concurrent trims and restarts
\* the spool went through.
CountMatches ==
    up => count = IF OnDisk THEN Cardinality(files) ELSE Len(mem)

InAgeOrder(m) == \A i, j \in 1..Len(m) : i < j <=> m[i].age < m[j].age

\* File names sort in the order of the Add calls, across restarts and equal
\* clock readings: what the code takes as oldest is what was added first.
Chronological ==
    /\ \A f, g \in files : f.age < g.age <=> Before(f, g)
    /\ InAgeOrder(mem)

\* What the names of the files and of the held batch rest on: no name is given
\* twice, and the next one is after all of them, in this process or the next.
Issued(f) == f.nano < clock \/ (f.nano = clock /\ (up => f.seq <= seq))

NamesIssued ==
    /\ \A f \in files : Issued(f)
    /\ \A f, g \in files : SameName(f, g) => f = g

AgesIssued ==
    /\ \A f \in files : f.age <= adds
    /\ \A i \in 1..Len(mem) : mem[i].age <= adds

HeldKeepsName ==
    held # NoBatch /\ OnDisk =>
        Issued(held) /\ \A f \in files : SameName(f, held) => f = held

NothingInMemoryWhenDown == ~up => mem = <<>> /\ held = NoBatch

NoFilesInMemory == ~OnDisk => files = {}

\* The inductive invariant: the type invariant, the two properties above and
\* what keeps them, namely that names and ages are issued in order, that a
\* delivered batch is still the only one of its name, that a process starts
\* with nothing in memory, and that without a directory there are no files.
SpoolInv ==
    /\ TypeOK
    /\ NamesIssued
    /\ AgesIssued
    /\ HeldKeepsName
    /\ NothingInMemoryWhenDown
    /\ NoFilesInMemory
    /\ Chronological
    /\ CountMatches

\* "Remove discards a batch previously returned by Oldest after it was
\* delivered": no other batch leaves the spool, although check loops may have
\* added to it and trimmed it while the batch was being delivered.
RemoveDiscardsDelivered ==
    [][held # NoBatch /\ held' = NoBatch /\ up'
         => Stored \ Stored' \subseteq {held}]_vars

\* An Add that returns leaves at most MaxBatches batches when the file system
\* works, even if earlier processes died before they trimmed.
CapAfterAdd ==
    [][adds' # adds /\ up' /\ MaxBatches > 0
         => Cardinality(Stored') <= MaxBatches]_vars

\* "It is a bounded FIFO: when full, the oldest batches are dropped": an Add
\* keeps the batch it was called for, and every batch it drops is older than
\* every batch it keeps.
DropsOldestFirst ==
    [][adds' # adds /\ up'
         => /\ \E e \in Stored' : e.age = adds'
            /\ \A e \in Stored \ Stored', k \in Stored' : e.age < k.age]_vars

\* The spool implements the bounded queue its callers rely on: the queue holds
\* the ages of the stored batches.
Fifo == INSTANCE BoundedFifo WITH
    Durable <- OnDisk,
    Cap     <- MaxBatches,
    queue   <- {e.age : e \in Stored},
    taken   <- held.age,
    put     <- adds

\* Every step of the spool is a step of the bounded queue: nothing but the cap,
\* an unreadable file, a delivery or, in memory, a restart takes a batch out,
\* and the order of the Add calls decides which one.
ImplementsFifo == Fifo!Spec
=============================================================================
