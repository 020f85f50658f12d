----------------------------- MODULE AtomicFile -----------------------------
(***************************************************************************)
(* WriteFileAtomic of internal/fsutil/fsutil.go, which the spool uses for  *)
(* its batches and the agent for its cached configuration: one path, the   *)
(* temporary file beside it, and what of both is on the disk.  Any system  *)
(* call may fail, the process may die between any two of them, and a loss  *)
(* of power also takes what was not synced.                                *)
(*                                                                         *)
(* Names in this module do not clash with those of a module that extends   *)
(* it.  Contents are the numbers of the writes.                            *)
(***************************************************************************)
EXTENDS Integers

CONSTANTS
    NoFile,     \* the path names no file
    MaxWrites,  \* bound: calls of WriteFileAtomic
    FileFaults  \* what may go wrong, see FileFaultKinds

\* A system call, the removal of the temporary file, and the sync of the
\* directory, fail; the power is lost.
FileFaultKinds == {"io", "remove", "syncdir", "power"}

\* whole: all of it is written.  synced: and it is on the disk.
File == [data : Nat, whole : BOOLEAN, synced : BOOLEAN]

ASSUME FileAssumption ==
    /\ MaxWrites \in Nat
    /\ FileFaults \subseteq FileFaultKinds
    /\ NoFile \notin File

VARIABLES
    writer,    \* the next system call of the writer
    tmp,       \* path.tmp, as a process sees it
    file,      \* path, as a process sees it
    entries,   \* the files that path may name on the disk
    writes,    \* history: the number of the last write begun
    durable    \* history: the last write that returned with its directory synced

fileVars == <<writer, tmp, file, entries, writes, durable>>

FileTypeOK ==
    /\ writer \in {"idle", "open", "write", "sync", "close", "rename", "syncdir"}
    /\ {tmp, file} \subseteq File \cup {NoFile}
    /\ entries \subseteq File \cup {NoFile}
    /\ writes \in Nat /\ durable \in Nat

FileInit ==
    /\ writer = "idle"
    /\ tmp = NoFile /\ file = NoFile
    /\ entries = {NoFile}
    /\ writes = 0 /\ durable = 0

-----------------------------------------------------------------------------
\* A call that succeeds, and the one after it.
Calls(call, then) == writer = call /\ writer' = then

Begin ==
    /\ writes < MaxWrites
    /\ Calls("idle", "open")
    /\ writes' = writes + 1
    /\ UNCHANGED <<tmp, file, entries, durable>>

\* O_CREATE and O_TRUNC: what a crash left is cut.
OpenTmp ==
    /\ Calls("open", "write")
    /\ tmp' = [data |-> writes, whole |-> FALSE, synced |-> FALSE]
    /\ UNCHANGED <<file, entries, writes, durable>>

WriteTmp ==
    /\ Calls("write", "sync")
    /\ tmp' = [tmp EXCEPT !.whole = TRUE]
    /\ UNCHANGED <<file, entries, writes, durable>>

\* A slip: the data is not synced.
LeftInCache == [tmp EXCEPT !.synced = FALSE]

Synced == [tmp EXCEPT !.synced = TRUE]

SyncTmp ==
    /\ Calls("sync", "close")
    /\ tmp' = Synced
    /\ UNCHANGED <<file, entries, writes, durable>>

CloseTmp ==
    /\ Calls("close", "rename")
    /\ UNCHANGED <<tmp, file, entries, writes, durable>>

\* The disk may hold the old entry or the new one until the next sync of the
\* directory.
Rename ==
    /\ Calls("rename", "syncdir")
    /\ file' = tmp
    /\ tmp' = NoFile
    /\ entries' = entries \cup {tmp}
    /\ UNCHANGED <<writes, durable>>

\* A slip: the directory is not synced.
EntriesKept == entries

EntriesSynced == {file}

\* The directory is synced as well as the platform can, and the call returns.
SyncDir ==
    /\ Calls("syncdir", "idle")
    /\ \/ entries' = EntriesSynced /\ durable' = writes
       \/ "syncdir" \in FileFaults /\ UNCHANGED <<entries, durable>>
    /\ UNCHANGED <<tmp, file, writes>>

\* One of the calls before the rename takes effect fails: the temporary file is
\* removed, if there is one, and the call returns the error.
CallFails ==
    /\ "io" \in FileFaults
    /\ writer \in {"open", "write", "sync", "close", "rename"}
    /\ writer' = "idle"
    /\ \/ tmp' = IF writer = "open" THEN tmp ELSE NoFile
       \/ "remove" \in FileFaults /\ UNCHANGED tmp
    /\ UNCHANGED <<file, entries, writes, durable>>

Write ==
    \/ Begin \/ OpenTmp \/ WriteTmp \/ SyncTmp \/ CloseTmp \/ Rename \/ SyncDir
    \/ CallFails

\* The process dies: what the kernel holds stays.
WriterDies == writer' = "idle" /\ UNCHANGED <<tmp, file, entries, writes, durable>>

\* What a loss of power leaves of f, to be read after the next start.
Left(f) ==
    IF f = NoFile THEN {NoFile}
    ELSE {[f EXCEPT !.whole = w, !.synced = TRUE] :
             w \in IF f.synced THEN {f.whole} ELSE {FALSE, f.whole}}

PowerLoss ==
    /\ "power" \in FileFaults
    /\ writer' = "idle"
    /\ \E f \in entries : file' \in Left(f)
    /\ entries' = {file'}
    /\ \E t \in {tmp, NoFile} \cup (IF entries = {file} THEN {} ELSE {file}) :
         tmp' \in Left(t)
    /\ UNCHANGED <<writes, durable>>

\* sweepTmp, while nothing is written.
Sweep ==
    /\ writer = "idle"
    /\ \/ tmp' = NoFile
       \/ "remove" \in FileFaults /\ UNCHANGED tmp
    /\ UNCHANGED <<writer, file, entries, writes, durable>>

FileNext == Write \/ WriterDies \/ PowerLoss \/ Sweep

FileSpec == FileInit /\ [][FileNext]_fileVars

-----------------------------------------------------------------------------
(* Properties *)

\* "so a reader never sees a half-written file": neither while a write goes on,
\* nor after it failed or died half-way, nor after a loss of power.
NeverTorn == \A f \in entries \cup {file} : f # NoFile => f.whole

\* "the content survives a power loss once the call returns": path never names,
\* or comes back to, anything older than the last write that returned.  A call
\* whose directory could not be synced does not count, see SyncDir.
NeverOlder ==
    \A f \in entries \cup {file} : IF f = NoFile THEN durable = 0 ELSE f.data >= durable
=============================================================================
