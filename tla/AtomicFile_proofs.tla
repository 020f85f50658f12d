------------------------- MODULE AtomicFile_proofs -------------------------
(***************************************************************************)
(* The guarantees of WriteFileAtomic, for any number of writes and every   *)
(* combination of faults.                                                  *)
(***************************************************************************)
EXTENDS AtomicFile, TLAPS

\* A file that path may name is whole and on the disk, and holds a write that is
\* not older than the last durable one.
Good(f) == IF f = NoFile THEN durable = 0
           ELSE f.whole /\ f.synced /\ durable <= f.data /\ f.data \in 1..writes

\* What the writer has done by now to the temporary file.
Progress ==
    /\ writer # "idle" => writes > 0
    /\ writer \in {"write", "sync", "close", "rename"} => tmp \in File /\ tmp.data = writes
    /\ writer \in {"sync", "close", "rename"} => tmp.whole
    /\ writer \in {"close", "rename"} => tmp.synced
    /\ writer = "syncdir" => file \in File /\ file.data = writes

\* The inductive invariant.
FileInv ==
    /\ FileTypeOK
    /\ durable <= writes
    /\ file \in entries
    /\ \A f \in entries : Good(f)
    /\ Progress

LEMMA InitFile == FileInit => FileInv
BY FileAssumption DEF FileInit, FileInv, FileTypeOK, Progress, Good, File

\* A loss of power changes no file that path may name.
LEMMA GoodIsLeft ==
    ASSUME NEW f \in File \cup {NoFile}, Good(f), NEW g \in Left(f)
    PROVE  g = f
BY FileAssumption DEF Good, Left, File

\* What is left of any file is a file.
LEMMA LeftIsFile ==
    ASSUME NEW f \in File \cup {NoFile}, NEW g \in Left(f)
    PROVE  g \in File \cup {NoFile}
BY FileAssumption DEF Left, File

LEMMA PowerLossKeeps == FileInv /\ PowerLoss => FileInv'
<1> SUFFICES ASSUME FileInv, PowerLoss PROVE FileInv'
  OBVIOUS
<1>1. PICK f \in entries : file' \in Left(f)
  BY DEF PowerLoss
<1>2. file' = f /\ Good(f) /\ f \in File \cup {NoFile}
  BY <1>1, GoodIsLeft DEF FileInv, FileTypeOK
<1>3. tmp' \in File \cup {NoFile}
  <2>1. PICK t \in {tmp, NoFile} \cup (IF entries = {file} THEN {} ELSE {file}) : tmp' \in Left(t)
    BY DEF PowerLoss
  <2>2. t \in File \cup {NoFile}
    BY <2>1 DEF FileInv, FileTypeOK
  <2> QED BY <2>1, <2>2, LeftIsFile
<1>4. writer' = "idle" /\ entries' = {f} /\ UNCHANGED <<writes, durable>>
  BY <1>2 DEF PowerLoss
<1> QED BY <1>2, <1>3, <1>4 DEF FileInv, FileTypeOK, Progress, Good

LEMMA FileStep == FileInv /\ [FileNext]_fileVars => FileInv'
<1> SUFFICES ASSUME FileInv, [FileNext]_fileVars PROVE FileInv'
  OBVIOUS
<1> USE FileAssumption DEF FileInv, FileTypeOK, Progress, Good, Calls
<1>1. CASE Begin
  BY <1>1 DEF Begin
<1>2. CASE OpenTmp
  BY <1>2 DEF OpenTmp, File
<1>3. CASE WriteTmp
  BY <1>3 DEF WriteTmp, File
<1>4. CASE SyncTmp
  BY <1>4 DEF SyncTmp, Synced, File
<1>5. CASE CloseTmp
  BY <1>5 DEF CloseTmp
<1>6. CASE Rename
  <2>1. tmp \in File /\ tmp.whole /\ tmp.synced /\ tmp.data = writes /\ writes \in Nat
    BY <1>6 DEF Rename
  <2>2. writer' = "syncdir" /\ file' = tmp /\ tmp' = NoFile /\ entries' = entries \cup {tmp}
        /\ UNCHANGED <<writes, durable>>
    BY <1>6 DEF Rename
  <2>3. writes \in 1..writes /\ tmp # NoFile
    BY <1>6, <2>1 DEF Rename
  <2>4. FileTypeOK' /\ (durable <= writes)' /\ (file \in entries)' /\ Progress'
    BY <2>1, <2>2, <2>3 DEF File
  <2>5. ASSUME NEW f \in entries' PROVE Good(f)'
    <3>1. CASE f \in entries
      BY <2>2, <3>1
    <3>2. CASE f = tmp
      BY <2>1, <2>2, <2>3, <3>2
    <3> QED BY <2>2, <3>1, <3>2
  <2> QED BY <2>4, <2>5, <2>2
<1>7. CASE SyncDir
  BY <1>7 DEF SyncDir, EntriesSynced, File
<1>8. CASE CallFails
  BY <1>8 DEF CallFails
<1>9. CASE WriterDies
  BY <1>9 DEF WriterDies
<1>10. CASE PowerLoss
  BY <1>10, PowerLossKeeps
<1>11. CASE Sweep
  BY <1>11 DEF Sweep
<1>12. CASE UNCHANGED fileVars
  BY <1>12 DEF fileVars
<1> QED
  BY <1>1, <1>2, <1>3, <1>4, <1>5, <1>6, <1>7, <1>8, <1>9, <1>10, <1>11, <1>12
  DEF FileNext, Write

\* The inductive invariant of WriteFileAtomic, with every fault.
THEOREM FileInvariant == FileSpec => []FileInv
<1>1. FileInit => FileInv
  BY InitFile
<1>2. FileInv /\ [FileNext]_fileVars => FileInv'
  BY FileStep
<1> QED BY <1>1, <1>2, PTL DEF FileSpec

\* "so a reader never sees a half-written file", while a write goes on, after it
\* failed, after a crash and after a loss of power.
THEOREM FileNeverTorn == FileSpec => []NeverTorn
<1>1. FileInv => NeverTorn
  BY DEF FileInv, Good, NeverTorn
<1> QED BY <1>1, FileInvariant, PTL

\* "the content survives a power loss once the call returns".
THEOREM FileNeverOlder == FileSpec => []NeverOlder
<1>1. FileInv => NeverOlder
  BY FileAssumption DEF FileInv, FileTypeOK, File, Good, NeverOlder
<1> QED BY <1>1, FileInvariant, PTL
=============================================================================
