---------------------------- MODULE Spool_proofs ----------------------------
(***************************************************************************)
(* Proofs about the spool, for every cap, every set of batches, any number *)
(* of Adds and restarts.                                                   *)
(***************************************************************************)
EXTENDS Spool, FiniteSetTheorems, SequenceTheorems, TLAPS

(***************************************************************************)
(* Type correctness                                                        *)
(***************************************************************************)

\* A new file keeps the directory finite, and so does deleting some of it.
LEMMA WrittenFinite ==
    ASSUME NEW f \in Entry, files \subseteq Entry, IsFiniteSet(files),
           NEW gone \in SUBSET Written(f)
    PROVE  /\ Written(f) \ gone \subseteq Entry
           /\ IsFiniteSet(Written(f) \ gone)
           /\ IsFiniteSet(gone)
           /\ Cardinality(gone) \in Nat
<1>1. Written(f) \subseteq files \cup {f} BY DEF Written
<1>2. IsFiniteSet(files \cup {f}) BY FS_AddElement
<1>3. IsFiniteSet(Written(f)) BY <1>1, <1>2, FS_Subset
<1>4. IsFiniteSet(Written(f) \ gone) /\ IsFiniteSet(gone)
  BY <1>3, FS_Subset
<1>. QED BY <1>1, <1>4, FS_CardinalityType

\* A reading of the clock is a natural number.
LEMMA StampsNat == clock \in Nat => Stamps \subseteq Nat
BY SpoolAssumption DEF Stamps

\* Whatever a process had in memory, it leaves a well-typed state behind.
LEMMA DiedTyped ==
    ASSUME Died
    PROVE  /\ mem' \in Seq(Entry) /\ count' \in Int /\ seq' \in Nat
           /\ held' \in Entry \cup {NoBatch} /\ up' \in BOOLEAN
<1>1. up' \in BOOLEAN BY Zenon DEF Died
<1>2. mem' \in Seq(Entry) BY EmptySeq, Zenon DEF Died
<1>3. count' \in Int /\ seq' \in Nat /\ held' \in Entry \cup {NoBatch}
  BY DEF Died
<1>. QED BY <1>1, <1>2, <1>3

\* Every step keeps the type invariant, whatever it fails at.
LEMMA TypeStep == TypeOK /\ [Next]_vars => TypeOK'
<1>. SUFFICES ASSUME TypeOK, [Next]_vars PROVE TypeOK'
  OBVIOUS
<1>. USE SpoolAssumption
<1>1. ASSUME NEW b \in Batches, Add(b) PROVE TypeOK'
  <2>1. CASE AddDisk(b)
    <3>1. PICK nano \in Stamps :
            LET fs == Written(NewFile(b, nano))
            IN  /\ clock' = nano
                /\ \E stuck \in May("remove", fs), gone \in SUBSET fs :
                     /\ Trimmed(fs, stuck, gone)
                     /\ files' = fs \ gone
                     /\ count' = count + 1 - Cardinality(gone)
      BY <2>1 DEF AddDisk
    <3>2. nano \in Nat BY StampsNat DEF TypeOK
    <3>3. NewFile(b, nano) \in Entry BY <3>2 DEF TypeOK, Entry, NewFile
    <3>4. PICK gone \in SUBSET Written(NewFile(b, nano)) :
            /\ files' = Written(NewFile(b, nano)) \ gone
            /\ count' = count + 1 - Cardinality(gone)
      BY <3>1
    <3>5. /\ files' \subseteq Entry /\ IsFiniteSet(files')
          /\ Cardinality(gone) \in Nat
      BY <3>3, <3>4, WrittenFinite DEF TypeOK
    <3>6. clock' \in Nat BY <3>1, <3>2
    <3>7. seq' \in Nat /\ mem' \in Seq(Entry) /\ held' \in Entry \cup {NoBatch}
          /\ up' \in BOOLEAN /\ adds' \in Nat
      BY <1>1, <2>1 DEF Add, AddDisk, TypeOK
    <3>. QED BY <3>4, <3>5, <3>6, <3>7 DEF TypeOK
  <2>2. CASE AddMem(b)
    <3>. DEFINE e == [nano |-> 0, seq |-> 0, age |-> adds + 1, results |-> b]
                m == Append(mem, e)
                excess == Excess(m)
    <3>1. e \in Entry BY DEF TypeOK, Entry
    <3>2. m \in Seq(Entry) /\ Len(m) = Len(mem) + 1 /\ Len(mem) \in Nat
      BY <3>1 DEF TypeOK
    <3>3. excess \in Nat /\ excess <= Len(m)
      BY <3>2, SpoolAssumption DEF Excess, WithinCap
    <3>4. \A i \in excess + 1..Len(m) : m[i] \in Entry
      BY <3>2, <3>3, ElementOfSeq
    <3>5. SubSeq(m, excess + 1, Len(m)) \in Seq(Entry)
      BY <3>2, <3>3, <3>4, SubSeqProperties
    <3>6. mem' = SubSeq(m, excess + 1, Len(m)) /\ count' = count + 1 - excess
      BY <2>2 DEF AddMem, Kept
    <3>7. mem' \in Seq(Entry) /\ count' \in Int
      BY <3>3, <3>5, <3>6 DEF TypeOK
    <3>8. UNCHANGED <<files, seq, clock, held, up>> /\ adds' = adds + 1
      BY <1>1, <2>2 DEF Add, AddMem
    <3>. QED BY <3>7, <3>8 DEF TypeOK
  <2>. QED BY <1>1, <2>1, <2>2 DEF Add
<1>2. ASSUME NEW b \in Batches, AddFails(b) PROVE TypeOK'
  BY <1>2, StampsNat DEF AddFails, TypeOK
<1>3. ASSUME NEW b \in Batches, CrashInAdd(b) PROVE TypeOK'
  <2>1. PICK nano \in Stamps :
            /\ clock' = nano
            /\ \E gone \in SUBSET Written(NewFile(b, nano)) :
                 files' = Written(NewFile(b, nano)) \ gone
    BY <1>3 DEF CrashInAdd
  <2>2. nano \in Nat BY StampsNat DEF TypeOK
  <2>3. NewFile(b, nano) \in Entry BY <2>2 DEF TypeOK, Entry, NewFile
  <2>4. files' \subseteq Entry /\ IsFiniteSet(files') /\ clock' \in Nat
    BY <2>1, <2>2, <2>3, WrittenFinite DEF TypeOK
  <2>5. Died /\ adds' = adds + 1 BY <1>3 DEF CrashInAdd
  <2>. QED BY <2>4, <2>5, DiedTyped DEF TypeOK
<1>4. CASE Oldest
  <2>1. CASE OldestDisk
    <3>1. CASE UNCHANGED <<files, count, held>>
      BY <1>4, <2>1, <3>1 DEF Oldest, OldestDisk, TypeOK
    <3>2. CASE ~UNCHANGED <<files, count, held>>
      <4>1. PICK gone \in SUBSET files :
              /\ files' = files \ gone
              /\ count' = Cardinality(files) - Cardinality(gone)
              /\ held' \in files \cup {NoBatch}
        BY <2>1, <3>2 DEF OldestDisk, May
      <4>2. IsFiniteSet(files') /\ IsFiniteSet(gone) /\ files' \subseteq Entry
        BY <4>1, FS_Subset DEF TypeOK
      <4>3. count' \in Int BY <4>1, <4>2, FS_CardinalityType DEF TypeOK
      <4>. QED BY <1>4, <2>1, <4>1, <4>2, <4>3
               DEF Oldest, OldestDisk, TypeOK
    <3>. QED BY <3>1, <3>2
  <2>2. CASE OldestMem
    BY <1>4, <2>2, HeadTailProperties DEF Oldest, OldestMem, TypeOK
  <2>. QED BY <1>4, <2>1, <2>2 DEF Oldest
<1>5. CASE Remove
  <2>1. CASE RemoveDisk
    <3>. DEFINE target == {f \in files : SameName(f, held)}
    <3>1. IsFiniteSet(files \ target) /\ IsFiniteSet(target)
      BY FS_Subset DEF TypeOK
    <3>2. Cardinality(target) \in Nat BY <3>1, FS_CardinalityType
    <3>3. \/ files' = files \ target /\ count' = count - Cardinality(target)
          \/ UNCHANGED <<files, count>>
      BY <2>1 DEF RemoveDisk
    <3>4. CASE files' = files \ target /\ count' = count - Cardinality(target)
      <4>1. files' \subseteq Entry BY <3>4 DEF TypeOK
      <4>2. IsFiniteSet(files') BY <3>1, <3>4
      <4>3. count' \in Int BY <3>2, <3>4 DEF TypeOK
      <4>. QED BY <1>5, <2>1, <4>1, <4>2, <4>3 DEF Remove, RemoveDisk, TypeOK
    <3>5. CASE UNCHANGED <<files, count>>
      BY <1>5, <2>1, <3>5 DEF Remove, RemoveDisk, TypeOK
    <3>. QED BY <3>3, <3>4, <3>5
  <2>2. CASE RemoveMem
    BY <1>5, <2>2, HeadTailProperties DEF Remove, RemoveMem, TypeOK
  <2>. QED BY <1>5, <2>1, <2>2 DEF Remove
<1>6. CASE GiveUp BY <1>6 DEF GiveUp, TypeOK
<1>7. CASE Crash BY <1>7, DiedTyped DEF Crash, TypeOK
<1>8. CASE Open
  <2>1. Cardinality(files) \in Nat BY FS_CardinalityType DEF TypeOK
  <2>2. clock' \in Nat /\ count' \in Int BY <1>8, <2>1 DEF Open, Found, TypeOK
  <2>. QED BY <1>8, <2>2 DEF Open, TypeOK
<1>9. CASE UNCHANGED vars BY <1>9 DEF vars, TypeOK
<1>. QED BY <1>1, <1>2, <1>3, <1>4, <1>5, <1>6, <1>7, <1>8, <1>9 DEF Next

\* Every reachable state of the spool has its type, whatever fails and however
\* the clock is set: the files are finitely many batches of callers.
THEOREM SpoolTypeCorrect == Spec => []TypeOK
<1>1. Init => TypeOK
  BY SpoolAssumption, FS_EmptySet DEF Init, TypeOK
<1>. QED BY <1>1, TypeStep, PTL DEF Spec

(***************************************************************************)
(* The inductive invariant, when the clock is not set back                 *)
(***************************************************************************)

\* The name of a new file is after every other, so no file is replaced.
LEMMA NewFileIsLast ==
    ASSUME "clock" \notin Faults, TypeOK, NamesIssued, AgesIssued, up,
           NEW nano \in Stamps, NEW b \in Batches
    PROVE  /\ NewFile(b, nano) \in Entry
           /\ \A g \in files : /\ Before(g, NewFile(b, nano))
                               /\ g.age < NewFile(b, nano).age
                               /\ ~SameName(g, NewFile(b, nano))
           /\ NewFile(b, nano) \notin files
           /\ Written(NewFile(b, nano)) = files \cup {NewFile(b, nano)}
<1>. DEFINE f == NewFile(b, nano)
<1>1. nano \in Nat /\ clock <= nano
  BY SpoolAssumption DEF Stamps, TypeOK
<1>2. f \in Entry BY <1>1 DEF NewFile, TypeOK, Entry
<1>3. ASSUME NEW g \in files
      PROVE  Before(g, f) /\ g.age < f.age /\ ~SameName(g, f)
  <2>1. g.nano \in Nat /\ g.seq \in Nat /\ g.age \in Nat BY DEF TypeOK, Entry
  <2>2. g.age <= adds /\ (g.nano < clock \/ (g.nano = clock /\ g.seq <= seq))
    BY DEF NamesIssued, AgesIssued, Issued
  <2>. QED BY <1>1, <2>1, <2>2 DEF Before, SameName, NewFile, TypeOK
<1>4. f \notin files BY <1>3 DEF TypeOK, SameName
<1>. QED BY <1>2, <1>3, <1>4 DEF Written

\* What a file written by Add or by a process that dies in Add, and the
\* deletion of any files, leave of the properties of the directory.
LEMMA WrittenKeeps ==
    ASSUME "clock" \notin Faults, SpoolInv, up,
           NEW nano \in Stamps, NEW b \in Batches,
           NEW gone \in SUBSET Written(NewFile(b, nano)),
           files' = Written(NewFile(b, nano)) \ gone,
           clock' = nano, adds' = adds + 1, up' => seq' = seq + 1
    PROVE  /\ NamesIssued'
           /\ \A g \in files' : g.age <= adds'
           /\ \A g, h \in files' : g.age < h.age <=> Before(g, h)
           /\ Cardinality(files') = Cardinality(files) + 1 - Cardinality(gone)
<1>. PICK f : f = NewFile(b, nano) OBVIOUS
<1>0. TypeOK /\ NamesIssued /\ AgesIssued /\ Chronological BY DEF SpoolInv
<1>1. nano \in Nat /\ clock <= nano
  BY <1>0, SpoolAssumption DEF Stamps, TypeOK
<1>2. /\ f \in Entry /\ f \notin files
      /\ \A g \in files : Before(g, f) /\ g.age < f.age /\ ~SameName(g, f)
      /\ Written(f) = files \cup {f}
  BY <1>0, NewFileIsLast
<1>3. files' \subseteq files \cup {f} BY <1>2
<1>4. f.nano = clock' /\ f.age = adds' /\ (up' => f.seq = seq')
  BY DEF NewFile
<1>5. \A g \in files : /\ g.nano \in Nat /\ g.seq \in Nat /\ g.age \in Nat
                       /\ Issued(g) /\ g.age <= adds
  BY <1>0 DEF TypeOK, Entry, NamesIssued, AgesIssued
<1>6. f.nano \in Nat /\ f.seq \in Nat /\ f.age \in Nat BY <1>2 DEF Entry
<1>7. \A g \in files' : Issued(g)'
  <2>1. ASSUME NEW g \in files PROVE Issued(g)'
    BY <1>0, <1>1, <1>5 DEF Issued, TypeOK
  <2>2. Issued(f)' BY <1>4, <1>6 DEF Issued
  <2>. QED BY <1>3, <2>1, <2>2
<1>8. \A g, h \in files' : SameName(g, h) => g = h
  BY <1>0, <1>2, <1>3 DEF NamesIssued, SameName
<1>9. \A g \in files' : g.age <= adds'
  BY <1>0, <1>3, <1>4, <1>5, <1>6 DEF TypeOK
<1>10. \A g, h \in files' : g.age < h.age <=> Before(g, h)
  BY <1>0, <1>2, <1>3, <1>5, <1>6 DEF Chronological, Before
<1>11. Cardinality(files') = Cardinality(files) + 1 - Cardinality(gone)
  <2>1. IsFiniteSet(files) BY <1>0 DEF TypeOK
  <2>2. /\ IsFiniteSet(Written(f))
        /\ Cardinality(Written(f)) = Cardinality(files) + 1
    BY <1>2, <2>1, FS_AddElement
  <2>3. Cardinality(Written(f) \ gone)
          = Cardinality(Written(f)) - Cardinality(Written(f) \cap gone)
    BY <2>2, FS_Difference, Zenon
  <2>4. Written(f) \cap gone = gone OBVIOUS
  <2>5. Cardinality(files') = Cardinality(Written(f)) - Cardinality(gone)
    BY <2>3, <2>4, Zenon
  <2>6. Cardinality(files) \in Nat /\ Cardinality(gone) \in Nat
    BY <2>1, <2>2, FS_Subset, FS_CardinalityType
  <2>. QED BY <2>2, <2>5, <2>6
<1>. QED BY <1>7, <1>8, <1>9, <1>10, <1>11 DEF NamesIssued

\* A queue in the order of the Adds stays so when the next Add appends to it
\* and when batches leave at its head.
LEMMA AppendInOrder ==
    ASSUME NEW m \in Seq(Entry), InAgeOrder(m), adds \in Nat,
           \A i \in 1..Len(m) : m[i].age <= adds,
           NEW e \in Entry, e.age = adds + 1
    PROVE  /\ Append(m, e) \in Seq(Entry)
           /\ Len(Append(m, e)) = Len(m) + 1
           /\ InAgeOrder(Append(m, e))
           /\ \A i \in 1..Len(Append(m, e)) : Append(m, e)[i].age <= adds + 1
<1>1. /\ Append(m, e) \in Seq(Entry)
      /\ Len(m) \in Nat /\ Len(Append(m, e)) = Len(m) + 1
      /\ \A i \in 1..Len(m) : Append(m, e)[i] = m[i]
      /\ Append(m, e)[Len(m) + 1] = e
  BY AppendProperties
<1>2. \A i \in 1..Len(m) : m[i].age \in Nat
  <2>1. \A i \in 1..Len(m) : m[i] \in Entry BY ElementOfSeq
  <2>. QED BY <2>1 DEF Entry
<1>3. \A i \in 1..Len(m) + 1 : i \in 1..Len(m) \/ i = Len(m) + 1 BY <1>1
<1>4. \A i \in 1..Len(Append(m, e)) : Append(m, e)[i].age <= adds + 1
  BY <1>1, <1>2, <1>3
<1>5. ASSUME NEW i \in 1..Len(Append(m, e)), NEW j \in 1..Len(Append(m, e))
      PROVE  i < j <=> Append(m, e)[i].age < Append(m, e)[j].age
  <2>1. CASE i \in 1..Len(m) /\ j \in 1..Len(m)
    BY <1>1, <2>1 DEF InAgeOrder
  <2>2. CASE i \in 1..Len(m) /\ j = Len(m) + 1
    BY <1>1, <1>2, <2>2
  <2>3. CASE i = Len(m) + 1 /\ j \in 1..Len(m)
    BY <1>1, <1>2, <2>3
  <2>4. CASE i = Len(m) + 1 /\ j = Len(m) + 1
    BY <1>1, <2>4
  <2>. QED BY <1>1, <1>3, <2>1, <2>2, <2>3, <2>4
<1>. QED BY <1>1, <1>4, <1>5 DEF InAgeOrder

\* What is left of a queue when its first batches leave.
LEMMA SubSeqShifts ==
    ASSUME NEW m \in Seq(Entry), NEW k \in 0..Len(m)
    PROVE  /\ Len(SubSeq(m, k + 1, Len(m))) = Len(m) - k
           /\ \A i \in 1..Len(m) - k :
                /\ SubSeq(m, k + 1, Len(m))[i] = m[i + k]
                /\ i + k \in 1..Len(m)
<1>1. Len(m) \in Nat OBVIOUS
<1>2. \A i \in k + 1..Len(m) : m[i] \in Entry BY <1>1, ElementOfSeq
<1>3. /\ Len(SubSeq(m, k + 1, Len(m))) = Len(m) - k
      /\ \A i \in 1..Len(m) - k : SubSeq(m, k + 1, Len(m))[i] = m[i + k]
  BY <1>1, <1>2, SubSeqProperties
<1>4. \A i \in 1..Len(m) - k : i + k \in 1..Len(m) BY <1>1
<1>. QED BY <1>3, <1>4

\* It stays in order.
LEMMA SubSeqInOrder ==
    ASSUME NEW m \in Seq(Entry), InAgeOrder(m), NEW k \in 0..Len(m)
    PROVE  /\ Len(SubSeq(m, k + 1, Len(m))) = Len(m) - k
           /\ InAgeOrder(SubSeq(m, k + 1, Len(m)))
           /\ \A i \in 1..Len(m) - k :
                /\ SubSeq(m, k + 1, Len(m))[i] = m[i + k]
                /\ i + k \in 1..Len(m)
<1>1. Len(m) \in Nat OBVIOUS
<1>. QED BY <1>1, SubSeqShifts DEF InAgeOrder

\* And when its head leaves.
LEMMA TailInOrder ==
    ASSUME NEW m \in Seq(Entry), InAgeOrder(m), m # <<>>
    PROVE  /\ Len(Tail(m)) = Len(m) - 1
           /\ InAgeOrder(Tail(m))
           /\ \A i \in 1..Len(Tail(m)) :
                Tail(m)[i] = m[i + 1] /\ i + 1 \in 1..Len(m)
<1>1. Len(m) \in Nat /\ Len(m) >= 1 BY EmptySeq
<1>2. PICK k \in 0..Len(m) : k = 1 BY <1>1
<1>3. Tail(m) = SubSeq(m, k + 1, Len(m)) BY <1>2, TailIsSubSeq
<1>4. /\ Len(Tail(m)) = Len(m) - k
      /\ InAgeOrder(Tail(m))
      /\ \A i \in 1..Len(m) - k : Tail(m)[i] = m[i + k] /\ i + k \in 1..Len(m)
  BY <1>3, SubSeqInOrder
<1>. QED BY <1>2, <1>4

\* Files may leave the directory: what is left keeps its order and names.
LEMMA FewerFiles ==
    ASSUME SpoolInv, files' \subseteq files, UNCHANGED <<clock, adds>>,
           up' => up /\ seq' = seq
    PROVE  /\ NamesIssued'
           /\ \A f \in files' : f.age <= adds'
           /\ \A f, g \in files' : f.age < g.age <=> Before(f, g)
<1>1. NamesIssued /\ AgesIssued /\ Chronological BY DEF SpoolInv
<1>2. \A f \in files' : Issued(f)'
  BY <1>1 DEF NamesIssued, Issued
<1>3. \A f, g \in files' : SameName(f, g) => f = g BY <1>1 DEF NamesIssued
<1>. QED BY <1>1, <1>2, <1>3 DEF NamesIssued, AgesIssued, Chronological

\* What AddDisk does to the directory, whichever files trimLocked deletes.
LEMMA AddDiskEffect ==
    ASSUME NEW b \in Batches, AddDisk(b)
    PROVE  /\ OnDisk /\ seq' = seq + 1 /\ mem' = mem
           /\ \E nano \in Stamps : \E gone \in SUBSET Written(NewFile(b, nano)) :
                /\ clock' = nano
                /\ files' = Written(NewFile(b, nano)) \ gone
                /\ count' = count + 1 - Cardinality(gone)
                /\ \E stuck \in May("remove", Written(NewFile(b, nano))) :
                     Trimmed(Written(NewFile(b, nano)), stuck, gone)
BY DEF AddDisk

\* And what AddMem does to the queue: the new batch goes to the end, and the
\* cap takes the first ones.
LEMMA AddMemEffect ==
    ASSUME SpoolInv, up, NEW b \in Batches, AddMem(b), adds' = adds + 1
    PROVE  /\ ~OnDisk /\ UNCHANGED <<files, seq, clock>>
           /\ InAgeOrder(mem')
           /\ \A i \in 1..Len(mem') : mem'[i].age <= adds'
           /\ count' = Len(mem')
           /\ MaxBatches > 0 => Len(mem') <= MaxBatches
           /\ \E i \in 1..Len(mem') : mem'[i].age = adds'
           /\ \A i \in 1..Len(mem) :
                \/ \E j \in 1..Len(mem') : mem'[j] = mem[i]
                \/ \A j \in 1..Len(mem') : mem[i].age < mem'[j].age
<1>. PICK e : e = [nano |-> 0, seq |-> 0, age |-> adds + 1, results |-> b]
  OBVIOUS
<1>. PICK m : m = Append(mem, e) OBVIOUS
<1>. PICK k : k = IF ~(MaxBatches <= 0 \/ count + 1 <= MaxBatches)
                       /\ Len(m) > MaxBatches
                    THEN Len(m) - MaxBatches ELSE 0
  OBVIOUS
<1>1. /\ ~OnDisk /\ UNCHANGED <<files, seq, clock>>
      /\ mem' = SubSeq(m, k + 1, Len(m)) /\ count' = count + 1 - k
  BY DEF AddMem, Excess, Kept, WithinCap
<1>2. /\ TypeOK /\ InAgeOrder(mem) /\ count = Len(mem)
      /\ \A i \in 1..Len(mem) : mem[i].age <= adds
  BY <1>1 DEF SpoolInv, Chronological, AgesIssued, CountMatches
<1>3. mem \in Seq(Entry) /\ adds \in Nat /\ e \in Entry /\ e.age = adds + 1
  BY <1>2 DEF TypeOK, Entry
<1>4. /\ m \in Seq(Entry) /\ Len(m) = Len(mem) + 1 /\ InAgeOrder(m)
      /\ \A i \in 1..Len(m) : m[i].age <= adds + 1
  BY <1>2, <1>3, AppendInOrder
<1>5. Len(m) \in Nat /\ Len(mem) \in Nat BY <1>3, <1>4
<1>6. k \in 0..Len(m) BY <1>5, SpoolAssumption
<1>7. PICK q : q = SubSeq(m, k + 1, Len(m)) OBVIOUS
<1>8. /\ Len(q) = Len(m) - k
      /\ InAgeOrder(q)
      /\ \A i \in 1..Len(m) - k : q[i] = m[i + k] /\ i + k \in 1..Len(m)
  BY ONLY <1>4, <1>6, <1>7, SubSeqInOrder
<1>9. mem' = q BY <1>1, <1>7
<1>10. \A i \in 1..Len(q) : q[i].age <= adds + 1 BY <1>4, <1>8
<1>11. count' = Len(q) /\ (MaxBatches > 0 => Len(q) <= MaxBatches)
  <2>1. count' = count + 1 - k BY <1>1
  <2>2. MaxBatches \in Int BY SpoolAssumption
  <2>. QED BY <1>2, <1>4, <1>5, <1>6, <1>8, <2>1, <2>2
<1>12. m[Len(m)] = e /\ \A i \in 1..Len(mem) : m[i] = mem[i]
  BY <1>3, AppendProperties
<1>13. \E i \in 1..Len(q) : q[i].age = adds + 1
  <2>1. Len(m) - k \in 1..Len(m) - k
    BY <1>2, <1>4, <1>5, SpoolAssumption
  <2>2. q[Len(m) - k] = m[(Len(m) - k) + k] BY <1>8, <2>1
  <2>3. (Len(m) - k) + k = Len(m) BY <1>5, <1>6
  <2>. QED BY <1>3, <1>8, <1>12, <2>1, <2>2, <2>3
<1>14. ASSUME NEW i \in 1..Len(mem)
       PROVE  \/ \E j \in 1..Len(q) : q[j] = mem[i]
              \/ \A j \in 1..Len(q) : mem[i].age < q[j].age
  <2>1. i \in 1..Len(m) BY <1>4, <1>5
  <2>2. CASE i > k
    <3>1. i - k \in 1..Len(m) - k BY <1>5, <1>6, <2>1, <2>2
    <3>2. q[i - k] = m[(i - k) + k] /\ (i - k) + k = i BY <1>6, <1>8, <3>1
    <3>. QED BY <1>8, <1>12, <3>1, <3>2
  <2>3. CASE ~(i > k)
    <3>1. ASSUME NEW j \in 1..Len(q) PROVE m[i].age < q[j].age
      <4>1. j \in 1..Len(m) - k BY <1>8
      <4>2. j + k \in 1..Len(m) /\ q[j] = m[j + k] BY <1>8, <4>1
      <4>3. i < j + k BY <1>5, <1>6, <2>3, <4>1
      <4>. QED BY <1>4, <2>1, <4>2, <4>3 DEF InAgeOrder
    <3>. QED BY <1>12, <3>1
  <2>. QED BY <2>2, <2>3
<1>. QED BY <1>1, <1>8, <1>9, <1>10, <1>11, <1>13, <1>14

\* Oldest only takes files away: the batch it hands out is the only one of its
\* name in the directory, and the count is what is left.
LEMMA OldestDiskEffect ==
    ASSUME SpoolInv, up, OldestDisk, held = NoBatch, UNCHANGED <<seq, clock, up>>
    PROVE  /\ OnDisk /\ UNCHANGED mem
           /\ files' \subseteq files
           /\ count' = Cardinality(files')
           /\ held' # NoBatch => held' \in files'
<1>1. TypeOK /\ OnDisk /\ mem' = mem /\ count = Cardinality(files)
  BY DEF SpoolInv, CountMatches, OldestDisk
<1>2. CASE UNCHANGED <<files, count, held>>
  BY <1>1, <1>2
<1>3. CASE ~UNCHANGED <<files, count, held>>
  <2>1. PICK bad \in May("read", files) :
        \E stuck \in May("remove", bad) :
          LET good == files \ bad
              gone(first) == {f \in bad \ stuck : good = {} \/ Before(f, first)}
          IN  \E first \in IF good = {} THEN {NoBatch} ELSE good :
                /\ held' = first
                /\ files' = files \ gone(first)
                /\ count' = Cardinality(files) - Cardinality(gone(first))
    BY <1>3 DEF OldestDisk
  <2>2. bad \subseteq files BY DEF May
  <2>3. PICK gone \in SUBSET bad :
          /\ files' = files \ gone
          /\ count' = Cardinality(files) - Cardinality(gone)
          /\ held' \in (files \ bad) \cup {NoBatch}
    BY <2>1
  <2>4. IsFiniteSet(files) BY <1>1 DEF TypeOK
  <2>5. Cardinality(files \ gone)
          = Cardinality(files) - Cardinality(files \cap gone)
    BY <2>4, FS_Difference, Zenon
  <2>6. files \cap gone = gone BY <2>2
  <2>7. count' = Cardinality(files') BY <2>3, <2>5, <2>6, Zenon
  <2>. QED BY <1>1, <2>3, <2>7
<1>. QED BY <1>2, <1>3

\* So does Remove.
LEMMA RemoveDiskEffect ==
    ASSUME SpoolInv, up, RemoveDisk
    PROVE  /\ OnDisk /\ UNCHANGED mem
           /\ files' \subseteq files
           /\ count' = Cardinality(files')
<1>1. TypeOK /\ OnDisk /\ mem' = mem /\ count = Cardinality(files)
  BY DEF SpoolInv, CountMatches, RemoveDisk
<1>2. PICK target \in SUBSET files :
        \/ files' = files \ target /\ count' = count - Cardinality(target)
        \/ UNCHANGED <<files, count>>
  BY DEF RemoveDisk
<1>3. CASE files' = files \ target /\ count' = count - Cardinality(target)
  <2>1. IsFiniteSet(files) BY <1>1 DEF TypeOK
  <2>2. Cardinality(files \ target)
          = Cardinality(files) - Cardinality(files \cap target)
    BY <2>1, FS_Difference, Zenon
  <2>3. files \cap target = target OBVIOUS
  <2>4. count' = Cardinality(files') BY <1>1, <1>3, <2>2, <2>3, Zenon
  <2>. QED BY <1>1, <1>3, <2>4
<1>4. CASE UNCHANGED <<files, count>>
  BY <1>1, <1>4
<1>. QED BY <1>2, <1>3, <1>4

\* A name once issued stays issued as the clock and the sequence number go on.
LEMMA StaysIssued ==
    ASSUME TypeOK, NEW g, g.nano \in Nat, g.seq \in Nat, Issued(g), up,
           clock' \in Nat, clock <= clock', up' => seq' \in {seq, seq + 1}
    PROVE  Issued(g)'
<1>1. clock \in Nat /\ seq \in Nat BY DEF TypeOK
<1>2. g.nano < clock \/ (g.nano = clock /\ g.seq <= seq) BY DEF Issued
<1>. QED BY <1>1, <1>2 DEF Issued

\* Without a directory nothing writes a file.
LEMMA NoFilesStep ==
    ASSUME NoFilesInMemory, [Next]_vars
    PROVE  NoFilesInMemory'
BY DEF NoFilesInMemory, Next, Add, AddDisk, AddMem, AddFails, CrashInAdd, Oldest,
       OldestDisk, OldestMem, Remove, RemoveDisk, RemoveMem, GiveUp, Crash, Open,
       vars

\* Every step keeps the inductive invariant.
LEMMA InvStep ==
    ASSUME OnDisk => "clock" \notin Faults
    PROVE  SpoolInv /\ [Next]_vars => SpoolInv'
<1>. SUFFICES ASSUME SpoolInv, [Next]_vars PROVE SpoolInv'
  OBVIOUS
<1>0. /\ TypeOK /\ NamesIssued /\ AgesIssued /\ HeldKeepsName
      /\ NothingInMemoryWhenDown /\ Chronological /\ CountMatches /\ TypeOK'
      /\ NoFilesInMemory /\ NoFilesInMemory'
  BY TypeStep, NoFilesStep DEF SpoolInv
<1>00. OnDisk => \A nano \in Stamps : nano \in Nat /\ clock <= nano
  BY <1>0, SpoolAssumption DEF Stamps, TypeOK
<1>1. ASSUME NEW b \in Batches, Add(b) PROVE SpoolInv'
  <2>0. up /\ up' /\ adds' = adds + 1 /\ held' = held BY <1>1 DEF Add
  <2>1. CASE AddDisk(b)
    <3>1. /\ OnDisk /\ seq' = seq + 1 /\ mem' = mem
          /\ \E nano \in Stamps :
             \E gone \in SUBSET Written(NewFile(b, nano)) :
               /\ clock' = nano
               /\ files' = Written(NewFile(b, nano)) \ gone
               /\ count' = count + 1 - Cardinality(gone)
      BY <2>1, AddDiskEffect
    <3>. PICK nano \in Stamps :
         \E gone \in SUBSET Written(NewFile(b, nano)) :
            /\ clock' = nano
            /\ files' = Written(NewFile(b, nano)) \ gone
            /\ count' = count + 1 - Cardinality(gone)
      BY <3>1
    <3>2. PICK gone \in SUBSET Written(NewFile(b, nano)) :
            /\ clock' = nano
            /\ files' = Written(NewFile(b, nano)) \ gone
            /\ count' = count + 1 - Cardinality(gone)
      OBVIOUS
    <3>3. /\ NamesIssued'
          /\ \A g \in files' : g.age <= adds'
          /\ \A g, h \in files' : g.age < h.age <=> Before(g, h)
          /\ Cardinality(files') = Cardinality(files) + 1 - Cardinality(gone)
      BY <2>0, <3>1, <3>2, WrittenKeeps
    <3>4. CountMatches'
      BY <1>0, <2>0, <3>1, <3>2, <3>3 DEF CountMatches
    <3>5. Chronological' BY <1>0, <3>1, <3>3 DEF Chronological
    <3>6. AgesIssued'
      <4>1. \A i \in 1..Len(mem) : mem[i].age \in Nat
        <5>1. \A i \in 1..Len(mem) : mem[i] \in Entry
          BY <1>0, ElementOfSeq DEF TypeOK
        <5>. QED BY <5>1 DEF Entry
      <4>2. \A i \in 1..Len(mem) : mem[i].age <= adds + 1
        BY <1>0, <4>1 DEF AgesIssued, TypeOK
      <4>. QED BY <2>0, <3>1, <3>3, <4>2 DEF AgesIssued
    <3>7. HeldKeepsName'
      <4>. SUFFICES ASSUME held # NoBatch
           PROVE  Issued(held)' /\ \A f \in files' : SameName(f, held) => f = held
        BY <2>0 DEF HeldKeepsName, SameName, Issued
      <4>1. /\ held \in Entry /\ Issued(held)
            /\ \A f \in files : SameName(f, held) => f = held
        BY <1>0, <3>1 DEF TypeOK, HeldKeepsName
      <4>2. held.nano \in Nat /\ held.seq \in Nat BY <4>1 DEF Entry
      <4>3. Issued(held)'
        <5>. PICK h : h = held OBVIOUS
        <5>1. Issued(h)'
          BY <1>0, <1>00, <2>0, <3>1, <3>2, <4>1, <4>2, StaysIssued
        <5>. QED BY <2>0, <5>1 DEF Issued
      <4>4. ~SameName(NewFile(b, nano), held)
        BY <1>0, <1>00, <2>0, <3>1, <4>1, <4>2
           DEF Issued, SameName, NewFile, TypeOK
      <4>5. files' \subseteq files \cup {NewFile(b, nano)}
        BY <3>2 DEF Written
      <4>. QED BY <4>1, <4>3, <4>4, <4>5
    <3>. QED BY <1>0, <2>0, <3>3, <3>4, <3>5, <3>6, <3>7
         DEF SpoolInv, NothingInMemoryWhenDown
  <2>2. CASE AddMem(b)
    <3>1. /\ ~OnDisk /\ UNCHANGED <<files, seq, clock>>
          /\ InAgeOrder(mem')
          /\ \A i \in 1..Len(mem') : mem'[i].age <= adds'
          /\ count' = Len(mem')
      BY <2>0, <2>2, AddMemEffect
    <3>2. NamesIssued'
      BY <1>0, <2>0, <3>1 DEF NamesIssued, Issued
    <3>3. AgesIssued'
      <4>1. \A f \in files : f.age \in Nat BY <1>0 DEF TypeOK, Entry
      <4>. QED BY <1>0, <2>0, <3>1, <4>1 DEF AgesIssued, TypeOK
    <3>4. Chronological' BY <1>0, <3>1 DEF Chronological
    <3>. QED BY <1>0, <2>0, <3>1, <3>2, <3>3, <3>4
         DEF SpoolInv, NothingInMemoryWhenDown, CountMatches, HeldKeepsName
  <2>. QED BY <1>1, <2>1, <2>2 DEF Add
<1>2. ASSUME NEW b \in Batches, AddFails(b) PROVE SpoolInv'
  <2>1. /\ up /\ UNCHANGED <<files, mem, count, held, up, adds>>
        /\ clock' \in Nat /\ clock <= clock' /\ seq' = seq + 1
    BY <1>2, <1>00 DEF AddFails
  <2>2. \A g \in Entry : Issued(g) => Issued(g)'
    BY <1>0, <2>1, StaysIssued DEF Entry
  <2>3. NamesIssued'
    BY <1>0, <2>1, <2>2 DEF NamesIssued, TypeOK
  <2>4. HeldKeepsName'
    <3>. SUFFICES ASSUME held # NoBatch, OnDisk PROVE Issued(held)'
      BY <1>0, <2>1 DEF HeldKeepsName, SameName, Issued
    <3>. PICK h : h = held OBVIOUS
    <3>1. h \in Entry /\ Issued(h) BY <1>0 DEF TypeOK, HeldKeepsName
    <3>2. Issued(h)' BY <2>2, <3>1
    <3>. QED BY <2>1, <3>2 DEF Issued
  <2>. QED BY <1>0, <2>1, <2>3, <2>4
       DEF SpoolInv, AgesIssued, NothingInMemoryWhenDown, Chronological,
           CountMatches
<1>3. ASSUME NEW b \in Batches, CrashInAdd(b) PROVE SpoolInv'
  <2>1. /\ up /\ adds' = adds + 1 /\ Died /\ OnDisk
        /\ \E nano \in Stamps :
           \E gone \in SUBSET Written(NewFile(b, nano)) :
             /\ clock' = nano
             /\ files' = Written(NewFile(b, nano)) \ gone
    BY <1>3 DEF CrashInAdd
  <2>2. ~up' /\ mem' = <<>> /\ held' = NoBatch BY <2>1 DEF Died
  <2>3. /\ NamesIssued'
        /\ \A g \in files' : g.age <= adds'
        /\ \A g, h \in files' : g.age < h.age <=> Before(g, h)
    BY <2>1, <2>2, WrittenKeeps
  <2>. QED BY <1>0, <2>2, <2>3
       DEF SpoolInv, AgesIssued, HeldKeepsName, NothingInMemoryWhenDown,
           Chronological, InAgeOrder, CountMatches
<1>4. CASE Oldest
  <2>0. up /\ held = NoBatch /\ UNCHANGED <<seq, clock, up, adds>>
    BY <1>4 DEF Oldest
  <2>1. CASE OldestDisk
    <3>1. /\ OnDisk /\ UNCHANGED mem /\ files' \subseteq files
          /\ count' = Cardinality(files')
          /\ held' # NoBatch => held' \in files'
      BY <2>0, <2>1, OldestDiskEffect
    <3>2. /\ NamesIssued'
          /\ \A f \in files' : f.age <= adds'
          /\ \A f, g \in files' : f.age < g.age <=> Before(f, g)
      BY <2>0, <3>1, FewerFiles
    <3>3. AgesIssued' BY <1>0, <2>0, <3>1, <3>2 DEF AgesIssued
    <3>4. Chronological' BY <1>0, <3>1, <3>2 DEF Chronological
    <3>5. HeldKeepsName'
      BY <3>1, <3>2 DEF HeldKeepsName, NamesIssued, Issued
    <3>. QED BY <1>0, <2>0, <3>1, <3>2, <3>3, <3>4, <3>5
         DEF SpoolInv, NothingInMemoryWhenDown, CountMatches
  <2>2. CASE OldestMem
    BY <1>0, <2>0, <2>2
       DEF OldestMem, SpoolInv, NamesIssued, Issued, AgesIssued, HeldKeepsName,
           NothingInMemoryWhenDown, Chronological, CountMatches
  <2>. QED BY <1>4, <2>1, <2>2 DEF Oldest
<1>5. CASE Remove
  <2>0. up /\ held' = NoBatch /\ UNCHANGED <<seq, clock, up, adds>>
    BY <1>5 DEF Remove
  <2>1. CASE RemoveDisk
    <3>1. /\ OnDisk /\ UNCHANGED mem /\ files' \subseteq files
          /\ count' = Cardinality(files')
      BY <2>0, <2>1, RemoveDiskEffect
    <3>2. /\ NamesIssued'
          /\ \A f \in files' : f.age <= adds'
          /\ \A f, g \in files' : f.age < g.age <=> Before(f, g)
      BY <2>0, <3>1, FewerFiles
    <3>3. AgesIssued' BY <1>0, <2>0, <3>1, <3>2 DEF AgesIssued
    <3>4. Chronological' BY <1>0, <3>1, <3>2 DEF Chronological
    <3>. QED BY <1>0, <2>0, <3>1, <3>2, <3>3, <3>4
         DEF SpoolInv, NothingInMemoryWhenDown, CountMatches, HeldKeepsName
  <2>2. CASE RemoveMem
    <3>1. ~OnDisk /\ UNCHANGED files BY <2>2 DEF RemoveMem
    <3>2. NamesIssued' BY <1>0, <2>0, <3>1 DEF NamesIssued, Issued
    <3>3. CASE mem = <<>>
      BY <1>0, <2>0, <2>2, <3>1, <3>2, <3>3
         DEF RemoveMem, SpoolInv, AgesIssued, HeldKeepsName,
             NothingInMemoryWhenDown, Chronological, CountMatches
    <3>4. CASE mem # <<>>
      <4>1. mem' = Tail(mem) /\ count' = count - 1
        BY <2>2, <3>4 DEF RemoveMem
      <4>2. /\ Len(mem') = Len(mem) - 1 /\ InAgeOrder(mem')
            /\ \A i \in 1..Len(mem') :
                 mem'[i] = mem[i + 1] /\ i + 1 \in 1..Len(mem)
        BY <1>0, <3>4, <4>1, TailInOrder DEF TypeOK, Chronological
      <4>3. AgesIssued' BY <1>0, <2>0, <3>1, <4>2 DEF AgesIssued
      <4>4. CountMatches'
        BY <1>0, <2>0, <3>1, <4>1, <4>2 DEF CountMatches
      <4>5. Chronological' BY <1>0, <3>1, <4>2 DEF Chronological
      <4>. QED BY <1>0, <2>0, <3>1, <3>2, <4>3, <4>4, <4>5
           DEF SpoolInv, NothingInMemoryWhenDown, HeldKeepsName
    <3>. QED BY <3>3, <3>4
  <2>. QED BY <1>5, <2>1, <2>2 DEF Remove
<1>6. CASE GiveUp
  BY <1>0, <1>6
     DEF GiveUp, SpoolInv, NamesIssued, Issued, AgesIssued, HeldKeepsName,
         NothingInMemoryWhenDown, Chronological, CountMatches
<1>7. CASE Crash
  <2>1. /\ ~up' /\ mem' = <<>> /\ held' = NoBatch
        /\ UNCHANGED <<files, clock, adds>>
    BY <1>7 DEF Crash, Died
  <2>2. /\ NamesIssued'
        /\ \A f \in files' : f.age <= adds'
        /\ \A f, g \in files' : f.age < g.age <=> Before(f, g)
    BY <2>1, FewerFiles
  <2>. QED BY <1>0, <2>1, <2>2
       DEF SpoolInv, AgesIssued, HeldKeepsName, NothingInMemoryWhenDown,
           Chronological, InAgeOrder, CountMatches
<1>8. CASE Open
  <2>1. /\ ~up /\ up' /\ UNCHANGED <<files, mem, seq, held, adds>>
        /\ clock' \in Nat /\ (OnDisk => clock < clock')
        /\ count' = IF OnDisk THEN Cardinality(files) ELSE 0
    BY <1>0, <1>8, SpoolAssumption DEF Open, Found, TypeOK
  <2>2. mem = <<>> /\ held = NoBatch
    BY <1>0, <2>1 DEF NothingInMemoryWhenDown
  <2>3. \A f \in files : f.nano \in Nat /\ f.nano <= clock
    <3>1. \A f \in files : f.nano \in Nat BY <1>0 DEF TypeOK, Entry
    <3>2. \A f \in files : f.nano < clock \/ f.nano = clock
      BY <1>0 DEF NamesIssued, Issued
    <3>. QED BY <1>0, <3>1, <3>2 DEF TypeOK
  <2>4. \A f \in files : Issued(f)'
    BY <1>0, <2>1, <2>3 DEF Issued, TypeOK, NoFilesInMemory
  <2>5. NamesIssued' BY <1>0, <2>1, <2>4 DEF NamesIssued
  <2>6. CountMatches' BY <2>1, <2>2, EmptySeq DEF CountMatches
  <2>. QED BY <1>0, <2>1, <2>2, <2>5, <2>6
       DEF SpoolInv, AgesIssued, HeldKeepsName, NothingInMemoryWhenDown,
           Chronological
<1>9. CASE UNCHANGED vars
  BY <1>0, <1>9
     DEF vars, SpoolInv, NamesIssued, Issued, AgesIssued, HeldKeepsName,
         NothingInMemoryWhenDown, Chronological, CountMatches
<1>. QED BY <1>1, <1>2, <1>3, <1>4, <1>5, <1>6, <1>7, <1>8, <1>9 DEF Next

\* The spool's invariant in every reachable state, if the clock is not set
\* back: all of what follows rests on it.
THEOREM SpoolInvariant ==
    ASSUME OnDisk => "clock" \notin Faults
    PROVE  Spec => []SpoolInv
<1>1. Init => SpoolInv
  <2>. SUFFICES ASSUME Init PROVE SpoolInv
    OBVIOUS
  <2>2. TypeOK BY SpoolAssumption, FS_EmptySet DEF Init, TypeOK
  <2>3. CountMatches BY FS_EmptySet DEF Init, CountMatches
  <2>. QED BY <2>2, <2>3
       DEF Init, SpoolInv, NamesIssued, AgesIssued, HeldKeepsName,
           NothingInMemoryWhenDown, NoFilesInMemory, Chronological, InAgeOrder
<1>. QED BY <1>1, InvStep, PTL DEF Spec

\* The count is always the number of batches stored: the cap and the replay
\* shortcut that read it see the truth.
THEOREM DepthIsExact ==
    ASSUME OnDisk => "clock" \notin Faults
    PROVE  Spec => []CountMatches
<1>1. SpoolInv => CountMatches BY DEF SpoolInv
<1>. QED BY <1>1, SpoolInvariant, PTL

\* Names are in the order of the Adds: oldest by name is oldest.
THEOREM NamesChronological ==
    ASSUME OnDisk => "clock" \notin Faults
    PROVE  Spec => []Chronological
<1>1. SpoolInv => Chronological BY DEF SpoolInv
<1>. QED BY <1>1, SpoolInvariant, PTL

(***************************************************************************)
(* The depth and the cap, however the clock is set                         *)
(***************************************************************************)

\* The depth is at least the number of batches stored.  It may be more once
\* the clock has been set back: Add counts a file that replaced another of its
\* name.  Oldest reads the directory and makes it exact again.
DepthNotLow ==
    up => (IF OnDisk THEN Cardinality(files) ELSE Len(mem)) <= count

\* Inductive, with the type: what it needs is that a new process counts the
\* directory and that its memory is empty.
DepthInv == TypeOK /\ NothingInMemoryWhenDown /\ DepthNotLow

\* A file that is written makes the directory larger by one at most, and what
\* trimLocked deletes is counted.
LEMMA WrittenCounts ==
    ASSUME TypeOK, NEW f \in Entry, NEW gone \in SUBSET Written(f)
    PROVE  /\ Cardinality(Written(f) \ gone)
                <= Cardinality(files) + 1 - Cardinality(gone)
           /\ Cardinality(files) \in Nat /\ Cardinality(gone) \in Nat
           /\ Cardinality(Written(f) \ gone) \in Nat
<1>1. IsFiniteSet(files) BY DEF TypeOK
<1>2. Written(f) \subseteq files \cup {f} BY DEF Written
<1>3. /\ IsFiniteSet(files \cup {f})
      /\ Cardinality(files \cup {f})
           = IF f \in files THEN Cardinality(files) ELSE Cardinality(files) + 1
  BY <1>1, FS_AddElement
<1>4. /\ IsFiniteSet(Written(f))
      /\ Cardinality(Written(f)) <= Cardinality(files \cup {f})
  BY <1>2, <1>3, FS_Subset
<1>5. Cardinality(Written(f) \ gone)
        = Cardinality(Written(f)) - Cardinality(Written(f) \cap gone)
  BY <1>4, FS_Difference, Zenon
<1>6. Written(f) \cap gone = gone OBVIOUS
<1>7. Cardinality(Written(f) \ gone) = Cardinality(Written(f)) - Cardinality(gone)
  BY <1>5, <1>6, Zenon
<1>8. IsFiniteSet(gone) /\ IsFiniteSet(Written(f) \ gone) BY <1>4, FS_Subset
<1>9. /\ Cardinality(files) \in Nat /\ Cardinality(gone) \in Nat
      /\ Cardinality(Written(f)) \in Nat /\ Cardinality(Written(f) \ gone) \in Nat
  BY <1>1, <1>4, <1>8, FS_CardinalityType
<1>. QED BY <1>3, <1>4, <1>7, <1>9

\* Deleting files takes their number off.
LEMMA DeletedCounts ==
    ASSUME TypeOK, NEW gone \in SUBSET files
    PROVE  /\ Cardinality(files \ gone) = Cardinality(files) - Cardinality(gone)
           /\ Cardinality(files) \in Nat /\ Cardinality(gone) \in Nat
<1>1. IsFiniteSet(files) BY DEF TypeOK
<1>2. Cardinality(files \ gone)
        = Cardinality(files) - Cardinality(files \cap gone)
  BY <1>1, FS_Difference, Zenon
<1>3. files \cap gone = gone OBVIOUS
<1>4. IsFiniteSet(gone) BY <1>1, FS_Subset
<1>. QED BY <1>1, <1>2, <1>3, <1>4, FS_CardinalityType

\* What AddMem leaves: k batches gone from the head, the new one at the end.
LEMMA AddMemShifts ==
    ASSUME TypeOK, NEW b \in Batches, AddMem(b)
    PROVE  \E k \in 0..Len(mem) + 1 :
             /\ MaxBatches <= 0 => k = 0
             /\ Len(mem') = Len(mem) + 1 - k
             /\ count' = count + 1 - k
             /\ \A i \in 1..Len(mem') :
                  \/ i + k \in 1..Len(mem) /\ mem'[i] = mem[i + k]
                  \/ i + k = Len(mem) + 1 /\ mem'[i].age = adds + 1
<1>. PICK e : e = [nano |-> 0, seq |-> 0, age |-> adds + 1, results |-> b]
  OBVIOUS
<1>. PICK m : m = Append(mem, e) OBVIOUS
<1>. PICK k : k = IF ~(MaxBatches <= 0 \/ count + 1 <= MaxBatches)
                       /\ Len(m) > MaxBatches
                    THEN Len(m) - MaxBatches ELSE 0
  OBVIOUS
<1>1. mem' = SubSeq(m, k + 1, Len(m)) /\ count' = count + 1 - k
  BY DEF AddMem, Excess, Kept, WithinCap
<1>2. mem \in Seq(Entry) /\ adds \in Nat /\ e \in Entry /\ e.age = adds + 1
  BY DEF TypeOK, Entry
<1>3. /\ m \in Seq(Entry) /\ Len(m) = Len(mem) + 1 /\ m[Len(m)] = e
      /\ \A i \in 1..Len(mem) : m[i] = mem[i]
  BY <1>2, AppendProperties
<1>4. Len(m) \in Nat /\ Len(mem) \in Nat BY <1>2, <1>3
<1>5. k \in 0..Len(m) /\ (MaxBatches <= 0 => k = 0)
  BY <1>4, SpoolAssumption
<1>. PICK q : q = SubSeq(m, k + 1, Len(m)) OBVIOUS
<1>6. /\ Len(q) = Len(m) - k
      /\ \A i \in 1..Len(m) - k : q[i] = m[i + k] /\ i + k \in 1..Len(m)
  BY ONLY <1>3, <1>5, q = SubSeq(m, k + 1, Len(m)), SubSeqShifts
<1>7. ASSUME NEW i \in 1..Len(q)
      PROVE  \/ i + k \in 1..Len(mem) /\ q[i] = mem[i + k]
             \/ i + k = Len(mem) + 1 /\ q[i].age = adds + 1
  <2>1. i \in 1..Len(m) - k /\ q[i] = m[i + k] /\ i + k \in 1..Len(m) BY <1>6
  <2>2. i + k \in 1..Len(mem) \/ i + k = Len(mem) + 1 BY <1>3, <1>4, <2>1
  <2>. QED BY <1>2, <1>3, <2>1, <2>2
<1>8. mem' = q BY <1>1
<1>9. k \in 0..Len(mem) + 1 /\ Len(q) = Len(mem) + 1 - k BY <1>3, <1>5, <1>6
<1>10. /\ Len(mem') = Len(mem) + 1 - k
       /\ \A i \in 1..Len(mem') :
            \/ i + k \in 1..Len(mem) /\ mem'[i] = mem[i + k]
            \/ i + k = Len(mem) + 1 /\ mem'[i].age = adds + 1
  BY <1>7, <1>8, <1>9, Zenon
<1>11. (MaxBatches <= 0 => k = 0) /\ count' = count + 1 - k BY <1>1, <1>5
<1>. QED BY <1>9, <1>10, <1>11, Zenon

\* Every step keeps the depth from falling below the number stored, whatever
\* it fails at and however the clock is set.
LEMMA DepthStep == DepthInv /\ [Next]_vars => DepthInv'
<1>. SUFFICES ASSUME DepthInv, [Next]_vars PROVE DepthInv'
  OBVIOUS
<1>0. /\ TypeOK /\ TypeOK' /\ NothingInMemoryWhenDown /\ DepthNotLow
      /\ count \in Int
  BY TypeStep DEF DepthInv, TypeOK
<1>1. ASSUME NEW b \in Batches, Add(b) PROVE DepthInv'
  <2>0. up /\ up' BY <1>1 DEF Add
  <2>1. CASE AddDisk(b)
    <3>1. /\ OnDisk
          /\ \E nano \in Stamps : \E gone \in SUBSET Written(NewFile(b, nano)) :
               /\ files' = Written(NewFile(b, nano)) \ gone
               /\ count' = count + 1 - Cardinality(gone)
      BY <2>1, AddDiskEffect
    <3>2. PICK nano \in Stamps : \E gone \in SUBSET Written(NewFile(b, nano)) :
               /\ files' = Written(NewFile(b, nano)) \ gone
               /\ count' = count + 1 - Cardinality(gone)
      BY <3>1
    <3>. PICK f : f = NewFile(b, nano) OBVIOUS
    <3>3. PICK gone \in SUBSET Written(f) :
               /\ files' = Written(f) \ gone
               /\ count' = count + 1 - Cardinality(gone)
      BY <3>2
    <3>4. f \in Entry
      BY <1>0, StampsNat DEF TypeOK, Entry, NewFile
    <3>5. /\ Cardinality(files') <= Cardinality(files) + 1 - Cardinality(gone)
          /\ Cardinality(files) \in Nat /\ Cardinality(gone) \in Nat
          /\ Cardinality(files') \in Nat
      BY <1>0, <3>3, <3>4, WrittenCounts
    <3>6. Cardinality(files) <= count BY <1>0, <2>0, <3>1 DEF DepthNotLow
    <3>7. Cardinality(files') <= count' BY <1>0, <3>3, <3>5, <3>6
    <3>. QED BY <1>0, <2>0, <3>1, <3>7
         DEF DepthInv, DepthNotLow, NothingInMemoryWhenDown
  <2>2. CASE AddMem(b)
    <3>1. ~OnDisk BY <2>2 DEF AddMem
    <3>2. PICK k \in 0..Len(mem) + 1 :
            Len(mem') = Len(mem) + 1 - k /\ count' = count + 1 - k
      BY <1>0, <2>2, AddMemShifts
    <3>3. Len(mem) <= count /\ Len(mem) \in Nat
      BY <1>0, <2>0, <3>1 DEF DepthNotLow, TypeOK
    <3>4. Len(mem') <= count' BY <1>0, <3>2, <3>3
    <3>. QED BY <1>0, <2>0, <3>1, <3>4
         DEF DepthInv, DepthNotLow, NothingInMemoryWhenDown
  <2>. QED BY <1>1, <2>1, <2>2 DEF Add
<1>2. ASSUME NEW b \in Batches, AddFails(b) PROVE DepthInv'
  BY <1>0, <1>2 DEF AddFails, DepthInv, DepthNotLow, NothingInMemoryWhenDown
<1>3. ASSUME Died PROVE DepthInv'
  BY <1>0, <1>3 DEF Died, DepthInv, DepthNotLow, NothingInMemoryWhenDown
<1>4. CASE Oldest
  <2>1. up /\ up' BY <1>4 DEF Oldest
  <2>2. CASE UNCHANGED <<files, mem, count>>
    BY <1>0, <2>1, <2>2 DEF DepthInv, DepthNotLow, NothingInMemoryWhenDown
  <2>3. CASE ~UNCHANGED <<files, mem, count>>
    <3>1. OnDisk /\ OldestDisk BY <1>4, <2>3 DEF Oldest, OldestDisk, OldestMem
    <3>2. PICK gone \in SUBSET files :
            /\ files' = files \ gone
            /\ count' = Cardinality(files) - Cardinality(gone)
      BY <2>3, <3>1 DEF OldestDisk, May
    <3>3. Cardinality(files') = count' /\ count' \in Int
      BY <1>0, <3>2, DeletedCounts
    <3>. QED BY <1>0, <2>1, <3>1, <3>3
         DEF DepthInv, DepthNotLow, NothingInMemoryWhenDown
  <2>. QED BY <2>2, <2>3
<1>5. CASE Remove
  <2>1. up /\ up' BY <1>5 DEF Remove
  <2>2. CASE UNCHANGED <<files, mem, count>>
    BY <1>0, <2>1, <2>2 DEF DepthInv, DepthNotLow, NothingInMemoryWhenDown
  <2>3. CASE RemoveDisk /\ ~UNCHANGED <<files, mem, count>>
    <3>1. PICK target \in SUBSET files :
            files' = files \ target /\ count' = count - Cardinality(target)
      BY <2>3 DEF RemoveDisk
    <3>2. /\ Cardinality(files') = Cardinality(files) - Cardinality(target)
          /\ Cardinality(files) \in Nat /\ Cardinality(target) \in Nat
      BY <1>0, <3>1, DeletedCounts
    <3>3. OnDisk /\ Cardinality(files) <= count
      BY <1>0, <2>1, <2>3 DEF DepthNotLow, RemoveDisk
    <3>4. Cardinality(files') <= count' BY <1>0, <3>1, <3>2, <3>3
    <3>. QED BY <1>0, <2>1, <3>3, <3>4
         DEF DepthInv, DepthNotLow, NothingInMemoryWhenDown
  <2>4. CASE RemoveMem /\ ~UNCHANGED <<files, mem, count>>
    <3>1. /\ ~OnDisk /\ mem # <<>> /\ mem' = Tail(mem) /\ count' = count - 1
      BY <2>4 DEF RemoveMem
    <3>2. Len(mem') = Len(mem) - 1 /\ Len(mem) \in Nat
      BY <1>0, <3>1, HeadTailProperties DEF TypeOK
    <3>3. Len(mem) <= count BY <1>0, <2>1, <3>1 DEF DepthNotLow
    <3>4. Len(mem') <= count' BY <1>0, <3>1, <3>2, <3>3
    <3>. QED BY <1>0, <2>1, <3>1, <3>4
         DEF DepthInv, DepthNotLow, NothingInMemoryWhenDown
  <2>. QED BY <1>5, <2>2, <2>3, <2>4 DEF Remove
<1>6. CASE GiveUp
  BY <1>0, <1>6 DEF GiveUp, DepthInv, DepthNotLow, NothingInMemoryWhenDown
<1>7. CASE Open
  <2>1. /\ up' /\ UNCHANGED <<files, mem, held>> /\ mem = <<>> /\ count' = Found
    BY <1>0, <1>7 DEF Open, NothingInMemoryWhenDown
  <2>2. Cardinality(files) \in Nat BY <1>0, FS_CardinalityType DEF TypeOK
  <2>3. (IF OnDisk THEN Cardinality(files') ELSE Len(mem')) <= count'
    BY <2>1, <2>2, EmptySeq DEF Found
  <2>. QED BY <1>0, <2>1, <2>3 DEF DepthInv, DepthNotLow, NothingInMemoryWhenDown
<1>8. CASE UNCHANGED vars
  BY <1>0, <1>8 DEF vars, DepthInv, DepthNotLow, NothingInMemoryWhenDown
<1>9. ASSUME NEW b \in Batches, CrashInAdd(b) PROVE DepthInv'
  BY <1>3, <1>9 DEF CrashInAdd
<1>10. CASE Crash BY <1>3, <1>10 DEF Crash
<1>. QED BY <1>1, <1>2, <1>4, <1>5, <1>6, <1>7, <1>8, <1>9, <1>10 DEF Next

\* And it holds from the start.
LEMMA DepthInvariant == Spec => []DepthInv
<1>1. Init => DepthInv
  <2>. SUFFICES ASSUME Init PROVE DepthInv
    OBVIOUS
  <2>1. TypeOK BY SpoolAssumption, FS_EmptySet DEF Init, TypeOK
  <2>2. Cardinality(files) = 0 /\ Len(mem) = 0 /\ count = 0
    BY FS_EmptySet DEF Init
  <2>. QED BY <2>1, <2>2 DEF Init, DepthInv, DepthNotLow, NothingInMemoryWhenDown
<1>. QED BY <1>1, DepthStep, PTL DEF Spec

\* A depth of zero means that nothing is stored, whatever failed before and
\* however the clock was set: replaySpool, which returns at once then, passes
\* over no batch.
THEOREM DepthNeverLow == Spec => []DepthNotLow
<1>1. DepthInv => DepthNotLow BY DEF DepthInv
<1>. QED BY <1>1, DepthInvariant, PTL

(***************************************************************************)
(* What one Add drops, when the file system works                          *)
(***************************************************************************)

\* trimLocked deletes the first names, and leaves at most the cap.
LEMMA DiskAddTrims ==
    ASSUME Faults \cap {"clock", "remove", "list"} = {}, SpoolInv, up,
           NEW b \in Batches, AddDisk(b), adds' = adds + 1, up'
    PROVE  /\ MaxBatches > 0 => Cardinality(files') <= MaxBatches
           /\ \E e \in files' : e.age = adds'
           /\ \A e \in files \ files', k \in files' : e.age < k.age
<1>1. /\ TypeOK /\ NamesIssued /\ AgesIssued /\ Chronological
      /\ OnDisk /\ seq' = seq + 1 /\ count = Cardinality(files)
  BY AddDiskEffect DEF SpoolInv, CountMatches
<1>2. PICK nano \in Stamps :
      \E gone \in SUBSET Written(NewFile(b, nano)) :
        /\ clock' = nano
        /\ files' = Written(NewFile(b, nano)) \ gone
        /\ \E stuck \in May("remove", Written(NewFile(b, nano))) :
             Trimmed(Written(NewFile(b, nano)), stuck, gone)
  BY AddDiskEffect
<1>. PICK f : f = NewFile(b, nano) OBVIOUS
<1>3. PICK gone \in SUBSET Written(f) :
        /\ clock' = nano
        /\ files' = Written(f) \ gone
        /\ \E stuck \in May("remove", Written(f)) :
             Trimmed(Written(f), stuck, gone)
  BY <1>2
<1>4. Trimmed(Written(f), {}, gone) BY <1>3 DEF May
<1>5. /\ f \in Entry /\ f \notin files /\ Written(f) = files \cup {f}
      /\ \A g \in files : Before(g, f) /\ g.age < f.age
  BY <1>1, NewFileIsLast
<1>6. Cardinality(files') = count + 1 - Cardinality(gone)
  BY <1>1, <1>3, WrittenKeeps
<1>7. f.age = adds' BY DEF NewFile
<1>8. CASE MaxBatches <= 0 \/ count + 1 <= MaxBatches
  <2>1. gone = {}
    BY <1>4, <1>8 DEF Trimmed, WithinCap
  <2>2. files' = files \cup {f} BY <1>3, <1>5, <2>1
  <2>3. Cardinality(gone) = 0 BY <2>1, FS_EmptySet
  <2>4. MaxBatches > 0 => Cardinality(files') <= MaxBatches
    BY <1>1, <1>6, <1>8, <2>3, SpoolAssumption DEF TypeOK
  <2>. QED BY <1>7, <2>2, <2>4
<1>9. CASE ~(MaxBatches <= 0 \/ count + 1 <= MaxBatches)
  <2>1. /\ \A g \in gone, h \in Written(f) \ gone : Before(g, h)
        /\ gone = {} \/ Cardinality(Written(f) \ gone) >= MaxBatches
        /\ gone = Written(f) \/ Cardinality(Written(f) \ gone) <= MaxBatches
    <3>1. Written(f) \ {} = Written(f) OBVIOUS
    <3>. QED BY <1>4, <1>9, <3>1 DEF Trimmed, OldestOf, WithinCap
  <2>2. MaxBatches \in Int /\ MaxBatches > 0 BY <1>9, SpoolAssumption
  <2>3. gone # Written(f)
    <3>1. SUFFICES ASSUME gone = Written(f) PROVE FALSE
      OBVIOUS
    <3>2. Cardinality(Written(f) \ gone) = 0
      <4>1. Written(f) \ gone = {} BY <3>1
      <4>. QED BY <4>1, FS_EmptySet
    <3>3. gone # {} BY <1>5, <3>1
    <3>. QED BY <2>1, <2>2, <3>2, <3>3
  <2>4. Cardinality(files') <= MaxBatches
    <3>1. Cardinality(Written(f) \ gone) <= MaxBatches BY <2>1, <2>3
    <3>. QED BY <1>3, <3>1, Zenon
  <2>5. f \in files'
    <3>1. SUFFICES ASSUME f \in gone PROVE FALSE
      BY <1>3, <1>5
    <3>2. PICK h \in files : h \notin gone
      BY <1>5, <2>3, <3>1
    <3>3. Before(f, h) /\ Before(h, f) BY <1>5, <2>1, <3>1, <3>2
    <3>4. /\ h.nano \in Nat /\ h.seq \in Nat
          /\ f.nano \in Nat /\ f.seq \in Nat
      BY <1>1, <1>5 DEF TypeOK, Entry
    <3>. QED BY <3>3, <3>4 DEF Before
  <2>6. ASSUME NEW e \in files \ files', NEW k \in files' PROVE e.age < k.age
    <3>1. e \in gone /\ k \notin gone /\ k \in files \cup {f}
      BY <1>3, <1>5, <2>6
    <3>2. CASE k = f BY <1>5, <3>2
    <3>3. CASE k \in files
      BY <1>1, <1>3, <1>5, <2>1, <2>6, <3>1, <3>3 DEF Chronological
    <3>. QED BY <3>1, <3>2, <3>3
  <2>. QED BY <1>7, <2>4, <2>5, <2>6
<1>. QED BY <1>8, <1>9

\* In memory the cap takes the head of the queue.
LEMMA MemAddTrims ==
    ASSUME SpoolInv, up, NEW b \in Batches, AddMem(b), adds' = adds + 1,
           mem' \in Seq(Entry)
    PROVE  /\ MaxBatches > 0 => Cardinality(Stored') <= MaxBatches
           /\ \E e \in Stored' : e.age = adds'
           /\ \A e \in Stored \ Stored', k \in Stored' : e.age < k.age
<1>1. /\ ~OnDisk
      /\ MaxBatches > 0 => Len(mem') <= MaxBatches
      /\ \E i \in 1..Len(mem') : mem'[i].age = adds'
      /\ \A i \in 1..Len(mem) :
           \/ \E j \in 1..Len(mem') : mem'[j] = mem[i]
           \/ \A j \in 1..Len(mem') : mem[i].age < mem'[j].age
  BY AddMemEffect
<1>2. /\ Stored = {mem[i] : i \in 1..Len(mem)}
      /\ Stored' = {mem'[i] : i \in 1..Len(mem')}
  BY <1>1 DEF Stored
<1>3. MaxBatches > 0 => Cardinality(Stored') <= MaxBatches
  <2>1. PICK n \in Nat : n = Len(mem') BY LenProperties
  <2>2. PICK g : g = [i \in 1..n |-> mem'[i]] OBVIOUS
  <2>3. g \in Surjection(1..n, Stored')
    BY <1>2, <2>1, <2>2 DEF Surjection
  <2>4. /\ IsFiniteSet(1..n)
        /\ Cardinality(1..n) = IF 1 > n THEN 0 ELSE n - 1 + 1
    BY FS_Interval
  <2>5. Cardinality(1..n) = n BY <2>4
  <2>6. /\ IsFiniteSet(Stored') /\ Cardinality(Stored') <= n
    BY <2>3, <2>4, <2>5, FS_Surjection
  <2>7. Cardinality(Stored') \in Nat BY <2>6, FS_CardinalityType
  <2>. QED BY <1>1, <2>1, <2>6, <2>7, SpoolAssumption
<1>. QED BY <1>1, <1>2, <1>3

\* Only an Add that returns counts a batch in a process that goes on.
LEMMA AddsOnly ==
    ASSUME [Next]_vars, adds' # adds, up'
    PROVE  \E b \in Batches : Add(b)
<1>1. ASSUME NEW b \in Batches, AddFails(b) PROVE FALSE
  BY <1>1 DEF AddFails
<1>2. ASSUME NEW b \in Batches, CrashInAdd(b) PROVE FALSE
  BY <1>2 DEF CrashInAdd, Died
<1>3. ~Oldest /\ ~Remove /\ ~GiveUp /\ ~Crash /\ ~Open /\ ~UNCHANGED vars
  BY DEF Oldest, Remove, GiveUp, Crash, Died, Open, vars
<1>. QED BY <1>1, <1>2, <1>3 DEF Next

\* An Add keeps its own batch and every batch younger than those it drops, on
\* disk when what must be deleted can be.
LEMMA DropsOldestStep ==
    ASSUME OnDisk => Faults \cap {"clock", "remove", "list"} = {},
           SpoolInv, [Next]_vars, adds' # adds, up'
    PROVE  /\ MaxBatches > 0 => Cardinality(Stored') <= MaxBatches
           /\ \E e \in Stored' : e.age = adds'
           /\ \A e \in Stored \ Stored', k \in Stored' : e.age < k.age
<1>1. PICK b \in Batches : Add(b) BY AddsOnly
<1>2. up /\ adds' = adds + 1 BY <1>1 DEF Add
<1>3. CASE AddDisk(b)
  <2>1. OnDisk BY <1>3 DEF AddDisk
  <2>2. Stored = files /\ Stored' = files' BY <2>1 DEF Stored
  <2>. QED BY <1>2, <1>3, <2>1, <2>2, DiskAddTrims
<1>4. CASE AddMem(b)
  <2>1. mem' \in Seq(Entry) BY <1>1, TypeStep DEF SpoolInv, TypeOK, Next
  <2>. QED BY <1>2, <1>4, <2>1, MemAddTrims
<1>. QED BY <1>1, <1>3, <1>4 DEF Add

\* trimLocked meets the cap also when the clock was set back: the depth it
\* compares with the cap is not below the number of files.
LEMMA DiskAddCaps ==
    ASSUME Faults \cap {"remove", "list"} = {}, DepthInv, up, MaxBatches > 0,
           NEW b \in Batches, AddDisk(b)
    PROVE  Cardinality(files') <= MaxBatches
<1>0. TypeOK /\ OnDisk /\ Cardinality(files) <= count /\ count \in Int
      /\ MaxBatches \in Int
  BY AddDiskEffect, SpoolAssumption DEF DepthInv, DepthNotLow, TypeOK
<1>1. PICK nano \in Stamps :
      \E gone \in SUBSET Written(NewFile(b, nano)) :
        /\ files' = Written(NewFile(b, nano)) \ gone
        /\ \E stuck \in May("remove", Written(NewFile(b, nano))) :
             Trimmed(Written(NewFile(b, nano)), stuck, gone)
  BY AddDiskEffect
<1>. PICK f : f = NewFile(b, nano) OBVIOUS
<1>2. PICK gone \in SUBSET Written(f) :
        /\ files' = Written(f) \ gone
        /\ \E stuck \in May("remove", Written(f)) :
             Trimmed(Written(f), stuck, gone)
  BY <1>1
<1>3. \A T : May("remove", T) = {{}} BY DEF May
<1>4. Trimmed(Written(f), {}, gone) BY <1>2, <1>3
<1>5. f \in Entry BY <1>0, StampsNat DEF TypeOK, Entry, NewFile
<1>6. /\ Cardinality(files') <= Cardinality(files) + 1 - Cardinality(gone)
      /\ Cardinality(files) \in Nat /\ Cardinality(gone) \in Nat
      /\ Cardinality(files') \in Nat
  BY <1>0, <1>2, <1>5, WrittenCounts
<1>7. CASE WithinCap
  <2>1. count + 1 <= MaxBatches BY <1>0, <1>7 DEF WithinCap
  <2>. QED BY <1>0, <1>6, <2>1
<1>8. CASE ~WithinCap
  <2>1. gone = Written(f) \ {} \/ Cardinality(Written(f) \ gone) <= MaxBatches
    BY <1>4, <1>8 DEF Trimmed
  <2>2. CASE gone = Written(f) \ {}
    <3>1. files' = {} BY <1>2, <2>2
    <3>2. Cardinality({}) = 0 BY FS_EmptySet
    <3>3. Cardinality(files') = 0 BY <3>1, <3>2
    <3>. QED BY <1>0, <3>3
  <2>3. CASE Cardinality(Written(f) \ gone) <= MaxBatches
    BY <1>2, <2>3
  <2>. QED BY <2>1, <2>2, <2>3
<1>. QED BY <1>7, <1>8

\* After an Add the spool is within the cap, whatever earlier processes left
\* in it and however the clock was set.
THEOREM CapHolds ==
    ASSUME OnDisk => Faults \cap {"remove", "list"} = {}
    PROVE  Spec => CapAfterAdd
<1>1. (~OnDisk => SpoolInv) /\ DepthInv /\ [Next]_vars
        => [adds' # adds /\ up' /\ MaxBatches > 0
              => Cardinality(Stored') <= MaxBatches]_vars
  <2>. SUFFICES ASSUME ~OnDisk => SpoolInv, DepthInv, [Next]_vars,
                       adds' # adds, up', MaxBatches > 0
                PROVE  Cardinality(Stored') <= MaxBatches
    OBVIOUS
  <2>1. PICK b \in Batches : Add(b) BY AddsOnly
  <2>2. up BY <2>1 DEF Add
  <2>3. CASE OnDisk
    <3>1. AddDisk(b) BY <2>1, <2>3 DEF Add, AddMem
    <3>2. Stored' = files' BY <2>3 DEF Stored
    <3>. QED BY <2>2, <2>3, <3>1, <3>2, DiskAddCaps
  <2>4. CASE ~OnDisk BY <2>4, DropsOldestStep
  <2>. QED BY <2>3, <2>4
<1>2. Spec => [](~OnDisk => SpoolInv)
  <2>1. CASE OnDisk
    <3>1. ~OnDisk => SpoolInv BY <2>1
    <3>. QED BY <3>1, PTL
  <2>2. CASE ~OnDisk
    <3>1. OnDisk => "clock" \notin Faults BY <2>2
    <3>2. SpoolInv => (~OnDisk => SpoolInv) OBVIOUS
    <3>. QED BY <3>1, <3>2, SpoolInvariant, PTL
  <2>. QED BY <2>1, <2>2
<1>. QED BY <1>1, <1>2, DepthInvariant, PTL DEF Spec, CapAfterAdd

\* What an Add drops is older than all it keeps.
THEOREM OldestAreDropped ==
    ASSUME OnDisk => Faults \cap {"clock", "remove", "list"} = {}
    PROVE  Spec => DropsOldestFirst
<1>1. SpoolInv /\ [Next]_vars
        => [adds' # adds /\ up'
              => /\ \E e \in Stored' : e.age = adds'
                 /\ \A e \in Stored \ Stored', k \in Stored' : e.age < k.age]_vars
  BY DropsOldestStep
<1>2. OnDisk => "clock" \notin Faults OBVIOUS
<1>. QED BY <1>1, <1>2, SpoolInvariant, PTL DEF Spec, DropsOldestFirst

(***************************************************************************)
(* What Remove takes                                                       *)
(***************************************************************************)

\* In memory the held batch is the head of the queue or, once the cap has
\* dropped it, no longer in it; without a cap it stays the head.
HeldAtHead ==
    ~OnDisk =>
        /\ \A i \in 1..Len(mem) : mem[i].age > 0
        /\ held # NoBatch =>
             /\ held.age \in 1..adds
             /\ \A i \in 1..Len(mem) : mem[i] = held => i = 1
             /\ MaxBatches <= 0 => mem # <<>> /\ mem[1] = held

\* Every step keeps it there.
LEMMA HeldAtHeadStep ==
    ASSUME SpoolInv, HeldAtHead, [Next]_vars
    PROVE  HeldAtHead'
<1>. SUFFICES ASSUME ~OnDisk PROVE HeldAtHead'
  BY DEF HeldAtHead
<1>0. /\ mem \in Seq(Entry) /\ Len(mem) \in Nat /\ adds \in Nat
      /\ held \in Entry \cup {NoBatch}
  BY DEF SpoolInv, TypeOK
<1>00. \A i \in 1..Len(mem) : mem[i].age \in Nat /\ mem[i].age <= adds
  <2>1. \A i \in 1..Len(mem) : mem[i] \in Entry BY <1>0, ElementOfSeq
  <2>. QED BY <2>1 DEF Entry, SpoolInv, AgesIssued
<1>1. ASSUME NEW b \in Batches, Add(b) PROVE HeldAtHead'
  <2>1. AddMem(b) /\ adds' = adds + 1 /\ held' = held
    BY <1>1 DEF Add, AddDisk
  <2>2. PICK k \in 0..Len(mem) + 1 :
          /\ MaxBatches <= 0 => k = 0
          /\ Len(mem') = Len(mem) + 1 - k
          /\ \A i \in 1..Len(mem') :
               \/ i + k \in 1..Len(mem) /\ mem'[i] = mem[i + k]
               \/ i + k = Len(mem) + 1 /\ mem'[i].age = adds + 1
    BY <2>1, AddMemShifts DEF SpoolInv
  <2>3. \A i \in 1..Len(mem') : mem'[i].age > 0
    <3>1. \A i \in 1..Len(mem) : mem[i].age > 0 BY DEF HeldAtHead
    <3>2. adds + 1 > 0 BY <1>0
    <3>. QED BY <2>2, <3>1, <3>2
  <2>4. ASSUME held # NoBatch PROVE held'.age \in 1..adds'
    BY <1>0, <2>1, <2>4 DEF HeldAtHead
  <2>5. ASSUME held # NoBatch, NEW i \in 1..Len(mem'), mem'[i] = held
        PROVE  i = 1
    <3>1. held.age \in 1..adds /\ \A j \in 1..Len(mem) : mem[j] = held => j = 1
      BY <2>5 DEF HeldAtHead
    <3>2. held.age # adds + 1 BY <1>0, <3>1
    <3>3. i + k \in 1..Len(mem) /\ mem[i + k] = held BY <2>2, <2>5, <3>2
    <3>4. i + k = 1 BY <3>1, <3>3
    <3>5. i \in Nat /\ k \in Nat /\ i >= 1 BY <2>2
    <3>. QED BY <3>4, <3>5
  <2>6. ASSUME held # NoBatch, MaxBatches <= 0
        PROVE  mem' # <<>> /\ mem'[1] = held
    <3>1. mem # <<>> /\ mem[1] = held BY <2>6 DEF HeldAtHead
    <3>2. Len(mem) >= 1 BY <1>0, <3>1, EmptySeq
    <3>3. k = 0 /\ Len(mem') = Len(mem) + 1 BY <1>0, <2>2, <2>6
    <3>4. 1 \in 1..Len(mem') /\ 1 + k \in 1..Len(mem) /\ 1 + k = 1
      BY <1>0, <3>2, <3>3
    <3>5. mem'[1] = mem[1]
      <4>1. 1 + k # Len(mem) + 1 BY <1>0, <3>2, <3>3
      <4>. QED BY <2>2, <3>4, <4>1
    <3>6. mem' # <<>>
      <4>1. Len(mem') # 0 BY <1>0, <3>3
      <4>. QED BY <4>1, EmptySeq
    <3>. QED BY <3>1, <3>5, <3>6
  <2>. QED BY <2>1, <2>3, <2>4, <2>5, <2>6 DEF HeldAtHead
<1>2. ASSUME NEW b \in Batches PROVE ~AddFails(b) /\ ~CrashInAdd(b)
  BY DEF AddFails, CrashInAdd
<1>3. CASE Oldest
  <2>1. /\ held' = (IF mem = <<>> THEN NoBatch ELSE Head(mem))
        /\ mem' = mem /\ adds' = adds
    BY <1>3 DEF Oldest, OldestDisk, OldestMem
  <2>2. \A i \in 1..Len(mem) : mem[i].age > 0 BY DEF HeldAtHead
  <2>3. ASSUME held' # NoBatch
        PROVE  /\ held'.age \in 1..adds
               /\ \A i \in 1..Len(mem) : mem[i] = held' => i = 1
               /\ mem # <<>> /\ mem[1] = held'
    <3>1. mem # <<>> BY <2>1, <2>3
    <3>2. Len(mem) >= 1 BY <1>0, <3>1, EmptySeq
    <3>3. 1 \in 1..Len(mem) BY <1>0, <3>2
    <3>4. held' = mem[1] BY <1>0, <2>1, <3>1, HeadTailProperties
    <3>5. held'.age \in 1..adds BY <1>0, <1>00, <2>2, <3>3, <3>4
    <3>6. ASSUME NEW i \in 1..Len(mem), mem[i] = mem[1] PROVE i = 1
      <4>1. 1 < i <=> mem[1].age < mem[i].age
        BY <3>3 DEF SpoolInv, Chronological, InAgeOrder
      <4>2. ~(1 < i) BY <1>00, <3>3, <3>6, <4>1
      <4>. QED BY <1>0, <4>2
    <3>. QED BY <3>1, <3>4, <3>5, <3>6
  <2>. QED BY <2>1, <2>2, <2>3 DEF HeldAtHead
<1>4. CASE Remove
  <2>1. held' = NoBatch /\ (mem' = mem \/ (mem # <<>> /\ mem' = Tail(mem)))
    BY <1>4 DEF Remove, RemoveDisk, RemoveMem
  <2>2. CASE mem' = mem BY <2>1, <2>2 DEF HeldAtHead
  <2>3. CASE mem # <<>> /\ mem' = Tail(mem)
    <3>1. \A i \in 1..Len(mem') : mem'[i] = mem[i + 1] /\ i + 1 \in 1..Len(mem)
      BY <1>0, <2>3, TailInOrder DEF SpoolInv, Chronological
    <3>. QED BY <2>1, <3>1 DEF HeldAtHead
  <2>. QED BY <2>1, <2>2, <2>3
<1>5. CASE GiveUp BY <1>5 DEF GiveUp, HeldAtHead
<1>6. CASE Crash
  <2>1. mem' = <<>> /\ held' = NoBatch BY <1>6 DEF Crash, Died
  <2>. QED BY <2>1 DEF HeldAtHead
<1>7. CASE Open BY <1>7 DEF Open, HeldAtHead
<1>8. CASE UNCHANGED vars BY <1>8 DEF vars, HeldAtHead
<1>. QED BY <1>1, <1>2, <1>3, <1>4, <1>5, <1>6, <1>7, <1>8 DEF Next

\* No batch is held, and none is stored in memory, at the start.
LEMMA HeldAtHeadInit == Init => HeldAtHead
BY DEF Init, HeldAtHead

\* Both invariants together.
LEMMA HeldInvariant ==
    ASSUME OnDisk => "clock" \notin Faults
    PROVE  Spec => [](SpoolInv /\ HeldAtHead)
<1>1. SpoolInv /\ HeldAtHead /\ [Next]_vars => HeldAtHead'
  BY HeldAtHeadStep
<1>. QED BY <1>1, HeldAtHeadInit, SpoolInvariant, PTL DEF Spec

\* What a step that ends a delivery takes out of the spool: nothing, the held
\* batch, or in memory the head.
LEMMA EndsDelivery ==
    ASSUME SpoolInv, [Next]_vars, held # NoBatch, held' = NoBatch, up'
    PROVE  \/ Stored' = Stored
           \/ OnDisk /\ Stored \ Stored' \subseteq {held}
           \/ /\ ~OnDisk /\ mem # <<>>
              /\ Stored \ Stored' \subseteq {mem[1]}
<1>1. ASSUME NEW b \in Batches PROVE ~Add(b) /\ ~AddFails(b) /\ ~CrashInAdd(b)
  BY DEF Add, AddFails, CrashInAdd, Died
<1>2. ~Oldest /\ ~Crash /\ ~Open /\ ~UNCHANGED vars
  BY DEF Oldest, Crash, Open, Died, vars, SpoolInv, NothingInMemoryWhenDown
<1>3. CASE GiveUp BY <1>3 DEF GiveUp, Stored
<1>4. CASE Remove
  <2>1. CASE RemoveDisk
    <3>1. OnDisk /\ HeldKeepsName BY <2>1 DEF RemoveDisk, SpoolInv
    <3>2. files \ files' \subseteq {held}
      BY <2>1, <3>1 DEF RemoveDisk, HeldKeepsName
    <3>. QED BY <3>1, <3>2 DEF Stored
  <2>2. CASE RemoveMem
    <3>1. ~OnDisk /\ (mem' = mem \/ (mem # <<>> /\ mem' = Tail(mem)))
      BY <2>2 DEF RemoveMem
    <3>2. CASE mem' = mem
      BY <2>2, <3>2 DEF Stored, RemoveMem
    <3>3. CASE mem # <<>> /\ mem' = Tail(mem)
      <4>0. mem \in Seq(Entry) /\ InAgeOrder(mem) /\ Len(mem) \in Nat
        BY DEF SpoolInv, TypeOK, Chronological
      <4>1. /\ Len(mem') = Len(mem) - 1
            /\ \A i \in 1..Len(mem') : mem'[i] = mem[i + 1]
        BY <3>3, <4>0, TailInOrder
      <4>2. ASSUME NEW i \in 1..Len(mem), i # 1
            PROVE  mem[i] \in Stored'
        <5>1. i - 1 \in 1..Len(mem') /\ (i - 1) + 1 = i
          BY <4>0, <4>1, <4>2
        <5>2. mem'[i - 1] = mem[i] BY <4>1, <5>1
        <5>. QED BY <3>1, <5>1, <5>2 DEF Stored
      <4>3. Stored \ Stored' \subseteq {mem[1]} BY <3>1, <4>2 DEF Stored
      <4>. QED BY <3>1, <3>3, <4>3
    <3>. QED BY <3>1, <3>2, <3>3
  <2>. QED BY <1>4, <2>1, <2>2 DEF Remove
<1>. QED BY <1>1, <1>2, <1>3, <1>4 DEF Next

\* Remove deletes the delivered batch or nothing, although other goroutines
\* added and trimmed since Oldest handed it out: on disk, and in memory when
\* there is no cap to take the delivered batch away first.
THEOREM OnlyDeliveredRemoved ==
    ASSUME IF OnDisk THEN "clock" \notin Faults ELSE MaxBatches <= 0
    PROVE  Spec => RemoveDiscardsDelivered
<1>1. SpoolInv /\ HeldAtHead /\ [Next]_vars
        => [held # NoBatch /\ held' = NoBatch /\ up'
              => Stored \ Stored' \subseteq {held}]_vars
  BY EndsDelivery DEF HeldAtHead
<1>2. OnDisk => "clock" \notin Faults OBVIOUS
<1>. QED BY <1>1, <1>2, HeldInvariant, PTL DEF Spec, RemoveDiscardsDelivered

\* While the delivered batch is stored, nothing else is removed in its place.
RemoveTakesHeld ==
    [][held # NoBatch /\ held' = NoBatch /\ up' /\ held \in Stored
         => Stored \ Stored' \subseteq {held}]_vars

\* In memory, with a cap, Remove may take a batch that was not delivered; it
\* does so only when the cap has dropped the delivered one meanwhile.
THEOREM HeldIsRemovedFirst ==
    ASSUME OnDisk => "clock" \notin Faults
    PROVE  Spec => RemoveTakesHeld
<1>1. SpoolInv /\ HeldAtHead /\ [Next]_vars
        => [held # NoBatch /\ held' = NoBatch /\ up' /\ held \in Stored
              => Stored \ Stored' \subseteq {held}]_vars
  <2>1. SpoolInv /\ HeldAtHead /\ ~OnDisk /\ held # NoBatch /\ held \in Stored
          => mem[1] = held
    BY DEF HeldAtHead, Stored
  <2>. QED BY <2>1, EndsDelivery
<1>. QED BY <1>1, HeldInvariant, PTL DEF Spec, RemoveTakesHeld

(***************************************************************************)
(* The spool implements the bounded queue                                  *)
(***************************************************************************)

\* The queue that a directory stands for.
Numbers(S) == {e.age : e \in S}

\* On disk it is the one the refinement mapping names.
LEMMA QueueIs ==
    ASSUME OnDisk
    PROVE  /\ {e.age : e \in Stored} = Numbers(files)
           /\ {e.age : e \in Stored'} = Numbers(files')
BY DEF Stored, Numbers

\* The queue counts as the spool does.
LEMMA SameCardinality == \A S : Fifo!Cardinality(S) = Cardinality(S)
  BY DEF Fifo!Cardinality, Cardinality

\* A batch is told by its number: that of a file is not 0, which stands for
\* no batch, and the held batch has it to itself, also when its file is gone.
AgesTell ==
    /\ \A f \in files : f.age > 0
    /\ held # NoBatch =>
         held.age \in 1..adds /\ \A f \in files : f.age = held.age => f = held

\* Files of different numbers are counted by counting the numbers, and what
\* leaves the directory leaves the queue.
LEMMA NumbersCount ==
    ASSUME NEW S, IsFiniteSet(S), \A f, g \in S : f.age = g.age => f = g
    PROVE  /\ Cardinality(Numbers(S)) = Cardinality(S)
           /\ \A T \in SUBSET S : Numbers(S \ T) = Numbers(S) \ Numbers(T)
<1>1. PICK g : g = [f \in S |-> f.age] OBVIOUS
<1>2. g \in Surjection(S, Numbers(S)) BY <1>1 DEF Surjection, Numbers
<1>3. g \in Injection(S, Numbers(S))
  BY <1>1 DEF Injection, IsInjective, Numbers
<1>4. Cardinality(Numbers(S)) = Cardinality(S)
  BY <1>2, <1>3, FS_Surjection
<1>5. \A T \in SUBSET S : Numbers(S \ T) = Numbers(S) \ Numbers(T)
  BY DEF Numbers
<1>. QED BY <1>4, <1>5

\* No two files have the same number.
LEMMA AgesDiffer ==
    ASSUME SpoolInv
    PROVE  \A f, g \in files : f.age = g.age => f = g
<1>1. /\ \A f, g \in files : f.age < g.age <=> Before(f, g)
      /\ \A f, g \in files : SameName(f, g) => f = g
      /\ \A f \in files : f.nano \in Nat /\ f.seq \in Nat /\ f.age \in Nat
  BY DEF SpoolInv, Chronological, NamesIssued, TypeOK, Entry
<1>. QED BY <1>1 DEF Before, SameName

\* A file that is written, and the deletion of the first names, put a number
\* at the end of the queue and take the smallest ones out.
LEMMA WrittenPuts ==
    ASSUME "clock" \notin Faults, SpoolInv, up,
           NEW nano \in Stamps, NEW b \in Batches,
           NEW gone, OldestOf(Written(NewFile(b, nano)), gone),
           files' = Written(NewFile(b, nano)) \ gone, adds' = adds + 1
    PROVE  /\ Fifo!DropsSmallest(Numbers(files) \cup {adds'}, Numbers(files'))
           /\ gone = {} => Numbers(files') = Numbers(files) \cup {adds'}
           /\ Cardinality(Numbers(files'))
                = Cardinality(Written(NewFile(b, nano)) \ gone)
<1>. PICK f : f = NewFile(b, nano) OBVIOUS
<1>1. /\ f \in Entry /\ Written(f) = files \cup {f}
      /\ \A g \in files : Before(g, f) /\ g.age < f.age
  BY NewFileIsLast DEF SpoolInv
<1>2. f.age = adds' BY DEF NewFile
<1>3. \A g \in files \cup {f} : g.nano \in Nat /\ g.seq \in Nat /\ g.age \in Nat
  BY <1>1 DEF SpoolInv, TypeOK, Entry
<1>4. \A g, h \in files \cup {f} : g.age = h.age => g = h
  <2>1. \A g \in files : g.age # f.age BY <1>1, <1>3
  <2>. QED BY <2>1, AgesDiffer
<1>5. \A g, h \in files \cup {f} : Before(g, h) => g.age < h.age
  <2>1. \A g, h \in files : Before(g, h) => g.age < h.age
    BY DEF SpoolInv, Chronological
  <2>2. \A g \in files \cup {f} : ~Before(f, g)
    BY <1>1, <1>3 DEF Before
  <2>. QED BY <1>1, <2>1, <2>2
<1>6. /\ gone \subseteq files \cup {f}
      /\ \A g \in gone, h \in (files \cup {f}) \ gone : Before(g, h)
      /\ files' = (files \cup {f}) \ gone
  BY <1>1 DEF OldestOf
<1>7. Numbers(files \cup {f}) = Numbers(files) \cup {adds'}
  BY <1>2 DEF Numbers
<1>8. IsFiniteSet(files \cup {f})
  BY FS_AddElement DEF SpoolInv, TypeOK
<1>9. Numbers(files') = (Numbers(files) \cup {adds'}) \ Numbers(gone)
  BY <1>4, <1>6, <1>7, <1>8, NumbersCount
<1>10. ASSUME NEW x \in Numbers(gone), NEW y \in Numbers(files') PROVE x < y
  <2>1. PICK g \in gone : x = g.age BY DEF Numbers
  <2>2. PICK h \in files' : y = h.age BY DEF Numbers
  <2>. QED BY <1>5, <1>6, <2>1, <2>2
<1>11. Fifo!DropsSmallest(Numbers(files) \cup {adds'}, Numbers(files'))
  BY <1>9, <1>10 DEF Fifo!DropsSmallest
<1>12. gone = {} => Numbers(files') = Numbers(files) \cup {adds'}
  BY <1>6, <1>7
<1>13. Cardinality(Numbers(files')) = Cardinality(files')
  <2>1. IsFiniteSet(files') BY <1>6, <1>8, FS_Subset
  <2>2. \A g, h \in files' : g.age = h.age => g = h BY <1>4, <1>6
  <2>. QED BY <2>1, <2>2, NumbersCount
<1>. QED BY <1>1, <1>6, <1>11, <1>12, <1>13

\* Add is Put.
LEMMA AddPuts ==
    ASSUME Faults \cap {"clock", "remove", "list"} = {}, OnDisk, SpoolInv,
           NEW b \in Batches, Add(b)
    PROVE  Fifo!Put
<1>1. up /\ up' /\ adds' = adds + 1 /\ held' = held /\ AddDisk(b)
  BY DEF Add, AddMem
<1>2. PICK nano \in Stamps :
      \E gone \in SUBSET Written(NewFile(b, nano)) :
        /\ files' = Written(NewFile(b, nano)) \ gone
        /\ \E stuck \in May("remove", Written(NewFile(b, nano))) :
             Trimmed(Written(NewFile(b, nano)), stuck, gone)
  BY <1>1, AddDiskEffect
<1>. PICK f : f = NewFile(b, nano) OBVIOUS
<1>3. PICK gone \in SUBSET Written(f) :
        /\ files' = Written(f) \ gone
        /\ Trimmed(Written(f), {}, gone)
  BY <1>2 DEF May
<1>4. OldestOf(Written(f), gone)
  <2>1. Written(f) \ {} = Written(f) OBVIOUS
  <2>. QED BY <1>3, <2>1 DEF Trimmed, OldestOf
<1>5. gone # {} => MaxBatches > 0 /\ Cardinality(files') >= MaxBatches
  <2>1. gone # {} => ~WithinCap /\ Cardinality(Written(f) \ gone) >= MaxBatches
    BY <1>3 DEF Trimmed
  <2>2. ~WithinCap => MaxBatches > 0 BY SpoolAssumption DEF WithinCap
  <2>. QED BY <1>3, <2>1, <2>2
<1>6. MaxBatches > 0 => Cardinality(files') <= MaxBatches
  BY <1>1, DiskAddTrims
<1>7. /\ Fifo!DropsSmallest(Numbers(files) \cup {adds'}, Numbers(files'))
      /\ gone = {} => Numbers(files') = Numbers(files) \cup {adds'}
      /\ Cardinality(Numbers(files')) = Cardinality(files')
  BY <1>1, <1>3, <1>4, WrittenPuts
<1>8. Cardinality(files') \in Nat
  <2>1. TypeOK' BY TypeStep DEF SpoolInv, Next
  <2>. QED BY <2>1, FS_CardinalityType DEF TypeOK
<1>9. gone # {} => Cardinality(Numbers(files')) = MaxBatches
  BY <1>5, <1>6, <1>7, <1>8, SpoolAssumption
<1>10. MaxBatches > 0 => Cardinality(Numbers(files')) <= MaxBatches
  BY <1>6, <1>7
<1>11. Numbers(files') \in SUBSET (Numbers(files) \cup {adds'})
  BY <1>7 DEF Fifo!DropsSmallest
<1>12. UNCHANGED held.age BY <1>1
<1>. QED BY <1>1, <1>7, <1>9, <1>10, <1>11, <1>12, QueueIs, SameCardinality
         DEF Fifo!Put

\* A process that dies in Add leaves the new batch in the queue, and may have
\* begun to restore the cap.
LEMMA CrashInAddRestarts ==
    ASSUME Faults \cap {"clock", "remove"} = {}, SpoolInv,
           NEW b \in Batches, CrashInAdd(b)
    PROVE  Fifo!Restart
<1>1. /\ OnDisk /\ up /\ adds' = adds + 1 /\ held'.age = 0
  BY DEF CrashInAdd, Died, NoBatch
<1>2. \A S : May("remove", S) = {{}} BY DEF May
<1>3. PICK nano \in Stamps :
      \E gone \in SUBSET Written(NewFile(b, nano)) :
        /\ files' = Written(NewFile(b, nano)) \ gone
        /\ \E stuck \in May("remove", Written(NewFile(b, nano))) :
             OldestOf(Written(NewFile(b, nano)) \ stuck, gone)
        /\ \/ gone = {}
           \/ ~WithinCap
              /\ Cardinality(Written(NewFile(b, nano)) \ gone) >= MaxBatches
  BY DEF CrashInAdd
<1>. PICK f : f = NewFile(b, nano) OBVIOUS
<1>4. PICK gone \in SUBSET Written(f) :
        /\ files' = Written(f) \ gone
        /\ \E stuck \in May("remove", Written(f)) :
             OldestOf(Written(f) \ stuck, gone)
        /\ gone = {} \/ (~WithinCap /\ Cardinality(Written(f) \ gone) >= MaxBatches)
  BY <1>3
<1>5. /\ OldestOf(Written(f), gone)
      /\ gone = {} \/ (~WithinCap /\ Cardinality(files') >= MaxBatches)
  <2>1. OldestOf(Written(f) \ {}, gone) BY <1>2, <1>4
  <2>2. Written(f) \ {} = Written(f) OBVIOUS
  <2>. QED BY <1>4, <2>1, <2>2
<1>6. /\ Fifo!DropsSmallest(Numbers(files) \cup {adds'}, Numbers(files'))
      /\ gone = {} => Numbers(files') = Numbers(files) \cup {adds'}
      /\ Cardinality(Numbers(files')) = Cardinality(files')
  BY <1>1, <1>4, <1>5, WrittenPuts
<1>7. gone # {} => MaxBatches > 0 /\ Cardinality(Numbers(files')) >= MaxBatches
  <2>1. ~WithinCap => MaxBatches > 0 BY SpoolAssumption DEF WithinCap
  <2>. QED BY <1>5, <1>6, <2>1
<1>8. Numbers(files') \in SUBSET (Numbers(files) \cup {adds'})
  BY <1>6 DEF Fifo!DropsSmallest
<1>. QED BY <1>1, <1>6, <1>7, <1>8, QueueIs, SameCardinality DEF Fifo!Restart

\* Oldest is Take: the batches that do not decode and sort before the one it
\* hands out are discarded.
LEMMA OldestTakes ==
    ASSUME Faults \cap {"remove", "list"} = {}, OnDisk, SpoolInv, AgesTell, Oldest
    PROVE  Fifo!Take
<1>1. /\ held = NoBatch /\ adds' = adds /\ OldestDisk
  BY DEF Oldest, OldestMem
<1>2. PICK bad \in SUBSET files :
      \E first \in IF files \ bad = {} THEN {NoBatch} ELSE files \ bad :
        /\ \A g \in files \ bad : g = first \/ Before(first, g)
        /\ held' = first
        /\ files' = files \ {f \in bad \ {} :
                               files \ bad = {} \/ Before(f, first)}
  BY <1>1 DEF OldestDisk, May
<1>3. PICK gone \in SUBSET bad :
        /\ gone = {f \in bad : files \ bad = {} \/ Before(f, held')}
        /\ files' = files \ gone
        /\ held' \in IF files \ bad = {} THEN {NoBatch} ELSE files \ bad
        /\ \A g \in files \ bad : g = held' \/ Before(held', g)
  BY <1>2
<1>4. Numbers(files') = Numbers(files) \ Numbers(gone)
  <2>1. IsFiniteSet(files) BY DEF SpoolInv, TypeOK
  <2>. QED BY <1>3, <2>1, AgesDiffer, NumbersCount
<1>5. Numbers(gone) \in SUBSET Numbers(files) BY <1>3 DEF Numbers
<1>6. held.age = 0 BY <1>1 DEF NoBatch
<1>7. CASE files \ bad = {}
  <2>1. held'.age = 0 BY <1>3, <1>7 DEF NoBatch
  <2>2. Numbers(files') = {} BY <1>3, <1>7 DEF Numbers
  <2>. QED BY <1>1, <1>4, <1>5, <1>6, <2>1, <2>2, QueueIs DEF Fifo!Take
<1>8. CASE files \ bad # {}
  <2>1. held' \in files \ bad BY <1>3, <1>8
  <2>2. held'.age > 0 /\ held'.age \in Numbers(files)
    BY <2>1 DEF AgesTell, Numbers
  <2>3. ASSUME NEW f \in files
        PROVE  f.age < held'.age <=> f \in gone
    <3>1. f.age < held'.age <=> Before(f, held')
      BY <2>1 DEF SpoolInv, Chronological
    <3>2. f \in files \ bad => ~Before(f, held')
      <4>1. /\ f.nano \in Nat /\ f.seq \in Nat
            /\ held'.nano \in Nat /\ held'.seq \in Nat
        BY <2>1 DEF SpoolInv, TypeOK, Entry
      <4>. QED BY <1>3, <4>1 DEF Before
    <3>. QED BY <1>3, <1>8, <3>1, <3>2
  <2>4. \A n \in Numbers(files) : n < held'.age <=> n \in Numbers(gone)
    BY <1>3, <2>3, AgesDiffer DEF Numbers
  <2>5. held'.age # 0 BY <2>2
  <2>. QED BY <1>1, <1>4, <1>5, <1>6, <2>2, <2>4, <2>5, QueueIs DEF Fifo!Take
<1>. QED BY <1>7, <1>8

\* Remove is Discard, also when a concurrent trim has taken the file.
LEMMA RemoveDiscards ==
    ASSUME "remove" \notin Faults, OnDisk, SpoolInv, AgesTell, Remove
    PROVE  Fifo!Discard
<1>1. /\ held # NoBatch /\ held' = NoBatch /\ adds' = adds
      /\ files' = files \ {f \in files : SameName(f, held)}
  BY DEF Remove, RemoveDisk, RemoveMem
<1>2. \A f \in files : SameName(f, held) <=> f.age = held.age
  BY <1>1 DEF SpoolInv, HeldKeepsName, AgesTell, SameName
<1>3. Numbers(files') = Numbers(files) \ {held.age}
  BY <1>1, <1>2 DEF Numbers
<1>4. held.age # 0 /\ held'.age = 0 BY <1>1 DEF AgesTell, NoBatch
<1>. QED BY <1>1, <1>3, <1>4, QueueIs DEF Fifo!Discard

\* The numbers go on telling the batches apart.
LEMMA AgesTellStep ==
    ASSUME "clock" \notin Faults, OnDisk, SpoolInv, AgesTell, [Next]_vars
    PROVE  AgesTell'
<1>0. /\ \A f \in files : f.age \in Nat /\ f.age > 0 /\ f.age <= adds
      /\ adds \in Nat /\ adds + 1 > 0
  BY DEF SpoolInv, TypeOK, Entry, AgesIssued, AgesTell
<1>1. ASSUME NEW b \in Batches, Add(b) \/ CrashInAdd(b) PROVE AgesTell'
  <2>1. /\ adds' = adds + 1 /\ held' \in {held, NoBatch}
    BY <1>1 DEF Add, CrashInAdd, Died
  <2>2. PICK nano \in Stamps : files' \subseteq Written(NewFile(b, nano))
    BY <1>1 DEF Add, AddDisk, AddMem, CrashInAdd
  <2>3. ASSUME NEW f \in files' PROVE f \in files \/ f.age = adds + 1
    BY <2>2 DEF Written, NewFile
  <2>. QED BY <1>0, <2>1, <2>3 DEF AgesTell
<1>2. CASE Oldest
  <2>1. /\ up /\ held = NoBatch /\ UNCHANGED <<seq, clock, up, adds>>
        /\ OldestDisk
    BY <1>2 DEF Oldest, OldestMem
  <2>2. files' \subseteq files /\ (held' # NoBatch => held' \in files')
    BY <2>1, OldestDiskEffect
  <2>. QED BY <1>0, <2>1, <2>2, AgesDiffer DEF AgesTell
<1>3. CASE Remove
  <2>1. held' = NoBatch /\ files' \subseteq files
    BY <1>3 DEF Remove, RemoveDisk, RemoveMem
  <2>. QED BY <2>1 DEF AgesTell
<1>4. ASSUME NEW b \in Batches, AddFails(b) PROVE AgesTell'
  BY <1>4 DEF AddFails, AgesTell
<1>5. CASE GiveUp BY <1>5 DEF GiveUp, AgesTell
<1>6. CASE Crash BY <1>6 DEF Crash, Died, AgesTell
<1>7. CASE Open BY <1>7 DEF Open, AgesTell
<1>8. CASE UNCHANGED vars BY <1>8 DEF vars, AgesTell
<1>. QED BY <1>1, <1>2, <1>3, <1>4, <1>5, <1>6, <1>7, <1>8 DEF Next

\* Every step of the spool is one of the queue, or leaves it alone.
LEMMA FifoStep ==
    ASSUME Faults \cap {"clock", "remove", "list"} = {}, OnDisk,
           SpoolInv, AgesTell, [Next]_vars
    PROVE  [Fifo!Next]_Fifo!vars
<1>0. ASSUME UNCHANGED <<files, held, adds>> PROVE UNCHANGED Fifo!vars
  BY <1>0, QueueIs DEF Fifo!vars
<1>1. ASSUME NEW b \in Batches, Add(b) PROVE Fifo!Next
  BY <1>1, AddPuts DEF Fifo!Next
<1>2. ASSUME NEW b \in Batches, CrashInAdd(b) PROVE Fifo!Next
  BY <1>2, CrashInAddRestarts DEF Fifo!Next
<1>3. CASE Oldest BY <1>3, OldestTakes DEF Fifo!Next
<1>4. CASE Remove BY <1>4, RemoveDiscards DEF Fifo!Next
<1>5. CASE GiveUp
  <2>1. /\ held # NoBatch /\ held' = NoBatch /\ UNCHANGED <<files, adds>>
    BY <1>5 DEF GiveUp
  <2>2. held.age # 0 /\ held'.age = 0 BY <2>1 DEF AgesTell, NoBatch
  <2>3. Fifo!Return BY <2>1, <2>2, QueueIs DEF Fifo!Return
  <2>. QED BY <2>3 DEF Fifo!Next
<1>6. CASE Crash
  <2>1. held' = NoBatch /\ UNCHANGED <<files, adds>>
    BY <1>6 DEF Crash, Died
  <2>2. held'.age = 0 BY <2>1 DEF NoBatch
  <2>3. Fifo!Restart BY <2>1, <2>2, QueueIs DEF Fifo!Restart
  <2>. QED BY <2>3 DEF Fifo!Next
<1>7. CASE Open BY <1>0, <1>7 DEF Open
<1>8. ASSUME NEW b \in Batches, AddFails(b) PROVE UNCHANGED Fifo!vars
  BY <1>0, <1>8 DEF AddFails
<1>9. CASE UNCHANGED vars BY <1>0, <1>9 DEF vars
<1>. QED BY <1>1, <1>2, <1>3, <1>4, <1>5, <1>6, <1>7, <1>8, <1>9 DEF Next

\* The queue that a sequence in memory stands for.
InMemory(m) == {m[i].age : i \in 1..Len(m)}

\* Without a directory it is the one the refinement mapping names.
LEMMA MemoryQueueIs ==
    ASSUME ~OnDisk
    PROVE  /\ {e.age : e \in Stored} = InMemory(mem)
           /\ {e.age : e \in Stored'} = InMemory(mem')
BY DEF Stored, InMemory

\* In memory and without a cap every step of the spool is one of the queue, or
\* leaves it alone.
LEMMA MemoryFifoStep ==
    ASSUME ~OnDisk, MaxBatches <= 0, SpoolInv, HeldAtHead, [Next]_vars
    PROVE  [Fifo!Next]_Fifo!vars
<1>0. /\ mem \in Seq(Entry) /\ Len(mem) \in Nat /\ adds \in Nat
      /\ \A i \in 1..Len(mem) : mem[i].age \in 1..adds
      /\ \A i, j \in 1..Len(mem) : i < j <=> mem[i].age < mem[j].age
  <2>1. mem \in Seq(Entry) /\ Len(mem) \in Nat /\ adds \in Nat
    BY DEF SpoolInv, TypeOK
  <2>2. \A i \in 1..Len(mem) : mem[i] \in Entry BY <2>1, ElementOfSeq
  <2>3. \A i \in 1..Len(mem) : /\ mem[i].age \in Nat /\ mem[i].age <= adds
                               /\ mem[i].age > 0
    BY <2>2 DEF Entry, SpoolInv, AgesIssued, HeldAtHead
  <2>. QED BY <2>1, <2>3 DEF SpoolInv, Chronological, InAgeOrder
<1>00. ASSUME held # NoBatch
       PROVE  /\ held.age \in 1..adds /\ held.age # 0 /\ mem # <<>>
              /\ mem[1] = held
  <2>1. held.age \in 1..adds /\ mem # <<>> /\ mem[1] = held
    BY <1>00 DEF HeldAtHead
  <2>. QED BY <2>1
<1>1. ASSUME UNCHANGED <<mem, held, adds>> PROVE UNCHANGED Fifo!vars
  BY <1>1, MemoryQueueIs DEF Fifo!vars
<1>2. ASSUME NEW b \in Batches, Add(b) PROVE Fifo!Put
  <2>1. AddMem(b) /\ adds' = adds + 1 /\ held' = held
    BY <1>2 DEF Add, AddDisk
  <2>2. PICK k \in 0..Len(mem) + 1 :
          /\ MaxBatches <= 0 => k = 0
          /\ Len(mem') = Len(mem) + 1 - k
          /\ \A i \in 1..Len(mem') :
               \/ i + k \in 1..Len(mem) /\ mem'[i] = mem[i + k]
               \/ i + k = Len(mem) + 1 /\ mem'[i].age = adds + 1
    BY <2>1, AddMemShifts DEF SpoolInv
  <2>3. /\ Len(mem') = Len(mem) + 1
        /\ \A i \in 1..Len(mem) : mem'[i] = mem[i]
        /\ mem'[Len(mem) + 1].age = adds + 1
    <3>1. k = 0 BY <2>2
    <3>2. Len(mem') = Len(mem) + 1 BY <1>0, <2>2, <3>1
    <3>3. \A i \in 1..Len(mem') : i + k = i BY <3>1
    <3>4. \A i \in 1..Len(mem) : i \in 1..Len(mem') /\ i # Len(mem) + 1
      BY <1>0, <3>2
    <3>5. Len(mem) + 1 \in 1..Len(mem') /\ Len(mem) + 1 \notin 1..Len(mem)
      BY <1>0, <3>2
    <3>. QED BY <2>2, <3>2, <3>3, <3>4, <3>5
  <2>4. InMemory(mem') = InMemory(mem) \cup {adds + 1}
    <3>1. \A i \in 1..Len(mem') : i \in 1..Len(mem) \/ i = Len(mem) + 1
      BY <1>0, <2>3
    <3>2. \A i \in 1..Len(mem) : i \in 1..Len(mem') BY <1>0, <2>3
    <3>3. Len(mem) + 1 \in 1..Len(mem') BY <1>0, <2>3
    <3>. QED BY <2>3, <3>1, <3>2, <3>3 DEF InMemory
  <2>5. ~(MaxBatches > 0) BY SpoolAssumption
  <2>6. Fifo!DropsSmallest(InMemory(mem) \cup {adds'}, InMemory(mem'))
    BY <2>1, <2>4 DEF Fifo!DropsSmallest
  <2>7. InMemory(mem') \in SUBSET (InMemory(mem) \cup {adds'})
    BY <2>6 DEF Fifo!DropsSmallest
  <2>8. UNCHANGED held.age BY <2>1
  <2>. QED BY <2>1, <2>4, <2>5, <2>6, <2>7, <2>8, MemoryQueueIs DEF Fifo!Put
<1>3. CASE Oldest
  <2>1. /\ held = NoBatch /\ mem' = mem /\ adds' = adds
        /\ held' = IF mem = <<>> THEN NoBatch ELSE Head(mem)
    BY <1>3 DEF Oldest, OldestDisk, OldestMem
  <2>2. held.age = 0 BY <2>1 DEF NoBatch
  <2>3. CASE mem = <<>>
    <3>1. held'.age = 0 BY <2>1, <2>3 DEF NoBatch
    <3>2. InMemory(mem) = {} BY <2>3, EmptySeq DEF InMemory
    <3>3. Fifo!Take
      BY <2>1, <2>2, <3>1, <3>2, MemoryQueueIs DEF Fifo!Take
    <3>. QED BY <3>3 DEF Fifo!Next
  <2>4. CASE mem # <<>>
    <3>1. Len(mem) >= 1 BY <1>0, <2>4, EmptySeq
    <3>2. 1 \in 1..Len(mem) BY <1>0, <3>1
    <3>3. held' = mem[1] BY <1>0, <2>1, <2>4, HeadTailProperties
    <3>4. held'.age \in InMemory(mem) /\ held'.age # 0
      BY <1>0, <3>2, <3>3 DEF InMemory
    <3>5. \A n \in InMemory(mem) : ~(n < held'.age)
      BY <1>0, <3>2, <3>3 DEF InMemory
    <3>6. Fifo!Take
      <4>1. {} \in SUBSET InMemory(mem) /\ InMemory(mem) = InMemory(mem) \ {}
        OBVIOUS
      <4>. QED BY <2>1, <2>2, <3>4, <3>5, <4>1, MemoryQueueIs DEF Fifo!Take
    <3>. QED BY <3>6 DEF Fifo!Next
  <2>. QED BY <2>3, <2>4
<1>4. CASE Remove
  <2>1. held # NoBatch /\ held' = NoBatch /\ adds' = adds /\ RemoveMem
    BY <1>4 DEF Remove, RemoveDisk
  <2>2. mem # <<>> /\ mem' = Tail(mem) BY <1>00, <2>1 DEF RemoveMem
  <2>3. /\ Len(mem') = Len(mem) - 1
        /\ \A i \in 1..Len(mem') : mem'[i] = mem[i + 1] /\ i + 1 \in 1..Len(mem)
    BY <1>0, <2>2, TailInOrder DEF SpoolInv, Chronological
  <2>4. Len(mem) >= 1 BY <1>0, <2>2, EmptySeq
  <2>5. 1 \in 1..Len(mem) BY <1>0, <2>4
  <2>6. ASSUME NEW i \in 1..Len(mem), i # 1
        PROVE  i - 1 \in 1..Len(mem') /\ mem'[i - 1] = mem[i]
    <3>1. i - 1 \in 1..Len(mem') /\ (i - 1) + 1 = i BY <1>0, <2>3, <2>6
    <3>. QED BY <2>3, <3>1
  <2>7. \A i \in 1..Len(mem) : mem[i].age = mem[1].age <=> i = 1
    BY <1>0, <2>5
  <2>8. \A i \in 1..Len(mem') : i + 1 # 1 BY <1>0, <2>3
  <2>9. InMemory(mem') = InMemory(mem) \ {mem[1].age}
    BY <2>3, <2>6, <2>7, <2>8 DEF InMemory
  <2>10. held.age = mem[1].age /\ held.age # 0 /\ held'.age = 0
    BY <1>00, <2>1 DEF NoBatch
  <2>11. Fifo!Discard
    BY <2>1, <2>9, <2>10, MemoryQueueIs DEF Fifo!Discard
  <2>. QED BY <2>11 DEF Fifo!Next
<1>5. CASE GiveUp
  <2>1. /\ held # NoBatch /\ held' = NoBatch /\ UNCHANGED <<mem, adds>>
    BY <1>5 DEF GiveUp
  <2>2. held.age # 0 /\ held'.age = 0 BY <1>00, <2>1 DEF NoBatch
  <2>3. Fifo!Return BY <2>1, <2>2, MemoryQueueIs DEF Fifo!Return
  <2>. QED BY <2>3 DEF Fifo!Next
<1>6. CASE Crash
  <2>1. held' = NoBatch /\ mem' = <<>> /\ adds' = adds
    BY <1>6 DEF Crash, Died
  <2>2. held'.age = 0 BY <2>1 DEF NoBatch
  <2>3. InMemory(mem') = {} BY <2>1, EmptySeq DEF InMemory
  <2>4. Fifo!Restart BY <2>1, <2>2, <2>3, MemoryQueueIs DEF Fifo!Restart
  <2>. QED BY <2>4 DEF Fifo!Next
<1>7. CASE Open BY <1>1, <1>7 DEF Open
<1>8. ASSUME NEW b \in Batches PROVE ~AddFails(b) /\ ~CrashInAdd(b)
  BY DEF AddFails, CrashInAdd
<1>9. CASE UNCHANGED vars BY <1>1, <1>9 DEF vars
<1>. QED BY <1>2, <1>3, <1>4, <1>5, <1>6, <1>7, <1>8, <1>9
         DEF Next, Fifo!Next

\* Callers may take the spool for a bounded queue: on disk, when what must be
\* deleted can be and the clock is not set back, with failing writes, files
\* that do not decode, and processes that die anywhere; and in memory, when
\* there is no cap.
THEOREM SpoolIsFifo ==
    ASSUME IF OnDisk THEN Faults \cap {"clock", "remove", "list"} = {}
                     ELSE MaxBatches <= 0
    PROVE  Spec => ImplementsFifo
<1>0. OnDisk => "clock" \notin Faults OBVIOUS
<1>1. Init => AgesTell /\ Fifo!Init
  <2>1. ASSUME Init PROVE AgesTell BY <2>1 DEF Init, AgesTell
  <2>2. ASSUME Init PROVE Fifo!Init
    <3>1. {e.age : e \in Stored} = {}
      BY <2>2, EmptySeq DEF Init, Stored
    <3>. QED BY <2>2, <3>1 DEF Init, Fifo!Init, NoBatch
  <2>. QED BY <2>1, <2>2
<1>2. SpoolInv /\ (OnDisk => AgesTell) /\ [Next]_vars => (OnDisk => AgesTell)'
  BY <1>0, AgesTellStep
<1>3. SpoolInv /\ HeldAtHead /\ (OnDisk => AgesTell) /\ [Next]_vars
        => [Fifo!Next]_Fifo!vars
  BY FifoStep, MemoryFifoStep
<1>. QED BY <1>0, <1>1, <1>2, <1>3, HeldInvariant, PTL
         DEF Spec, ImplementsFifo, Fifo!Spec

(***************************************************************************)
(* Every call can end: the scans of the directory have a result            *)
(***************************************************************************)

\* A family of subsets of a finite set has a smallest one.
LEMMA SmallestSet ==
    ASSUME NEW S, IsFiniteSet(S), NEW T, T \subseteq SUBSET S, T # {}
    PROVE  \E X \in T : \A Y \in T : Y \subseteq X => Y = X
<1>1. T \subseteq FiniteSubsetsOf(S) BY FS_FiniteSubsetsOfFinite, Zenon
<1>2. IsWellFoundedOn(StrictSubsetOrdering(S), FiniteSubsetsOf(S))
  BY FS_StrictSubsetOrderingWellFounded, Zenon
<1>3. PICK X \in T : \A Y \in T : ~(<<Y, X>> \in StrictSubsetOrdering(S))
  BY <1>1, <1>2, WFMin, Zenon
<1>. QED BY <1>3 DEF StrictSubsetOrdering

\* No two files of the set have the same name.
NamesDiffer(fs) == \A f, g \in fs : SameName(f, g) => f = g

\* The order of the names is total on such a set.
LEMMA BeforeTotal ==
    ASSUME NEW fs, fs \subseteq Entry, NamesDiffer(fs)
    PROVE  /\ \A f, g \in fs : f = g \/ Before(f, g) \/ Before(g, f)
           /\ \A f \in fs : ~Before(f, f)
           /\ \A f, g, h \in fs : Before(f, g) /\ Before(g, h) => Before(f, h)
<1>1. \A f \in fs : f.nano \in Nat /\ f.seq \in Nat BY DEF Entry
<1>2. \A f, g \in fs : f = g \/ Before(f, g) \/ Before(g, f)
  BY <1>1 DEF NamesDiffer, SameName, Before
<1>. QED BY <1>1, <1>2 DEF Before

\* And has a first one: Oldest finds it, whatever the names are.
LEMMA FirstExists ==
    ASSUME NEW fs, fs \subseteq Entry, IsFiniteSet(fs), NamesDiffer(fs),
           NEW E, E \subseteq fs, E # {}
    PROVE  \E f \in E : \A g \in E : g = f \/ Before(f, g)
<1>. DEFINE Earlier(f) == {g \in E : Before(g, f)}
            T == {Earlier(f) : f \in E}
<1>1. IsFiniteSet(E) BY FS_Subset
<1>2. T \subseteq SUBSET E /\ T # {} OBVIOUS
<1>3. PICK X \in T : \A Y \in T : Y \subseteq X => Y = X
  <2>. HIDE DEF T
  <2>. QED BY <1>1, <1>2, SmallestSet
<1>4. PICK f \in E : X = Earlier(f) BY <1>3
<1>5. ASSUME NEW g \in E, Before(g, f) PROVE FALSE
  <2>1. Earlier(g) \subseteq Earlier(f) BY <1>5, BeforeTotal
  <2>2. g \in Earlier(f) /\ g \notin Earlier(g) BY <1>5, BeforeTotal
  <2>. QED BY <1>3, <1>4, <2>1, <2>2
<1>. QED BY <1>5, BeforeTotal

\* trimLocked comes to its end: whichever files it cannot delete, there is a
\* set of first names to delete after which the directory is within the cap, or
\* after which nothing is left that can be deleted.
LEMMA TrimEnds ==
    ASSUME NEW fs, fs \subseteq Entry, IsFiniteSet(fs), NamesDiffer(fs),
           NEW stuck \in SUBSET fs
    PROVE  \E gone \in SUBSET fs : Trimmed(fs, stuck, gone)
<1>1. CASE WithinCap BY <1>1 DEF Trimmed
<1>2. CASE ~WithinCap /\ Cardinality(fs) <= MaxBatches
  <2>1. fs \ {} = fs OBVIOUS
  <2>2. OldestOf(fs \ stuck, {}) BY DEF OldestOf
  <2>3. Trimmed(fs, stuck, {}) BY <1>2, <2>1, <2>2 DEF Trimmed
  <2>. QED BY <2>3
<1>3. CASE ~WithinCap /\ ~(Cardinality(fs) <= MaxBatches)
  <2>. DEFINE Left(rest) ==
                /\ OldestOf(fs \ stuck, fs \ rest)
                /\ Cardinality(rest) >= MaxBatches
              T == {rest \in SUBSET fs : Left(rest)}
  <2>1. fs \in T
    <3>1. fs \ fs = {} OBVIOUS
    <3>2. Cardinality(fs) >= MaxBatches
      BY <1>3, FS_CardinalityType, SpoolAssumption
    <3>. QED BY <3>1, <3>2 DEF OldestOf
  <2>2. PICK rest \in T : \A Y \in T : Y \subseteq rest => Y = rest
    <3>1. T \subseteq SUBSET fs /\ T # {} BY <2>1
    <3>. HIDE DEF T
    <3>. QED BY <3>1, SmallestSet
  <2>3. rest \in SUBSET fs /\ Left(rest) BY <2>2
  <2>4. PICK gone : gone = fs \ rest OBVIOUS
  <2>5. fs \ gone = rest BY <2>3, <2>4
  <2>6. gone = fs \ stuck \/ Cardinality(rest) <= MaxBatches
    <3>. SUFFICES ASSUME gone # fs \ stuck, ~(Cardinality(rest) <= MaxBatches)
         PROVE  FALSE
      OBVIOUS
    <3>. DEFINE E == (fs \ stuck) \ gone
    <3>1. gone \subseteq fs \ stuck BY <2>3, <2>4 DEF OldestOf
    <3>2. E # {} /\ E \subseteq fs BY <3>1
    <3>3. PICK f \in E : \A g \in E : g = f \/ Before(f, g)
      <4>. HIDE DEF E
      <4>. QED BY <3>2, FirstExists
    <3>4. IsFiniteSet(rest) /\ f \in rest BY <2>3, <2>4, <3>3, FS_Subset
    <3>5. Cardinality(rest \ {f}) = Cardinality(rest) - 1
      BY <3>4, FS_RemoveElement
    <3>6. Cardinality(rest) \in Nat BY <3>4, FS_CardinalityType
    <3>7. Cardinality(rest \ {f}) >= MaxBatches
      BY <3>5, <3>6, SpoolAssumption
    <3>8. OldestOf(fs \ stuck, gone \cup {f})
      <4>1. \A a \in gone, b \in E : Before(a, b) BY <2>3, <2>4 DEF OldestOf
      <4>2. gone \cup {f} \subseteq fs \ stuck BY <3>1, <3>3
      <4>3. ASSUME NEW a \in gone \cup {f},
                   NEW b \in (fs \ stuck) \ (gone \cup {f})
            PROVE  Before(a, b)
        <5>1. b \in E /\ b # f OBVIOUS
        <5>2. CASE a = f BY <3>3, <5>1, <5>2
        <5>3. CASE a \in gone BY <4>1, <5>1, <5>3
        <5>. QED BY <5>2, <5>3
      <4>. QED BY <4>2, <4>3 DEF OldestOf
    <3>9. fs \ (rest \ {f}) = gone \cup {f} BY <2>3, <2>4, <3>4
    <3>10. rest \ {f} \in T BY <2>3, <3>7, <3>8, <3>9
    <3>. QED BY <2>2, <3>4, <3>10
  <2>7. OldestOf(fs \ stuck, gone) /\ Cardinality(rest) >= MaxBatches
    BY <2>3, <2>4
  <2>8. Trimmed(fs, stuck, gone)
    <3>1. /\ gone = {} \/ Cardinality(fs \ gone) >= MaxBatches
          /\ gone = fs \ stuck \/ Cardinality(fs \ gone) <= MaxBatches
      BY <2>5, <2>6, <2>7, Zenon
    <3>. QED BY <1>3, <2>4, <2>7, <3>1, Zenon DEF Trimmed
  <2>. QED BY <2>4, <2>8
<1>. QED BY <1>1, <1>2, <1>3

\* A file that is written replaces one of its name.
LEMMA WrittenDiffer ==
    ASSUME NamesDiffer(files), NEW f, NEW gone
    PROVE  NamesDiffer(Written(f)) /\ NamesDiffer(Written(f) \ gone)
BY DEF NamesDiffer, Written, SameName

\* What the calls need to come to an end: a reading of the clock to name a file
\* by, a set of files for trimLocked to delete, a first file for Oldest.
CallsEnd ==
    /\ Stamps # {}
    /\ \A b \in Batches, nano \in Stamps :
          LET fs == Written(NewFile(b, nano))
          IN  \A stuck \in May("remove", fs) :
                 \E gone \in SUBSET fs : Trimmed(fs, stuck, gone)
    /\ \A bad \in May("read", files) :
          files \ bad # {} =>
             \E first \in files \ bad :
                \A g \in files \ bad : g = first \/ Before(first, g)

\* Inductive, with the type: names differ, and the clock has not run out.
EndsInv == TypeOK /\ NamesDiffer(files) /\ clock \in 1..MaxNano

\* Then every scan has a result.
LEMMA EndsInvEnough == EndsInv => CallsEnd
<1>. SUFFICES ASSUME EndsInv PROVE CallsEnd
  OBVIOUS
<1>1. /\ TypeOK /\ NamesDiffer(files) /\ clock \in 1..MaxNano
      /\ files \subseteq Entry /\ IsFiniteSet(files)
  BY DEF EndsInv, TypeOK
<1>2. clock \in Stamps BY <1>1, SpoolAssumption DEF Stamps
<1>3. ASSUME NEW b \in Batches, NEW nano \in Stamps, NEW fs,
             fs = Written(NewFile(b, nano)), NEW stuck \in May("remove", fs)
      PROVE  \E gone \in SUBSET fs : Trimmed(fs, stuck, gone)
  <2>1. NewFile(b, nano) \in Entry
    <3>1. nano \in Nat BY <1>1, StampsNat
    <3>. QED BY <1>1, <3>1 DEF NewFile, Entry, TypeOK
  <2>2. fs \ {} = fs OBVIOUS
  <2>3. fs \subseteq Entry /\ IsFiniteSet(fs)
    BY <1>1, <1>3, <2>1, <2>2, WrittenFinite
  <2>4. NamesDiffer(fs) BY <1>1, <1>3, WrittenDiffer
  <2>5. stuck \in SUBSET fs BY DEF May
  <2>. QED BY <2>3, <2>4, <2>5, TrimEnds
<1>4. ASSUME NEW bad, files \ bad # {}
      PROVE  \E first \in files \ bad :
                \A g \in files \ bad : g = first \/ Before(first, g)
  <2>1. files \ bad \subseteq files OBVIOUS
  <2>. QED BY <1>1, <1>4, <2>1, FirstExists
<1>. QED BY <1>2, <1>3, <1>4 DEF CallsEnd

\* Every step keeps it, however the clock is set.
LEMMA EndsStep == EndsInv /\ [Next]_vars => EndsInv'
<1>. SUFFICES ASSUME EndsInv, [Next]_vars PROVE EndsInv'
  OBVIOUS
<1>0. TypeOK /\ TypeOK' /\ NamesDiffer(files) /\ clock \in 1..MaxNano
  BY TypeStep DEF EndsInv
<1>1. Stamps \subseteq 1..MaxNano BY <1>0, SpoolAssumption DEF Stamps
<1>2. clock' \in 1..MaxNano
  <2>1. clock' = clock \/ clock' \in Stamps \/ Open
    BY DEF Next, vars, Add, AddDisk, AddMem, AddFails, CrashInAdd, Oldest,
           Remove, GiveUp, Crash
  <2>2. Open => clock' \in 1..MaxNano
    BY <1>0, SpoolAssumption DEF Open
  <2>. QED BY <1>0, <1>1, <2>1, <2>2
<1>3. NamesDiffer(files')
  <2>1. ASSUME files' \subseteq files PROVE NamesDiffer(files')
    BY <1>0, <2>1 DEF NamesDiffer
  <2>2. ASSUME NEW b \in Batches, Add(b) \/ CrashInAdd(b)
        PROVE  \/ files' = files
               \/ \E f, gone : files' = Written(f) \ gone
    BY <2>2 DEF Add, AddDisk, AddMem, CrashInAdd
  <2>3. \/ files' \subseteq files
        \/ \E b \in Batches : Add(b) \/ CrashInAdd(b)
    BY DEF Next, vars, AddFails, Oldest, OldestDisk, OldestMem, Remove,
           RemoveDisk, RemoveMem, GiveUp, Crash, Open
  <2>. QED BY <1>0, <2>1, <2>2, <2>3, WrittenDiffer
<1>. QED BY <1>0, <1>2, <1>3 DEF EndsInv

\* And it holds from the start.
LEMMA EndsInvariant == ASSUME MaxNano >= 1 PROVE Spec => []EndsInv
<1>1. Init => EndsInv
  <2>. SUFFICES ASSUME Init PROVE EndsInv
    OBVIOUS
  <2>1. TypeOK BY SpoolAssumption, FS_EmptySet DEF Init, TypeOK
  <2>. QED BY <2>1, SpoolAssumption DEF Init, EndsInv, NamesDiffer
<1>. QED BY <1>1, EndsStep, PTL DEF Spec

\* Add and Oldest have a result in every state the spool can be in, whichever
\* files cannot be read or deleted and however the clock was set: their scans
\* of the directory end, and no two files compete for the same place in them.
THEOREM CallsAlwaysEnd == ASSUME MaxNano >= 1 PROVE Spec => []CallsEnd
BY EndsInvEnough, EndsInvariant, PTL
=============================================================================
