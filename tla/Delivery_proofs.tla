--------------------------- MODULE Delivery_proofs ---------------------------
(***************************************************************************)
(* Proofs about the delivery path, for any number of check loops, results  *)
(* and processes, any channel and batch size, and any cap of the spool.    *)
(***************************************************************************)
EXTENDS Delivery, FiniteSetTheorems, SequenceTheorems, TLAPS

\* The theorems about the spool this module calls.
SP == INSTANCE Spool_proofs

(***************************************************************************)
(* The spool of this module is the one the spool's theorems are about      *)
(***************************************************************************)

\* The spool's assumptions hold of the constants it is given here.
LEMMA SpoolConstants ==
    /\ OnDisk \in BOOLEAN
    /\ MaxBatches \in Int
    /\ <<>> \notin Batches
    /\ Faults \subseteq SP!FaultKinds
    /\ MaxAdds \in Nat
    /\ MaxNano \in Nat
BY DeliveryAssumption DEF Batches, SP!FaultKinds

\* This module's copy of the spool and the one its theorems are stated in agree,
\* definition by definition.
LEMMA SameType == S!TypeOK <=> SP!TypeOK
BY Zenon DEF S!TypeOK, SP!TypeOK, S!Entry, SP!Entry, S!NoBatch, SP!NoBatch,
             S!IsFiniteSet, SP!IsFiniteSet

LEMMA SameInv == S!SpoolInv <=> SP!SpoolInv
BY SameType, Zenon
   DEF S!SpoolInv, SP!SpoolInv, S!NamesIssued, SP!NamesIssued,
       S!AgesIssued, SP!AgesIssued, S!HeldKeepsName, SP!HeldKeepsName,
       S!NothingInMemoryWhenDown, SP!NothingInMemoryWhenDown,
       S!NoFilesInMemory, SP!NoFilesInMemory,
       S!Chronological, SP!Chronological, S!CountMatches, SP!CountMatches,
       S!Issued, SP!Issued, S!NoBatch, SP!NoBatch, S!SameName, SP!SameName,
       S!Before, SP!Before, S!InAgeOrder, SP!InAgeOrder,
       S!Cardinality, SP!Cardinality

LEMMA SameInit == S!Init <=> SP!Init
BY Zenon DEF S!Init, SP!Init, S!NoBatch, SP!NoBatch

LEMMA SameNext == [S!Next]_S!vars <=> [SP!Next]_SP!vars
BY Zenon
   DEF S!Next, SP!Next, S!vars, SP!vars, S!Add, SP!Add, S!AddDisk, SP!AddDisk,
       S!AddMem, SP!AddMem, S!AddFails, SP!AddFails,
       S!CrashInAdd, SP!CrashInAdd, S!Oldest, SP!Oldest,
       S!OldestDisk, SP!OldestDisk, S!OldestMem, SP!OldestMem,
       S!Remove, SP!Remove, S!RemoveDisk, SP!RemoveDisk,
       S!RemoveMem, SP!RemoveMem, S!GiveUp, SP!GiveUp, S!Crash, SP!Crash,
       S!Died, SP!Died, S!Open, SP!Open, S!Found, SP!Found,
       S!Stamps, SP!Stamps, S!Written, SP!Written, S!NewFile, SP!NewFile,
       S!May, SP!May, S!Trimmed, SP!Trimmed, S!WithinCap, SP!WithinCap,
       S!OldestOf, SP!OldestOf, S!Before, SP!Before, S!SameName, SP!SameName,
       S!Kept, SP!Kept, S!Excess, SP!Excess, S!NoBatch, SP!NoBatch,
       S!Cardinality, SP!Cardinality

\* What is proved of one step of the spool, and of its behaviours, holds here.
LEMMA SpoolTypeStep == S!TypeOK /\ [S!Next]_S!vars => S!TypeOK'
<1>1. SP!TypeOK /\ [SP!Next]_SP!vars => SP!TypeOK'
  BY SpoolConstants, SP!TypeStep
<1>2. S!TypeOK' <=> SP!TypeOK'
  BY Zenon DEF S!TypeOK, SP!TypeOK, S!Entry, SP!Entry, S!NoBatch, SP!NoBatch,
               S!IsFiniteSet, SP!IsFiniteSet
<1>. QED BY <1>1, <1>2, SameType, SameNext, Zenon

LEMMA SpoolInvariantHolds ==
    ASSUME OnDisk => "clock" \notin Faults
    PROVE  S!Spec => []S!SpoolInv
<1>1. SP!Spec => []SP!SpoolInv BY SpoolConstants, SP!SpoolInvariant
<1>. QED BY <1>1, SameInv, SameInit, SameNext, PTL DEF S!Spec, SP!Spec

\* In memory and without a cap the held batch stays at the head.
HeadHeld ==
    ~OnDisk /\ MaxBatches <= 0 /\ held # S!NoBatch => mem[1] = held

LEMMA HeadAlwaysHeld ==
    ASSUME OnDisk => "clock" \notin Faults
    PROVE  S!Spec => []HeadHeld
<1>1. SP!Spec => [](SP!SpoolInv /\ SP!HeldAtHead)
  BY SpoolConstants, SP!HeldInvariant
<1>2. SP!HeldAtHead => HeadHeld
  BY DEF SP!HeldAtHead, HeadHeld, SP!NoBatch, S!NoBatch
<1>. QED BY <1>1, <1>2, SameInit, SameNext, PTL DEF S!Spec, SP!Spec

(***************************************************************************)
(* The results of a list                                                   *)
(***************************************************************************)

\* Lists of none, of one, of results of a type.
LEMMA InEmpty == In(<<>>) = {}
BY DEF In

LEMMA InOne == \A x : In(<<x>>) = {x}
BY DEF In

LEMMA InTyped == \A T : \A s \in Seq(T) : In(s) \subseteq T
BY ElementOfSeq DEF In

\* What is appended is added, and what is taken from the head is all that leaves.
LEMMA InAppend ==
    ASSUME NEW T, NEW s \in Seq(T), NEW x \in T
    PROVE  In(Append(s, x)) = In(s) \cup {x}
<1>1. /\ Len(s) \in Nat /\ Len(Append(s, x)) = Len(s) + 1
      /\ \A i \in 1..Len(s) : Append(s, x)[i] = s[i]
      /\ Append(s, x)[Len(s) + 1] = x
  BY AppendProperties, LenProperties
<1>2. In(Append(s, x)) \subseteq In(s) \cup {x}
  <2>1. \A i \in 1..Len(s) + 1 : i \in 1..Len(s) \/ i = Len(s) + 1 BY <1>1
  <2>. QED BY <1>1, <2>1 DEF In
<1>3. In(s) \cup {x} \subseteq In(Append(s, x))
  <2>1. 1..Len(s) \subseteq 1..Len(s) + 1 /\ Len(s) + 1 \in 1..Len(s) + 1
    BY <1>1
  <2>. QED BY <1>1, <2>1 DEF In
<1>. QED BY <1>2, <1>3

LEMMA InHeadTail ==
    ASSUME NEW T, NEW s \in Seq(T), s # <<>>
    PROVE  /\ Head(s) \in In(s) /\ Tail(s) \in Seq(T)
           /\ In(s) = {Head(s)} \cup In(Tail(s))
<1>1. /\ Tail(s) \in Seq(T) /\ Len(Tail(s)) = Len(s) - 1
      /\ \A i \in 1..Len(Tail(s)) : Tail(s)[i] = s[i + 1]
      /\ Len(s) \in Nat /\ Len(s) >= 1
  BY HeadTailProperties, EmptySeq
<1>2. Head(s) = s[1] OBVIOUS
<1>3. In(s) \subseteq {Head(s)} \cup In(Tail(s))
  <2>1. \A i \in 1..Len(s) : i = 1 \/ (i - 1 \in 1..Len(Tail(s)) /\ (i - 1) + 1 = i)
    BY <1>1
  <2>2. \A i \in 1..Len(s) : i = 1 \/ \E j \in 1..Len(Tail(s)) : s[i] = Tail(s)[j]
    BY <1>1, <2>1
  <2>. QED BY <1>2, <2>2 DEF In
<1>4. \A i \in 1..Len(Tail(s)) : i + 1 \in 1..Len(s) BY <1>1
<1>5. 1 \in 1..Len(s) BY <1>1
<1>6. In(Tail(s)) \subseteq In(s) BY <1>1, <1>4 DEF In
<1>7. Head(s) \in In(s) BY <1>2, <1>5 DEF In
<1>. QED BY <1>1, <1>3, <1>6, <1>7

\* No result is in the list twice.
Distinct(s) == \A i, j \in 1..Len(s) : s[i] = s[j] => i = j

\* A list without repetitions stays one.
LEMMA DistinctAppend ==
    ASSUME NEW T, NEW s \in Seq(T), NEW x \in T, Distinct(s), x \notin In(s)
    PROVE  Distinct(Append(s, x))
<1>1. /\ Len(s) \in Nat /\ Len(Append(s, x)) = Len(s) + 1
      /\ \A i \in 1..Len(s) : Append(s, x)[i] = s[i]
      /\ Append(s, x)[Len(s) + 1] = x
  BY AppendProperties, LenProperties
<1>2. \A i \in 1..Len(s) + 1 : i \in 1..Len(s) \/ i = Len(s) + 1 BY <1>1
<1>3. \A i \in 1..Len(s) : s[i] # x BY DEF In
<1>. QED BY <1>1, <1>2, <1>3 DEF Distinct

LEMMA DistinctTail ==
    ASSUME NEW T, NEW s \in Seq(T), s # <<>>, Distinct(s)
    PROVE  Distinct(Tail(s)) /\ Head(s) \notin In(Tail(s))
<1>1. /\ Len(Tail(s)) = Len(s) - 1
      /\ \A i \in 1..Len(Tail(s)) : Tail(s)[i] = s[i + 1]
      /\ Len(s) \in Nat /\ Len(s) >= 1
  BY HeadTailProperties, EmptySeq
<1>2. \A i \in 1..Len(Tail(s)) : i + 1 \in 1..Len(s) /\ i + 1 # 1 BY <1>1
<1>3. Head(s) = s[1] /\ 1 \in 1..Len(s) BY <1>1
<1>4. Distinct(Tail(s))
  <2>. SUFFICES ASSUME NEW i \in 1..Len(Tail(s)), NEW j \in 1..Len(Tail(s)),
                       Tail(s)[i] = Tail(s)[j]
       PROVE  i = j
    BY DEF Distinct
  <2>1. i + 1 = j + 1 BY <1>1, <1>2 DEF Distinct
  <2>. QED BY <1>1, <2>1
<1>. QED BY <1>1, <1>2, <1>3, <1>4 DEF Distinct, In

\* The results of fewer batches, and of one more.
LEMMA WithinFewer == \A E, F : E \subseteq F => Within(E) \subseteq Within(F)
BY DEF Within

LEMMA WithinOne == \A E, e : Within(E \cup {e}) = Within(E) \cup In(e.results)
BY DEF Within

(***************************************************************************)
(* What a call of the spool does to the batches in it                      *)
(***************************************************************************)

\* The batches in the spool and the one the replay has taken, which a trim may
\* have removed since.
Spooled == S!Stored \cup {held}

\* Every batch in the spool, and the one taken from it, is a list of results.
LEMMA SpooledTyped ==
    ASSUME S!TypeOK
    PROVE  /\ S!Stored \subseteq S!Entry
           /\ Within(Spooled) = Within(S!Stored) \cup In(held.results)
           /\ \A e \in Spooled : e.results \in Seq(Results)
           /\ Within(S!Stored) \cup Within(Spooled) \subseteq Results
<1>1. S!Stored \subseteq S!Entry
  <2>1. \A i \in 1..Len(mem) : mem[i] \in S!Entry
    BY ElementOfSeq DEF S!TypeOK
  <2>. QED BY <2>1 DEF S!TypeOK, S!Stored
<1>2. \A e \in S!Entry : e.results \in Seq(Results) BY DEF S!Entry, Batches
<1>3. held.results \in Seq(Results)
  <2>1. S!NoBatch.results \in Seq(Results) BY DEF S!NoBatch
  <2>. QED BY <1>2, <2>1 DEF S!TypeOK
<1>4. \A e \in Spooled : e.results \in Seq(Results)
  BY <1>1, <1>2, <1>3 DEF Spooled
<1>5. Within(Spooled) = Within(S!Stored) \cup In(held.results)
  BY WithinOne DEF Spooled
<1>6. Within(Spooled) \subseteq Results BY <1>4, InTyped DEF Within
<1>. QED BY <1>1, <1>4, <1>5, <1>6

\* The entry an Add of these results makes, whatever its name.
Made(e, results) == e.results = results /\ e.age = adds + 1

\* Add stores one batch at most, and takes others away: it never makes up any.
LEMMA AddStores ==
    ASSUME S!TypeOK, NEW results \in Batches, S!Add(results)
    PROVE  /\ up /\ up' /\ held' = held /\ adds' = adds + 1
           /\ \E e : Made(e, results) /\ S!Stored' \subseteq S!Stored \cup {e}
<1>1. up /\ up' /\ held' = held /\ adds' = adds + 1 BY DEF S!Add, S!TypeOK
<1>2. CASE S!AddDisk(results)
  <2>1. OnDisk BY <1>2 DEF S!AddDisk
  <2>2. PICK nano \in S!Stamps :
          \E gone \in SUBSET S!Written(S!NewFile(results, nano)) :
            files' = S!Written(S!NewFile(results, nano)) \ gone
    BY <1>2 DEF S!AddDisk
  <2>3. files' \subseteq files \cup {S!NewFile(results, nano)}
    BY <2>2 DEF S!Written
  <2>4. Made(S!NewFile(results, nano), results) BY DEF S!NewFile, Made
  <2>. QED BY <1>1, <2>1, <2>3, <2>4 DEF S!Stored
<1>3. CASE S!AddMem(results)
  <2>. DEFINE e == [nano |-> 0, seq |-> 0, age |-> adds + 1,
                    results |-> results]
              m == Append(mem, e)
              n == S!Excess(m)
  <2>1. ~OnDisk /\ mem' = SubSeq(m, n + 1, Len(m))
    BY <1>3 DEF S!AddMem, S!Kept
  <2>2. e \in S!Entry BY DEF S!TypeOK, S!Entry
  <2>3. /\ m \in Seq(S!Entry) /\ Len(m) = Len(mem) + 1 /\ Len(mem) \in Nat
        /\ \A i \in 1..Len(mem) : m[i] = mem[i]
        /\ m[Len(mem) + 1] = e
    BY <2>2, AppendProperties, LenProperties DEF S!TypeOK
  <2>4. n \in Nat /\ n <= Len(m)
    BY <2>3, DeliveryAssumption DEF S!Excess, S!WithinCap
  <2>. HIDE DEF n
  <2>5. \A i \in n + 1..Len(m) : m[i] \in S!Entry
    BY <2>3, <2>4, ElementOfSeq
  <2>6. /\ mem' \in Seq(S!Entry)
        /\ Len(mem') = Len(m) - n
        /\ \A i \in 1..Len(m) - n : mem'[i] = m[n + i]
    <3>1. Len(m) \in Int BY <2>3
    <3>. HIDE DEF m
    <3>. QED BY <2>1, <2>4, <2>5, <3>1, SubSeqProperties
  <2>7. \A i \in 1..Len(mem') :
          mem'[i] = e \/ \E j \in 1..Len(mem) : mem'[i] = mem[j]
    <3>1. \A i \in 1..Len(m) - n :
            n + i = Len(mem) + 1 \/ n + i \in 1..Len(mem)
      BY <2>3, <2>4
    <3>. QED BY <2>3, <2>6, <3>1
  <2>8. S!Stored' \subseteq S!Stored \cup {e}
    <3>1. /\ S!Stored' = {mem'[i] : i \in 1..Len(mem')}
          /\ S!Stored = {mem[i] : i \in 1..Len(mem)}
      BY <2>1 DEF S!Stored
    <3>. HIDE DEF e
    <3>. QED BY <2>7, <3>1
  <2>. QED BY <1>1, <2>8 DEF Made
<1>. QED BY <1>2, <1>3 DEF S!Add

\* So does an Add that the process does not survive.
LEMMA CrashInAddStores ==
    ASSUME NEW results \in Batches, S!CrashInAdd(results)
    PROVE  /\ up /\ ~up' /\ held' = S!NoBatch /\ OnDisk
           /\ \E e : Made(e, results) /\ S!Stored' \subseteq S!Stored \cup {e}
<1>1. up /\ ~up' /\ held' = S!NoBatch /\ OnDisk
  BY DEF S!CrashInAdd, S!Died
<1>2. PICK nano \in S!Stamps :
          \E gone \in SUBSET S!Written(S!NewFile(results, nano)) :
            files' = S!Written(S!NewFile(results, nano)) \ gone
  BY DEF S!CrashInAdd
<1>3. files' \subseteq files \cup {S!NewFile(results, nano)}
  BY <1>2 DEF S!Written
<1>4. Made(S!NewFile(results, nano), results) BY DEF S!NewFile, Made
<1>. QED BY <1>1, <1>3, <1>4 DEF S!Stored

\* A failed Add stores nothing.
LEMMA AddFailsKeeps ==
    ASSUME NEW results, S!AddFails(results)
    PROVE  up /\ UNCHANGED <<S!Stored, held, up, adds>>
BY DEF S!AddFails, S!Stored

\* Oldest hands out a batch of the spool, and deletes unreadable ones only.
LEMMA OldestTakes ==
    ASSUME S!TypeOK, S!Oldest
    PROVE  /\ up /\ held = S!NoBatch /\ UNCHANGED <<up, adds>>
           /\ S!Stored' \subseteq S!Stored
           /\ held' \in S!Stored' \cup {S!NoBatch}
           /\ (OnDisk => "read" \notin Faults) => S!Stored' = S!Stored
<1>1. up /\ held = S!NoBatch /\ UNCHANGED <<up, adds>> BY DEF S!Oldest
<1>2. CASE S!OldestDisk
  <2>1. OnDisk BY <1>2 DEF S!OldestDisk
  <2>2. CASE UNCHANGED <<files, held>>
    BY <1>1, <2>1, <2>2 DEF S!Stored
  <2>3. CASE ~UNCHANGED <<files, held>>
    <3>1. PICK bad \in S!May("read", files) :
          \E stuck \in S!May("remove", bad) :
            \E first \in IF files \ bad = {} THEN {S!NoBatch}
                                             ELSE files \ bad :
              /\ held' = first
              /\ files' = files \ {f \in bad \ stuck :
                             files \ bad = {} \/ S!Before(f, first)}
      BY <1>2, <2>3 DEF S!OldestDisk
    <3>2. files' \subseteq files /\ held' \in files' \cup {S!NoBatch}
      BY <3>1
    <3>3. "read" \notin Faults => files' = files BY <3>1 DEF S!May
    <3>. QED BY <1>1, <2>1, <3>2, <3>3 DEF S!Stored
  <2>. QED BY <2>2, <2>3
<1>3. CASE S!OldestMem
  <2>1. ~OnDisk /\ mem' = mem /\ held' = IF mem = <<>> THEN S!NoBatch ELSE Head(mem)
    BY <1>3 DEF S!OldestMem
  <2>2. mem # <<>> => Head(mem) \in {mem[i] : i \in 1..Len(mem)}
    BY EmptySeq DEF S!TypeOK
  <2>. QED BY <1>1, <2>1, <2>2 DEF S!Stored
<1>. QED BY <1>2, <1>3 DEF S!Oldest

\* Remove takes the held batch on disk, if files can be removed, and no other; in
\* memory it takes the head, which is the held batch if no cap has dropped it.
LEMMA RemoveTakes ==
    ASSUME S!TypeOK, S!Remove
    PROVE  /\ up /\ held # S!NoBatch /\ held' = S!NoBatch /\ UNCHANGED <<up, adds>>
           /\ S!Stored' \subseteq S!Stored
           /\ OnDisk /\ "remove" \notin Faults => held \notin S!Stored'
           /\ OnDisk /\ S!HeldKeepsName => S!Stored \ S!Stored' \subseteq {held}
           /\ ~OnDisk /\ mem[1] = held => S!Stored \ S!Stored' \subseteq {held}
           /\ ~OnDisk /\ S!InAgeOrder(mem)
                 /\ (\A e \in S!Stored : held.age <= e.age)
              => held \notin S!Stored'
<1>1. up /\ held # S!NoBatch /\ held' = S!NoBatch /\ UNCHANGED <<up, adds>>
  BY DEF S!Remove
<1>2. CASE S!RemoveDisk
  <2>1. OnDisk BY <1>2 DEF S!RemoveDisk
  <2>2. \/ files' = files \ {f \in files : S!SameName(f, held)}
        \/ "remove" \in Faults /\ files' = files
    BY <1>2 DEF S!RemoveDisk
  <2>3. S!SameName(held, held) BY DEF S!SameName
  <2>. QED BY <1>1, <2>1, <2>2, <2>3 DEF S!Stored, S!HeldKeepsName
<1>3. CASE S!RemoveMem
  <2>1. ~OnDisk /\ mem' = IF mem = <<>> THEN mem ELSE Tail(mem)
    BY <1>3 DEF S!RemoveMem
  <2>2. mem # <<>> => \A i \in 1..Len(Tail(mem)) :
                        Tail(mem)[i] = mem[i + 1] /\ i + 1 \in 1..Len(mem)
    BY HeadTailProperties, LenProperties DEF S!TypeOK
  <2>3. S!Stored' \subseteq S!Stored BY <2>1, <2>2 DEF S!Stored
  <2>4. ASSUME S!InAgeOrder(mem), \A e \in S!Stored : held.age <= e.age,
               held \in S!Stored'
        PROVE  FALSE
    <3>1. mem # <<>> BY <2>1, <2>4 DEF S!Stored
    <3>2. PICK i \in 1..Len(Tail(mem)) : held = Tail(mem)[i]
      BY <2>1, <2>4, <3>1 DEF S!Stored
    <3>3. held = mem[i + 1] /\ i + 1 \in 1..Len(mem) BY <2>2, <3>1, <3>2
    <3>4. Len(mem) \in Nat /\ 1 \in 1..Len(mem) /\ 1 < i + 1
      BY <3>1, <3>3, EmptySeq DEF S!TypeOK
    <3>5. mem[1] \in S!Entry /\ mem[i + 1] \in S!Entry
      BY <3>3, <3>4, ElementOfSeq DEF S!TypeOK
    <3>6. mem[1].age < held.age BY <2>4, <3>3, <3>4 DEF S!InAgeOrder
    <3>7. held.age <= mem[1].age BY <2>1, <2>4, <3>4 DEF S!Stored
    <3>. QED BY <3>3, <3>5, <3>6, <3>7 DEF S!Entry
  <2>5. ASSUME mem[1] = held PROVE S!Stored \ S!Stored' \subseteq {held}
    <3>1. CASE mem = <<>> BY <2>1, <3>1 DEF S!Stored
    <3>2. CASE mem # <<>>
      <4>1. /\ mem' = Tail(mem) /\ Len(mem) \in Nat /\ Len(mem) >= 1
            /\ Len(Tail(mem)) = Len(mem) - 1
        BY <2>1, <3>2, HeadTailProperties, EmptySeq DEF S!TypeOK
      <4>2. ASSUME NEW i \in 1..Len(mem), i # 1 PROVE mem[i] \in S!Stored'
        <5>1. i - 1 \in 1..Len(mem') /\ (i - 1) + 1 = i BY <4>1, <4>2
        <5>2. mem'[i - 1] = mem[i] BY <2>2, <3>2, <4>1, <5>1
        <5>. QED BY <2>1, <5>1, <5>2 DEF S!Stored
      <4>. QED BY <2>1, <2>5, <4>2 DEF S!Stored
    <3>. QED BY <3>1, <3>2
  <2>. QED BY <1>1, <2>1, <2>3, <2>4, <2>5
<1>. QED BY <1>2, <1>3 DEF S!Remove

\* A failed delivery, the end of the process and the next start keep the spool.
LEMMA GiveUpKeeps ==
    ASSUME S!GiveUp
    PROVE  up /\ held' = S!NoBatch /\ UNCHANGED <<S!Stored, up, adds>>
BY DEF S!GiveUp, S!Stored

LEMMA CrashKeeps ==
    ASSUME S!Crash
    PROVE  /\ up /\ ~up' /\ held' = S!NoBatch /\ adds' = adds
           /\ S!Stored' \subseteq S!Stored
           /\ OnDisk => S!Stored' = S!Stored
BY DEF S!Crash, S!Died, S!Stored

LEMMA OpenKeeps ==
    ASSUME S!Open
    PROVE  ~up /\ up' /\ UNCHANGED <<S!Stored, held, adds>>
BY DEF S!Open, S!Stored

(***************************************************************************)
(* Type correctness, and that this is a use the spool's theorems allow     *)
(***************************************************************************)

\* A loop holds a result exactly while it is handing it over.
HandsMatch ==
    \A c \in Checks : hand[c] # 0 <=> loop[c] \in {"offer", "spool"}

\* What a goroutine spools is a batch.
LEMMA BatchesSpooled ==
    ASSUME TypeOK, HandsMatch
    PROVE  /\ \A c \in Checks : loop[c] = "spool" =>
                 hand[c] \in Results /\ <<hand[c]>> \in Batches
           /\ pending # <<>> => pending \in Batches
           /\ BeingSpooled \ {<<>>} \subseteq Batches
<1>1. \A c \in Checks : loop[c] = "spool" => hand[c] \in Results
  BY DEF TypeOK, HandsMatch
<1>2. \A c \in Checks : loop[c] = "spool" => <<hand[c]>> \in Batches
  BY <1>1 DEF Batches
<1>3. pending # <<>> => pending \in Batches BY DEF TypeOK, Batches
<1>4. BeingSpooled \ {<<>>} \subseteq Batches
  BY <1>2, <1>3 DEF BeingSpooled
<1>. QED BY <1>1, <1>2, <1>3, <1>4

\* Who calls the spool, and how: every other step leaves it alone.
LEMMA SpoolSteps ==
    ASSUME TypeOK, HandsMatch, [Next]_vars
    PROVE  [S!Next]_S!vars
<1>. USE DEF store, spoolVars
<1>1. ASSUME NEW results \in Batches, Spools(results) PROVE S!Next
  BY <1>1 DEF Spools, S!Next
<1>2. ASSUME NEW c \in Checks, SpoolResult(c) PROVE S!Next
  BY <1>1, <1>2, BatchesSpooled DEF SpoolResult
<1>3. CASE SpoolBatch
  <2>1. pending # <<>> BY <1>3 DEF SpoolBatch, Spools, S!Add, S!AddFails
  <2>. QED BY <1>1, <1>3, <2>1, BatchesSpooled DEF SpoolBatch
<1>4. CASE ReplayOldest BY <1>4 DEF ReplayOldest, S!Next
<1>5. CASE RepostFails BY <1>5 DEF RepostFails, S!Next
<1>6. CASE RemoveDelivered BY <1>6 DEF RemoveDelivered, S!Next
<1>7. CASE Exit BY <1>7 DEF Exit, S!Next
<1>8. CASE Killed
  <2>1. ASSUME NEW results \in BeingSpooled, S!CrashInAdd(results) PROVE S!Next
    <3>1. results # <<>> BY <2>1 DEF S!CrashInAdd
    <3>. QED BY <2>1, <3>1, BatchesSpooled DEF S!Next
  <2>. QED BY <1>8, <2>1 DEF Killed, S!Next
<1>9. CASE Start BY <1>9 DEF Start, S!Next
<1>10. ASSUME NEW c \in Checks,
              Complete(c) \/ Offers(c) \/ LoopReadsDepth(c) \/ LoopStoresDepth(c)
       PROVE  UNCHANGED S!vars
  BY <1>10 DEF Complete, Offers, LoopReadsDepth, LoopStoresDepth, S!vars
<1>11. CASE \/ Receive \/ FlushTick \/ SeeCancel \/ Drain \/ Send
            \/ RepostOk \/ PostOk \/ PostFails
            \/ DispReadsDepth \/ DispStoresDepth
  <2>1. UNCHANGED spoolVars
    BY <1>11 DEF Receive, FlushTick, SeeCancel, Drain, Send, RepostOk,
                 PostOk, PostFails, DispReadsDepth, DispStoresDepth
  <2>. QED BY <2>1 DEF S!vars
<1>12. CASE BackoffExpires \/ BackendChanges \/ Terminate \/ UNCHANGED vars
  BY <1>12 DEF BackoffExpires, BackendChanges, Terminate, vars, S!vars
<1>. QED BY <1>2, <1>3, <1>4, <1>5, <1>6, <1>7, <1>8, <1>9, <1>10, <1>11,
            <1>12 DEF Next, Dispatch, HandsOver

\* Whatever a goroutine spools, the results logged as dropped are results.
LEMMA SpoolsTyped ==
    ASSUME TypeOK, S!TypeOK', NEW results \in Batches, Spools(results)
    PROVE  /\ dropped' \subseteq Results
           /\ up' /\ up
<1>1. dropped \subseteq Results /\ In(results) \subseteq Results
  BY InTyped DEF TypeOK, Batches
<1>2. Within(S!Stored) \subseteq Results
  BY SpooledTyped DEF TypeOK, Within, Spooled
<1>. QED BY <1>1, <1>2, AddStores, AddFailsKeeps DEF Spools, TypeOK

\* The numbers the dispatcher waits by.
LEMMA BackOffTyped ==
    ASSUME TypeOK, BackOff
    PROVE  backoff' \in 0..BackoffMax /\ waiting' \in BOOLEAN
BY DeliveryAssumption DEF BackOff, TypeOK

\* The channel keeps to its capacity, on both its ends.
LEMMA ToChannelTyped ==
    ASSUME TypeOK, HandsMatch, NEW c \in Checks, loop[c] = "offer", ToChannel(c)
    PROVE  chan' \in Seq(Results) /\ Len(chan') <= ChanCap
<1>1. hand[c] \in Results BY DEF TypeOK, HandsMatch
<1>2. /\ chan' \in Seq(Results) /\ Len(chan') = Len(chan) + 1
      /\ Len(chan) \in Nat /\ Len(chan) < ChanCap
  BY <1>1, AppendProperties DEF TypeOK, ToChannel
<1>. QED BY <1>2, DeliveryAssumption

LEMMA TakesTyped ==
    ASSUME TypeOK, Takes
    PROVE  /\ chan' \in Seq(Results) /\ Len(chan') <= ChanCap
           /\ batch' \in Seq(Results)
<1>1. /\ Head(chan) \in Results /\ Tail(chan) \in Seq(Results)
      /\ Len(Tail(chan)) = Len(chan) - 1 /\ Len(chan) \in Nat
  BY HeadTailProperties, LenProperties DEF TypeOK, Takes
<1>2. Append(batch, Head(chan)) \in Seq(Results)
  BY <1>1, AppendProperties DEF TypeOK
<1>. QED BY <1>1, <1>2, DeliveryAssumption DEF TypeOK, Takes

\* A process that ends leaves well-typed variables behind.
LEMMA GoneTyped ==
    ASSUME Gone
    PROVE  /\ loop' \in [Checks -> {"wait", "offer", "spool", "depth", "store"}]
           /\ hand' \in [Checks -> Results \cup {0}]
           /\ chan' \in Seq(Results) /\ Len(chan') <= ChanCap
           /\ d' = "select" /\ outcome' = "drained"
           /\ batch' \in Seq(Results) /\ pending' \in Seq(Results)
           /\ backoff' \in 0..BackoffMax
           /\ waiting' = FALSE /\ draining' = FALSE /\ cancelled' = FALSE
           /\ gauge' \in Int /\ seen' \in [Goroutines -> Int]
           /\ acked' = {}
           /\ HandsMatch'
<1>1. <<>> \in Seq(Results) /\ Len(<<>>) = 0 BY EmptySeq
<1>2. /\ chan' \in Seq(Results) /\ Len(chan') = 0
      /\ batch' \in Seq(Results) /\ pending' \in Seq(Results)
  BY <1>1, Zenon DEF Gone
<1>6. Len(chan') <= ChanCap BY <1>2, DeliveryAssumption
<1>3. /\ loop' \in [Checks -> {"wait", "offer", "spool", "depth", "store"}]
      /\ hand' \in [Checks -> Results \cup {0}]
      /\ seen' \in [Goroutines -> Int] /\ gauge' \in Int
  BY DEF Gone
<1>4. HandsMatch' BY DEF Gone, HandsMatch
<1>5. backoff' \in 0..BackoffMax BY DeliveryAssumption DEF Gone
<1>. QED BY <1>2, <1>3, <1>4, <1>5, <1>6 DEF Gone

\* What a process takes with it are results.
LEMMA InMemoryTyped ==
    TypeOK => InMemory \cup InLoops \cup In(chan) \subseteq Results
<1>. SUFFICES ASSUME TypeOK
     PROVE  InMemory \cup InLoops \cup In(chan) \subseteq Results
  OBVIOUS
<1>1. In(chan) \cup In(batch) \cup In(pending) \subseteq Results
  BY InTyped DEF TypeOK
<1>2. InLoops \subseteq Results BY DEF InLoops, TypeOK
<1>3. Within(S!Stored) \subseteq Results BY SpooledTyped DEF TypeOK
<1>. QED BY <1>1, <1>2, <1>3 DEF InMemory

\* Every step keeps the types, and the loops' hands.
LEMMA TypeStep ==
    ASSUME TypeOK, HandsMatch, [Next]_vars
    PROVE  TypeOK' /\ HandsMatch'
<1>1. S!TypeOK' BY SpoolSteps, SpoolTypeStep DEF TypeOK
<1>. USE <1>1
<1>2. ASSUME NEW c \in Checks, Complete(c) PROVE TypeOK' /\ HandsMatch'
  BY <1>2, DeliveryAssumption
     DEF Complete, LoopStep, TypeOK, HandsMatch, dispVars, retryVars, replies,
         outside, gaugeVars, store, Results
<1>3. ASSUME NEW c \in Checks, Offers(c) PROVE TypeOK' /\ HandsMatch'
  <2>1. CASE loop[c] = "offer" /\ ToChannel(c)
    <3>1. chan' \in Seq(Results) /\ Len(chan') <= ChanCap
      BY <2>1, ToChannelTyped
    <3>. QED
      BY <1>3, <2>1, <3>1
         DEF Offers, ToChannel, LoopStep, TypeOK, HandsMatch, dispVars,
             retryVars, replies, outside, gaugeVars, store
  <2>2. CASE loop[c] = "offer" /\ ToSpool(c)
    BY <1>3, <2>2
       DEF Offers, ToSpool, LoopStep, TypeOK, HandsMatch, dispVars, retryVars,
           replies, outside, gaugeVars, store
  <2>. QED BY <1>3, <2>1, <2>2 DEF Offers, Offer
<1>4. ASSUME NEW c \in Checks, SpoolResult(c) PROVE TypeOK' /\ HandsMatch'
  <2>1. dropped' \subseteq Results
    BY <1>4, BatchesSpooled, SpoolsTyped DEF SpoolResult
  <2>. QED
    BY <1>4, <2>1
       DEF SpoolResult, LoopStep, TypeOK, HandsMatch, dispVars, retryVars,
           replies, outside, gaugeVars
<1>5. ASSUME NEW c \in Checks, LoopReadsDepth(c) \/ LoopStoresDepth(c)
      PROVE  TypeOK' /\ HandsMatch'
  <2>1. seen' \in [Goroutines -> Int] /\ gauge' \in Int
    BY <1>5
       DEF LoopReadsDepth, LoopStoresDepth, ReadsDepth, StoresDepth, TypeOK,
           Goroutines, S!TypeOK
  <2>. QED
    BY <1>5, <2>1
       DEF LoopReadsDepth, LoopStoresDepth, LoopStep, TypeOK, HandsMatch,
           dispVars, retryVars, replies, outside, store
<1>6. CASE Receive
  BY <1>6, TakesTyped
     DEF Receive, DispStep, TypeOK, HandsMatch, loopVars, outside,
         retryVars, replies, gaugeVars, store
<1>7. CASE FlushTick \/ SeeCancel
  BY <1>7
     DEF FlushTick, SeeCancel, DispStep, TypeOK, HandsMatch, loopVars, outside,
         retryVars, replies, gaugeVars, store
<1>21. CASE Send
  <2>1. d' \in {"spool", "select", "post", "oldest"}
    BY <1>21 DEF Send, AfterSend, PostOrReturn, TypeOK
  <2>2. batch' \in Seq(Results) /\ pending' \in Seq(Results)
    BY <1>21, EmptySeq DEF Send, TypeOK
  <2>. QED
    BY <1>21, <2>1, <2>2
       DEF Send, DispStep, TypeOK, HandsMatch, loopVars, outside, retryVars,
           replies, gaugeVars, store
<1>8. CASE Drain
  <2>1. /\ chan' \in Seq(Results) /\ Len(chan') <= ChanCap
        /\ batch' \in Seq(Results) /\ pending' \in Seq(Results)
        /\ d' \in {"drain", "done", "spool"}
    BY <1>8, TakesTyped, EmptySeq DEF Drain, AfterDrain, TypeOK
  <2>. QED
    BY <1>8, <2>1
       DEF Drain, DispStep, TypeOK, HandsMatch, loopVars, outside, retryVars,
           replies, gaugeVars, store
<1>9. CASE ReplayOldest
  BY <1>9
     DEF ReplayOldest, DispStep, TypeOK,
         HandsMatch, loopVars, outside, retryVars, replies, gaugeVars
<1>10. CASE RepostOk \/ RepostFails
  BY <1>10, SpooledTyped
     DEF RepostOk, RepostFails, Posted, NotPosted, DispStep, TypeOK, Within, Spooled,
         HandsMatch, loopVars, outside, retryVars, replies, gaugeVars, store
<1>11. CASE RemoveDelivered
  BY <1>11
     DEF RemoveDelivered, DispStep, TypeOK,
         HandsMatch, loopVars, outside, retryVars, replies, gaugeVars
<1>12. CASE PostOk \/ PostFails
  <2>1. received' \subseteq Results /\ acked' \subseteq Results
    BY <1>12, InTyped DEF PostOk, PostFails, Posted, NotPosted, TypeOK
  <2>2. backoff' \in 0..BackoffMax /\ waiting' \in BOOLEAN
    <3>0. 0 \in 0..BackoffMax BY DeliveryAssumption
    <3>1. CASE PostOk BY <3>0, <3>1, Zenon DEF PostOk
    <3>2. CASE PostFails BY <3>2, BackOffTyped DEF PostFails
    <3>. QED BY <1>12, <3>1, <3>2
  <2>3. pending' \in Seq(Results)
    BY <1>12, EmptySeq DEF PostOk, PostFails, TypeOK
  <2>. QED
    BY <1>12, <2>1, <2>2, <2>3
       DEF PostOk, PostFails, DispStep, TypeOK, HandsMatch, loopVars, outside,
           gaugeVars, store
<1>13. CASE SpoolBatch
  <2>1. pending # <<>>
    BY <1>13 DEF SpoolBatch, Spools, S!Add, S!AddFails
  <2>2. dropped' \subseteq Results
    BY <1>13, <2>1, BatchesSpooled, SpoolsTyped DEF SpoolBatch
  <2>. QED
    BY <1>13, <2>2
       DEF SpoolBatch, Returned, DispStep, TypeOK, HandsMatch, loopVars, outside,
           retryVars, replies, gaugeVars
<1>14. CASE DispReadsDepth
  BY <1>14
     DEF DispReadsDepth, ReadsDepth, DispStep, TypeOK, HandsMatch, loopVars,
         outside, retryVars, replies, store, Goroutines, S!TypeOK
<1>15. CASE DispStoresDepth
  BY <1>15, BackOffTyped
     DEF DispStoresDepth, StoresDepth, Returned, PostOrReturn, DispStep, TypeOK,
         HandsMatch, loopVars, outside, retryVars, replies, store, Goroutines
<1>16. CASE BackoffExpires \/ BackendChanges \/ Terminate
  BY <1>16
     DEF BackoffExpires, BackendChanges, Terminate, TypeOK, HandsMatch,
         loopVars, dispVars, outside, retryVars, replies, gaugeVars, store
<1>17. CASE Exit
  <2>1. lost' \subseteq Results /\ stranded' \subseteq Results
    BY <1>17, InMemoryTyped, SpooledTyped DEF Exit, TypeOK
  <2>. QED BY <1>17, <2>1, GoneTyped DEF Exit, TypeOK
<1>18. CASE Killed
  <2>1. lost' \subseteq Results
    BY <1>18, InMemoryTyped DEF Killed, TypeOK
  <2>2. dropped' \subseteq Results
    <3>1. Within(S!Stored) \subseteq Results BY SpooledTyped DEF TypeOK
    <3>2. ASSUME NEW results \in BeingSpooled PROVE In(results) \subseteq Results
      <4>1. results \in Batches \cup {<<>>} BY BatchesSpooled
      <4>2. results \in Seq(Results) BY <4>1, EmptySeq DEF Batches
      <4>. QED BY <4>2, InTyped
    <3>. QED BY <1>18, <3>1, <3>2 DEF Killed, TypeOK
  <2>. QED BY <1>18, <2>1, <2>2, GoneTyped DEF Killed, TypeOK
<1>19. CASE Start
  BY <1>19
     DEF Start, TypeOK, HandsMatch, loopVars, dispVars, outside, retryVars,
         replies, S!TypeOK
<1>20. CASE UNCHANGED vars
  BY <1>20
     DEF vars, TypeOK, HandsMatch, loopVars, dispVars, outside, retryVars,
         replies, gaugeVars, store
<1>. QED BY <1>2, <1>3, <1>4, <1>5, <1>6, <1>7, <1>8, <1>9, <1>10, <1>11,
            <1>12, <1>13, <1>14, <1>15, <1>16, <1>17, <1>18, <1>19, <1>20,
            <1>21 DEF Next, Dispatch, HandsOver

(***************************************************************************)
(* The dispatcher's phases                                                 *)
(***************************************************************************)

\* What the dispatcher holds and knows where it is: a batch being sent is gone
\* once it returns to its select; it waits for no answer while backing off;
\* once it drains it only spools what is left.
Phases ==
    /\ pending # <<>> =>
          \/ d \in {"oldest", "repost", "remove", "post", "spool"}
          \/ d \in {"depth", "store"} /\ outcome # "spooled"
    /\ waiting =>
          /\ d \notin {"oldest", "repost", "remove", "post"}
          /\ d \in {"depth", "store"} => outcome # "drained"
    /\ draining =>
          /\ d \in {"drain", "spool", "depth", "store", "done"}
          /\ d \in {"depth", "store"} => outcome = "spooled"
          /\ d # "drain" => batch = <<>>
    /\ d \in {"drain", "done"} => draining

\* Only the dispatcher, the backoff and the end of the process move it.
LEMMA WhoDispatches ==
    ASSUME [Next]_vars
    PROVE  \/ UNCHANGED dispVars
           \/ Dispatch
           \/ BackoffExpires
           \/ Gone
BY DEF Next, vars, Complete, HandsOver, Offers, SpoolResult, LoopReadsDepth,
       LoopStoresDepth, LoopStep, BackendChanges, Terminate, Exit, Killed, Start

\* Every step of the dispatcher leads from a phase to one it knows.
LEMMA PhasesStep ==
    ASSUME TypeOK, Phases, [Next]_vars
    PROVE  Phases'
<1>1. CASE UNCHANGED dispVars BY <1>1 DEF Phases, dispVars, retryVars
<1>2. CASE BackoffExpires BY <1>2 DEF BackoffExpires, Phases
<1>3. CASE Gone BY <1>3 DEF Gone, Phases
<1>4. CASE Receive BY <1>4 DEF Receive, Takes, Phases, retryVars
<1>5. CASE FlushTick BY <1>5 DEF FlushTick, Phases, retryVars
<1>6. CASE SeeCancel BY <1>6 DEF SeeCancel, Phases, retryVars
<1>7. CASE Drain BY <1>7 DEF Drain, Takes, AfterDrain, Phases, retryVars
<1>8. CASE Send
  BY <1>8 DEF Send, AfterSend, PostOrReturn, Phases, retryVars, TypeOK
<1>9. CASE ReplayOldest BY <1>9 DEF ReplayOldest, Phases, retryVars
<1>10. CASE RepostOk BY <1>10 DEF RepostOk, Phases, retryVars
<1>11. CASE RepostFails BY <1>11 DEF RepostFails, Phases, retryVars
<1>12. CASE RemoveDelivered BY <1>12 DEF RemoveDelivered, Phases, retryVars
<1>13. CASE PostOk BY <1>13 DEF PostOk, Phases
<1>14. CASE PostFails BY <1>14 DEF PostFails, Phases, BackOff
<1>15. CASE SpoolBatch
  BY <1>15 DEF SpoolBatch, Returned, Phases, retryVars
<1>16. CASE DispReadsDepth BY <1>16 DEF DispReadsDepth, Phases, retryVars
<1>17. CASE DispStoresDepth
  BY <1>17
     DEF DispStoresDepth, Returned, PostOrReturn, BackOff, Phases, retryVars,
         TypeOK
<1>. QED BY <1>1, <1>2, <1>3, <1>4, <1>5, <1>6, <1>7, <1>8, <1>9, <1>10,
            <1>11, <1>12, <1>13, <1>14, <1>15, <1>16, <1>17, WhoDispatches
         DEF Dispatch

\* An answer of the backend reaches the process in these steps only.
LEMMA OfflineStep ==
    ASSUME Phases, [Next]_vars, draining, draining', up'
    PROVE  UNCHANGED <<received, acked>>
<1>1. d \in {"drain", "spool", "depth", "store", "done"} BY DEF Phases
<1>2. ~RepostOk /\ ~RepostFails /\ ~PostOk /\ ~PostFails
  BY <1>1 DEF RepostOk, RepostFails, PostOk, PostFails
<1>3. ~Exit /\ ~Killed BY DEF Exit, Killed, Gone
<1>4. CASE Dispatch
  BY <1>2, <1>4
     DEF Dispatch, Receive, FlushTick, SeeCancel, Drain, Send, SpoolBatch,
         ReplayOldest, RemoveDelivered, DispReadsDepth, DispStoresDepth, replies
<1>. QED
  BY <1>3, <1>4
     DEF Next, vars, Complete, HandsOver, Offers, SpoolResult, LoopReadsDepth,
         LoopStoresDepth, LoopStep, BackoffExpires, BackendChanges, Terminate,
         Start, replies

(***************************************************************************)
(* Where the results are: the moves between those who hold them            *)
(***************************************************************************)

\* Nothing is handed on; the replay may take or forget a batch of the spool,
\* and batches may leave it.
Rests ==
    /\ UNCHANGED <<hand, chan, batch, pending, produced>>
    /\ Spooled' \subseteq Spooled \cup {S!NoBatch}

\* A loop completes a run, gives its result to the channel, or spools it.
Completes(c) ==
    /\ hand[c] = 0
    /\ produced' = produced + 1
    /\ hand' = [hand EXCEPT ![c] = produced + 1]
    /\ UNCHANGED <<chan, batch, pending, Spooled>>

Gives(c) ==
    /\ hand[c] # 0
    /\ chan' = Append(chan, hand[c])
    /\ hand' = [hand EXCEPT ![c] = 0]
    /\ UNCHANGED <<batch, pending, produced, Spooled>>

LoopSpools(c) ==
    /\ hand[c] # 0
    /\ hand' = [hand EXCEPT ![c] = 0]
    /\ \E e : e.results = <<hand[c]>> /\ Spooled' \subseteq Spooled \cup {e}
    /\ UNCHANGED <<chan, batch, pending, produced>>

\* The dispatcher receives, starts to send, and ends it: posted or spooled.
Gets == Takes /\ UNCHANGED <<hand, pending, produced, Spooled>>

Flushes ==
    /\ pending' = batch /\ batch' = <<>>
    /\ UNCHANGED <<hand, chan, produced, Spooled>>

Settles ==
    /\ pending' = <<>>
    /\ \E e : e.results = pending /\ Spooled' \subseteq Spooled \cup {e}
    /\ UNCHANGED <<hand, chan, batch, produced>>

\* The process ends, and may have written what was being spooled.
Ends ==
    /\ Gone
    /\ UNCHANGED produced
    /\ \E e : /\ e = S!NoBatch \/ e.results \in BeingSpooled
              /\ Spooled' \subseteq Spooled \cup {S!NoBatch, e}

Moves ==
    \/ Rests \/ Gets \/ Flushes \/ Settles \/ Ends
    \/ \E c \in Checks : Completes(c) \/ Gives(c) \/ LoopSpools(c)

\* Every step is one of these moves.
LEMMA MovesStep ==
    ASSUME TypeOK, HandsMatch, [Next]_vars
    PROVE  Moves
<1>. USE DEF Moves
<1>0. S!TypeOK BY DEF TypeOK
<1>1. ASSUME NEW results \in Batches, Spools(results)
      PROVE  \E e : e.results = results /\ Spooled' \subseteq Spooled \cup {e}
  <2>1. CASE S!Add(results) BY <1>0, <2>1, AddStores DEF Spooled, Made
  <2>2. CASE S!AddFails(results)
    <3>1. Spooled' = Spooled BY <2>2, AddFailsKeeps DEF Spooled
    <3>2. PICK e : e = [results |-> results] OBVIOUS
    <3>. QED BY <3>1, <3>2
  <2>. QED BY <1>1, <2>1, <2>2 DEF Spools
<1>2. UNCHANGED store => UNCHANGED Spooled
  BY DEF store, spoolVars, Spooled, S!Stored
<1>3. ASSUME NEW c \in Checks, Complete(c) PROVE Moves
  <2>1. hand[c] = 0 BY <1>3 DEF Complete, HandsMatch
  <2>2. Completes(c)
    BY <1>2, <1>3, <2>1 DEF Complete, LoopStep, dispVars, Completes
  <2>. QED BY <2>2
<1>4. ASSUME NEW c \in Checks, Offers(c) PROVE Moves
  <2>1. CASE loop[c] = "offer" /\ ToChannel(c)
    <3>1. Gives(c)
      BY <1>2, <1>4, <2>1
         DEF Offers, ToChannel, LoopStep, dispVars, Gives, HandsMatch
    <3>. QED BY <3>1
  <2>2. CASE loop[c] = "offer" /\ ToSpool(c)
    BY <1>2, <1>4, <2>2 DEF Offers, ToSpool, LoopStep, dispVars, Rests
  <2>. QED BY <1>4, <2>1, <2>2 DEF Offers, Offer
<1>5. ASSUME NEW c \in Checks, SpoolResult(c) PROVE Moves
  <2>1. loop[c] = "spool" /\ Spools(<<hand[c]>>) BY <1>5 DEF SpoolResult
  <2>2. hand[c] # 0 BY <2>1 DEF HandsMatch
  <2>3. <<hand[c]>> \in Batches BY <2>1, BatchesSpooled
  <2>4. LoopSpools(c)
    BY <1>1, <1>5, <2>1, <2>2, <2>3
       DEF SpoolResult, LoopStep, dispVars, LoopSpools
  <2>. QED BY <2>4
<1>6. ASSUME NEW c \in Checks, LoopReadsDepth(c) \/ LoopStoresDepth(c)
      PROVE  Moves
  BY <1>2, <1>6
     DEF LoopReadsDepth, LoopStoresDepth, LoopStep, dispVars, Rests
<1>7. CASE Receive BY <1>2, <1>7 DEF Receive, DispStep, loopVars, Gets
<1>8. CASE Drain
  BY <1>2, <1>8 DEF Drain, DispStep, loopVars, Gets, Flushes
<1>9. CASE Send BY <1>2, <1>9 DEF Send, DispStep, loopVars, Flushes
<1>10. CASE FlushTick \/ SeeCancel \/ RepostOk \/ PostFails
            \/ DispReadsDepth \/ DispStoresDepth
  BY <1>2, <1>10
     DEF FlushTick, SeeCancel, RepostOk, PostFails, DispReadsDepth,
         DispStoresDepth, DispStep, loopVars, Rests
<1>11. CASE ReplayOldest
  <2>1. Spooled' \subseteq Spooled \cup {S!NoBatch}
    BY <1>0, <1>11, OldestTakes DEF ReplayOldest, Spooled
  <2>. QED BY <1>11, <2>1 DEF ReplayOldest, DispStep, loopVars, Rests
<1>12. CASE RemoveDelivered
  <2>1. Spooled' \subseteq Spooled \cup {S!NoBatch}
    BY <1>0, <1>12, RemoveTakes DEF RemoveDelivered, Spooled
  <2>. QED BY <1>12, <2>1 DEF RemoveDelivered, DispStep, loopVars, Rests
<1>13. CASE RepostFails
  <2>1. Spooled' \subseteq Spooled \cup {S!NoBatch}
    BY <1>13, GiveUpKeeps DEF RepostFails, Spooled
  <2>. QED BY <1>13, <2>1 DEF RepostFails, DispStep, loopVars, Rests
<1>14. CASE PostOk
  <2>1. PICK e : e = [results |-> pending] OBVIOUS
  <2>. QED BY <1>2, <1>14, <2>1 DEF PostOk, DispStep, loopVars, Settles
<1>15. CASE SpoolBatch
  <2>1. pending # <<>> BY <1>15 DEF SpoolBatch, Spools, S!Add, S!AddFails
  <2>2. pending \in Batches BY <2>1, BatchesSpooled
  <2>. QED BY <1>1, <1>15, <2>2 DEF SpoolBatch, DispStep, loopVars, Settles
<1>16. CASE BackoffExpires \/ BackendChanges \/ Terminate
  BY <1>2, <1>16
     DEF BackoffExpires, BackendChanges, Terminate, loopVars, dispVars, Rests
<1>17. CASE Exit
  BY <1>17, CrashKeeps DEF Exit, Spooled, Ends
<1>18. CASE Killed
  <2>1. CASE S!Crash BY <1>18, <2>1, CrashKeeps DEF Killed, Spooled, Ends
  <2>2. ASSUME NEW results \in BeingSpooled, S!CrashInAdd(results) PROVE Ends
    <3>1. results \in Batches
      BY <2>2, BatchesSpooled DEF S!CrashInAdd
    <3>. QED BY <1>18, <2>2, <3>1, CrashInAddStores
             DEF Killed, Spooled, Ends, Made
  <2>. QED BY <1>18, <2>1, <2>2 DEF Killed
<1>19. CASE Start
  BY <1>19, OpenKeeps DEF Start, Spooled, loopVars, dispVars, Rests
<1>20. CASE UNCHANGED vars
  BY <1>2, <1>20 DEF vars, loopVars, dispVars, Rests
<1>. QED BY <1>3, <1>4, <1>5, <1>6, <1>7, <1>8, <1>9, <1>10, <1>11, <1>12,
            <1>13, <1>14, <1>15, <1>16, <1>17, <1>18, <1>19, <1>20
         DEF Next, Dispatch, HandsOver

\* No batch of the set has a result of another.
Separate(entries) ==
    \A e, f \in entries : e = f \/ In(e.results) \cap In(f.results) = {}

\* What is held anywhere has been counted.
Counted ==
    /\ \A c \in Checks : hand[c] <= produced
    /\ In(chan) \cup In(batch) \cup In(pending) \cup Within(Spooled)
          \subseteq 1..produced

\* OneHolder, with the batch that is being replayed among the spooled ones,
\* and no result twice in one place.
Apart ==
    /\ \A c \in Checks : hand[c] # 0 =>
          /\ hand[c] \notin In(chan) \cup In(batch) \cup In(pending)
                              \cup Within(Spooled)
          /\ \A o \in Checks \ {c} : hand[o] # hand[c]
    /\ In(chan) \cap (In(batch) \cup In(pending) \cup Within(Spooled)) = {}
    /\ In(batch) \cap (In(pending) \cup Within(Spooled)) = {}
    /\ In(pending) \cap Within(Spooled) = {}
    /\ Distinct(chan)
    /\ Separate(Spooled)

\* One more batch, of results the others do not have.
LEMMA OneMore ==
    ASSUME NEW E, NEW F, NEW e, F \subseteq E \cup {e}, Separate(E),
           In(e.results) \cap Within(E) = {}
    PROVE  Separate(F) /\ Within(F) \subseteq Within(E) \cup In(e.results)
<1>1. \A f \in E : In(e.results) \cap In(f.results) = {} BY DEF Within
<1>2. Separate(F) BY <1>1 DEF Separate
<1>. QED BY <1>2 DEF Within

\* The zero batch has no results.
LEMMA NoBatchMore ==
    ASSUME NEW E, NEW F, F \subseteq E \cup {S!NoBatch}
    PROVE  /\ Separate(E) => Separate(F)
           /\ Within(F) \subseteq Within(E)
<1>1. In(S!NoBatch.results) = {} BY InEmpty DEF S!NoBatch
<1>. QED BY <1>1, OneMore DEF Within, Separate

\* Every move keeps the results apart: what is given is not kept.
LEMMA ApartStep ==
    ASSUME TypeOK, HandsMatch, Counted, Apart, Moves
    PROVE  Counted' /\ Apart'
<1>1. CASE Rests
  <2>1. Within(Spooled') \subseteq Within(Spooled) /\ Separate(Spooled')
    BY <1>1, NoBatchMore DEF Rests, Apart
  <2>. QED BY <1>1, <2>1 DEF Rests, Apart, Counted
<1>2. ASSUME NEW c \in Checks, Completes(c) PROVE Counted' /\ Apart'
  <2>1. produced + 1 \notin In(chan) \cup In(batch) \cup In(pending)
                                  \cup Within(Spooled)
    BY DEF Counted, TypeOK
  <2>2. \A o \in Checks : hand[o] # produced + 1
    BY DEF Counted, TypeOK
  <2>3. \A o \in Checks : hand'[o] = IF o = c THEN produced + 1 ELSE hand[o]
    BY <1>2 DEF Completes, TypeOK
  <2>4. Counted'
    <3>1. \A o \in Checks : hand'[o] <= produced'
      <4>1. \A o \in Checks : hand[o] \in Nat /\ hand[o] <= produced
        BY DEF Counted, TypeOK, Results
      <4>2. produced \in Nat /\ produced' = produced + 1
        BY <1>2, DeliveryAssumption DEF Completes, TypeOK
      <4>. QED BY <2>3, <4>1, <4>2
    <3>2. 1..produced \subseteq 1..produced' BY <1>2 DEF Completes, TypeOK
    <3>. QED BY <1>2, <3>1, <3>2 DEF Counted, Completes
  <2>. QED BY <1>2, <2>1, <2>2, <2>3, <2>4 DEF Apart, Completes
<1>3. ASSUME NEW c \in Checks, Gives(c) PROVE Counted' /\ Apart'
  <2>1. hand[c] \in Results BY <1>3 DEF Gives, TypeOK
  <2>2. In(chan') = In(chan) \cup {hand[c]}
    BY <1>3, <2>1, InAppend DEF Gives, TypeOK
  <2>3. Distinct(chan')
    BY <1>3, <2>1, DistinctAppend DEF Gives, TypeOK, Apart
  <2>4. \A o \in Checks : hand'[o] = IF o = c THEN 0 ELSE hand[o]
    BY <1>3 DEF Gives, TypeOK
  <2>5. hand[c] \in 1..produced BY <1>3, <2>1 DEF Counted, Results, TypeOK
  <2>6. Counted'
    <3>1. \A o \in Checks : hand'[o] <= produced'
      BY <1>3, <2>4 DEF Counted, Gives, TypeOK
    <3>. QED BY <1>3, <2>2, <2>5, <3>1 DEF Counted, Gives
  <2>. QED BY <1>3, <2>2, <2>3, <2>4, <2>6 DEF Apart, Gives
<1>4. ASSUME NEW c \in Checks, LoopSpools(c) PROVE Counted' /\ Apart'
  <2>1. PICK e : /\ In(e.results) = {hand[c]}
                 /\ Spooled' \subseteq Spooled \cup {e}
    BY <1>4, InOne DEF LoopSpools
  <2>2. hand[c] \notin Within(Spooled) /\ Separate(Spooled)
    BY <1>4 DEF LoopSpools, Apart
  <2>3. /\ Separate(Spooled')
        /\ Within(Spooled') \subseteq Within(Spooled) \cup {hand[c]}
    <3>1. In(e.results) \cap Within(Spooled) = {} BY <2>1, <2>2
    <3>. QED BY <2>1, <2>2, <3>1, OneMore
  <2>4. \A o \in Checks : hand'[o] = IF o = c THEN 0 ELSE hand[o]
    BY <1>4 DEF LoopSpools, TypeOK
  <2>5. hand[c] \in 1..produced BY <1>4 DEF LoopSpools, Counted, Results, TypeOK
  <2>6. Counted'
    <3>1. \A o \in Checks : hand'[o] <= produced'
      BY <1>4, <2>4 DEF Counted, LoopSpools, TypeOK
    <3>. QED BY <1>4, <2>3, <2>5, <3>1 DEF Counted, LoopSpools
  <2>7. \A o \in Checks : o # c => hand[o] # hand[c]
    BY <1>4 DEF Apart, LoopSpools
  <2>. QED BY <1>4, <2>3, <2>4, <2>6, <2>7 DEF Apart, LoopSpools
<1>5. CASE Gets
  <2>1. /\ In(chan) = {Head(chan)} \cup In(chan')
        /\ Distinct(chan') /\ Head(chan) \notin In(chan')
    BY <1>5, InHeadTail, DistinctTail DEF Gets, Takes, TypeOK, Apart
  <2>2. Head(chan) \in Results BY <1>5, HeadTailProperties DEF Gets, Takes, TypeOK
  <2>3. In(batch') = In(batch) \cup {Head(chan)}
    BY <1>5, <2>2, InAppend DEF Gets, Takes, TypeOK
  <2>. QED BY <1>5, <2>1, <2>3 DEF Apart, Counted, Gets
<1>6. CASE Flushes
  <2>1. In(batch') = {} /\ In(pending') = In(batch)
    BY <1>6, InEmpty DEF Flushes
  <2>. QED BY <1>6, <2>1 DEF Apart, Counted, Flushes
<1>7. CASE Settles
  <2>1. PICK e : e.results = pending /\ Spooled' \subseteq Spooled \cup {e}
    BY <1>7 DEF Settles
  <2>2. /\ Separate(Spooled')
        /\ Within(Spooled') \subseteq Within(Spooled) \cup In(pending)
    BY <2>1, OneMore DEF Apart
  <2>3. In(pending') = {} BY <1>7, InEmpty DEF Settles
  <2>. QED BY <1>7, <2>2, <2>3 DEF Apart, Counted, Settles
<1>8. CASE Ends
  <2>1. PICK e : /\ e = S!NoBatch \/ e.results \in BeingSpooled
                 /\ Spooled' \subseteq Spooled \cup {S!NoBatch, e}
    BY <1>8 DEF Ends
  <2>2. /\ In(e.results) \cap Within(Spooled) = {}
        /\ In(e.results) \subseteq 1..produced
    <3>1. CASE e = S!NoBatch BY <3>1, InEmpty DEF S!NoBatch
    <3>2. CASE d = "spool" /\ e.results = pending BY <3>2 DEF Apart, Counted
    <3>3. ASSUME NEW c \in Checks, loop[c] = "spool", e.results = <<hand[c]>>
          PROVE  /\ In(e.results) \cap Within(Spooled) = {}
                 /\ In(e.results) \subseteq 1..produced
      <4>1. hand[c] # 0 BY <3>3 DEF HandsMatch
      <4>2. hand[c] \in 1..produced BY <4>1 DEF TypeOK, Counted, Results
      <4>. QED BY <3>3, <4>1, <4>2, InOne DEF Apart
    <3>. QED BY <2>1, <3>1, <3>2, <3>3 DEF BeingSpooled
  <2>3. /\ Separate(Spooled \cup {e})
        /\ Within(Spooled \cup {e}) \subseteq Within(Spooled) \cup In(e.results)
    BY <2>2, OneMore DEF Apart
  <2>4. /\ Separate(Spooled')
        /\ Within(Spooled') \subseteq Within(Spooled) \cup In(e.results)
    <3>1. Spooled' \subseteq (Spooled \cup {e}) \cup {S!NoBatch} BY <2>1
    <3>. QED BY <2>3, <3>1, NoBatchMore
  <2>5. /\ \A c \in Checks : hand'[c] = 0
        /\ In(chan') = {} /\ In(batch') = {} /\ In(pending') = {}
        /\ Distinct(chan') /\ produced' = produced
    BY <1>8, InEmpty DEF Ends, Gone, Distinct
  <2>6. Counted'
    BY <2>2, <2>4, <2>5 DEF Counted, TypeOK
  <2>. QED BY <2>4, <2>5, <2>6 DEF Apart
<1>. QED BY <1>1, <1>2, <1>3, <1>4, <1>5, <1>6, <1>7, <1>8 DEF Moves

\* What is in the spool is among what is spooled.
LEMMA ApartIsOneHolder == Apart => OneHolder
<1>. SUFFICES ASSUME Apart PROVE OneHolder
  OBVIOUS
<1>1. Within(S!Stored) \subseteq Within(Spooled)
  BY WithinFewer DEF Spooled
<1>. QED BY <1>1 DEF Apart, OneHolder

(***************************************************************************)
(* The oldest batch is replayed first                                      *)
(***************************************************************************)

\* The batch that is being replayed is older than all in the spool.
HeldOldest ==
    held # S!NoBatch =>
        held.age <= adds /\ \A e \in S!Stored : held.age <= e.age

\* Oldest hands out the first name, and what it passes over it deletes: an
\* unreadable file that cannot be removed would stay before it.
LEMMA OldestIsOldest ==
    ASSUME OnDisk => "read" \notin Faults \/ "remove" \notin Faults,
           S!SpoolInv, S!Oldest, held' # S!NoBatch
    PROVE  held'.age <= adds /\ \A e \in S!Stored' : held'.age <= e.age
<1>1. S!TypeOK /\ S!Chronological /\ S!AgesIssued /\ held = S!NoBatch
  BY DEF S!SpoolInv, S!Oldest
<1>2. CASE S!OldestDisk
  <2>0. OnDisk BY <1>2 DEF S!OldestDisk
  <2>1. PICK bad \in S!May("read", files) :
        \E stuck \in S!May("remove", bad) :
          \E first \in IF files \ bad = {} THEN {S!NoBatch} ELSE files \ bad :
            /\ \A g \in files \ bad : g = first \/ S!Before(first, g)
            /\ held' = first
            /\ files' = files \ {f \in bad \ stuck :
                           files \ bad = {} \/ S!Before(f, first)}
    BY <1>1, <1>2 DEF S!OldestDisk
  <2>2. /\ held' \in files \ bad
        /\ \A g \in files \ bad : g = held' \/ S!Before(held', g)
        /\ \A g \in bad \cap files' : ~S!Before(g, held')
    BY <2>0, <2>1 DEF S!May
  <2>3. \A g \in files : g.age \in Nat /\ g.age <= adds
    BY <1>1 DEF S!TypeOK, S!Entry, S!AgesIssued
  <2>4. \A g \in files' : g \in files BY <2>1
  <2>5. \A g \in files' : held'.age <= g.age
    BY <1>1, <2>2, <2>3, <2>4 DEF S!Chronological
  <2>. QED BY <2>0, <2>2, <2>3, <2>5 DEF S!Stored
<1>3. CASE S!OldestMem
  <2>1. /\ ~OnDisk /\ mem' = mem /\ mem # <<>> /\ held' = mem[1]
    BY <1>3 DEF S!OldestMem
  <2>2. /\ 1 \in 1..Len(mem)
        /\ \A i \in 1..Len(mem) : mem[i].age \in Nat /\ mem[i].age <= adds
    <3>1. \A i \in 1..Len(mem) : mem[i] \in S!Entry
      BY <1>1, ElementOfSeq DEF S!TypeOK
    <3>. QED BY <1>1, <2>1, <3>1, EmptySeq
             DEF S!TypeOK, S!Entry, S!AgesIssued
  <2>3. \A i \in 1..Len(mem) : i = 1 \/ 1 < i OBVIOUS
  <2>4. \A i \in 1..Len(mem) : mem[1].age <= mem[i].age
    BY <1>1, <2>2, <2>3 DEF S!Chronological, S!InAgeOrder
  <2>. QED BY <2>1, <2>2, <2>4 DEF S!Stored
<1>. QED BY <1>2, <1>3 DEF S!Oldest

\* What is added later is younger, and no other batch comes back.
LEMMA HeldOldestStep ==
    ASSUME OnDisk => "read" \notin Faults \/ "remove" \notin Faults,
           S!SpoolInv, HeldOldest, [S!Next]_S!vars
    PROVE  HeldOldest'
<1>0. S!TypeOK BY DEF S!SpoolInv
<1>1. ASSUME NEW b \in Batches, S!Add(b) PROVE HeldOldest'
  <2>1. PICK e : /\ e.age = adds + 1
                 /\ S!Stored' \subseteq S!Stored \cup {e}
    BY <1>0, <1>1, AddStores DEF Made
  <2>2. held' = held /\ adds' = adds + 1 BY <1>0, <1>1, AddStores
  <2>3. adds \in Nat /\ (held # S!NoBatch => held.age \in Nat)
    BY <1>0 DEF S!TypeOK, S!Entry
  <2>. QED BY <2>1, <2>2, <2>3 DEF HeldOldest
<1>2. ASSUME NEW b \in Batches, S!AddFails(b) PROVE HeldOldest'
  BY <1>2, AddFailsKeeps DEF HeldOldest
<1>3. ASSUME NEW b \in Batches, S!CrashInAdd(b) PROVE HeldOldest'
  BY <1>3, CrashInAddStores DEF HeldOldest
<1>4. CASE S!Oldest
  <2>1. adds' = adds BY <1>4 DEF S!Oldest
  <2>. QED BY <1>4, <2>1, OldestIsOldest DEF HeldOldest
<1>5. CASE S!Remove BY <1>0, <1>5, RemoveTakes DEF HeldOldest
<1>6. CASE S!GiveUp BY <1>6, GiveUpKeeps DEF HeldOldest
<1>7. CASE S!Crash BY <1>7, CrashKeeps DEF HeldOldest
<1>8. CASE S!Open BY <1>8, OpenKeeps DEF HeldOldest
<1>9. CASE UNCHANGED S!vars BY <1>9 DEF S!vars, HeldOldest, S!Stored
<1>. QED BY <1>1, <1>2, <1>3, <1>4, <1>5, <1>6, <1>7, <1>8, <1>9 DEF S!Next

\* Which is the order of the replay.
LEMMA HeldIsFirst == S!TypeOK /\ HeldOldest => ReplaysOldestFirst
<1>. SUFFICES ASSUME S!TypeOK, HeldOldest, NEW e \in S!Stored
     PROVE  held.age <= e.age
  BY DEF ReplaysOldestFirst
<1>1. CASE held = S!NoBatch
  <2>1. e.age \in Nat BY SpooledTyped DEF S!Entry
  <2>. QED BY <1>1, <2>1 DEF S!NoBatch
<1>2. CASE held # S!NoBatch BY <1>2 DEF HeldOldest
<1>. QED BY <1>1, <1>2

(***************************************************************************)
(* What was acknowledged is not sent again                                 *)
(***************************************************************************)

\* What this process has seen acknowledged it holds no longer, but for the
\* batch it is about to remove.
Unacked ==
    /\ acked \subseteq 1..produced
    /\ \A c \in Checks : hand[c] \notin acked
    /\ acked \cap (In(chan) \cup In(batch) \cup In(pending)) = {}
    /\ \A e \in Spooled :
          (d = "remove" /\ e = held) \/ In(e.results) \cap acked = {}

\* Acknowledgements come from two posts, and go with the process; only a removal
\* ends the phase in which an acknowledged batch is still held.
LEMMA WhoAcks ==
    ASSUME TypeOK, HandsMatch, [Next]_vars
    PROVE  \/ RepostOk \/ PostOk \/ RemoveDelivered \/ Gone
           \/ acked' = acked /\ d # "remove" /\ d' # "remove"
           \/ acked' = acked /\ d = "remove" /\ d' = "remove" /\ held' = held
<1>1. S!TypeOK BY DEF TypeOK
<1>2. ASSUME NEW c \in Checks, SpoolResult(c)
      PROVE  UNCHANGED <<acked, d, held>>
  <2>1. <<hand[c]>> \in Batches BY <1>2, BatchesSpooled DEF SpoolResult
  <2>. QED BY <1>1, <1>2, <2>1, AddStores, AddFailsKeeps
           DEF SpoolResult, Spools, LoopStep, dispVars, replies
<1>3. ASSUME NEW c \in Checks,
             Complete(c) \/ Offers(c) \/ LoopReadsDepth(c) \/ LoopStoresDepth(c)
      PROVE  UNCHANGED <<acked, d, held>>
  BY <1>3
     DEF Complete, Offers, LoopReadsDepth, LoopStoresDepth, LoopStep, dispVars,
         replies, store, spoolVars
<1>4. CASE BackoffExpires \/ BackendChanges \/ Terminate \/ Start \/ UNCHANGED vars
  BY <1>4, OpenKeeps
     DEF BackoffExpires, BackendChanges, Terminate, Start, vars, dispVars,
         replies, store, spoolVars
<1>5. CASE Exit \/ Killed BY <1>5 DEF Exit, Killed
<1>6. CASE \/ Receive \/ FlushTick \/ SeeCancel \/ Drain \/ Send \/ PostFails
           \/ SpoolBatch \/ ReplayOldest \/ RepostFails \/ DispReadsDepth
           \/ DispStoresDepth
  BY <1>6
     DEF Receive, FlushTick, SeeCancel, Drain, Send, PostFails, SpoolBatch,
         ReplayOldest, RepostFails, DispReadsDepth, DispStoresDepth, NotPosted,
         AfterDrain, AfterSend, PostOrReturn, Returned, replies, TypeOK
<1>. QED BY <1>2, <1>3, <1>4, <1>5, <1>6 DEF Next, Dispatch, HandsOver

\* Where files can be removed, every step keeps this; so it does in memory, where
\* the batch to be removed is the head of the queue, if it is in it.
LEMMA UnackedStep ==
    ASSUME OnDisk => "remove" \notin Faults,
           ~OnDisk => S!SpoolInv /\ HeldOldest,
           TypeOK, HandsMatch, Counted, Apart, Unacked, [Next]_vars
    PROVE  Unacked'
<1>0. Moves /\ S!TypeOK BY MovesStep DEF TypeOK
<1>1. CASE RepostOk
  <2>1. /\ acked' = acked \cup In(held.results) /\ d = "repost" /\ d' = "remove"
        /\ UNCHANGED <<produced, hand, chan, batch, pending, held, Spooled>>
    BY <1>1
       DEF RepostOk, Posted, DispStep, loopVars, store, spoolVars, Spooled, S!Stored
  <2>2. held \in Spooled /\ In(held.results) \subseteq Within(Spooled)
    BY DEF Spooled, Within
  <2>3. \A e \in Spooled : e = held \/ In(e.results) \cap acked' = {}
    BY <2>1, <2>2 DEF Unacked, Apart, Separate
  <2>4. \A c \in Checks : hand'[c] \notin acked'
    <3>1. 0 \notin Within(Spooled) BY DEF Counted, TypeOK
    <3>. QED BY <2>1, <2>2, <3>1 DEF Unacked, Apart
  <2>. QED BY <2>1, <2>2, <2>3, <2>4 DEF Unacked, Apart, Counted
<1>2. CASE PostOk
  <2>1. /\ acked' = acked \cup In(pending) /\ d' = "select" /\ pending' = <<>>
        /\ UNCHANGED <<produced, hand, chan, batch, held, Spooled>>
        /\ d = "post"
    BY <1>2
       DEF PostOk, Posted, DispStep, loopVars, store, spoolVars, Spooled, S!Stored
  <2>2. \A e \in Spooled : In(e.results) \cap acked' = {}
    <3>1. \A e \in Spooled : In(e.results) \subseteq Within(Spooled)
      BY DEF Within
    <3>. QED BY <2>1, <3>1 DEF Unacked, Apart
  <2>3. \A c \in Checks : hand'[c] \notin acked'
    <3>1. 0 \notin In(pending) BY DEF Counted, TypeOK
    <3>. QED BY <2>1, <3>1 DEF Unacked, Apart
  <2>. QED BY <2>1, <2>2, <2>3, InEmpty DEF Unacked, Apart, Counted
<1>3. CASE RemoveDelivered
  <2>0. S!Remove /\ held # S!NoBatch
    BY <1>3 DEF RemoveDelivered, S!Remove
  <2>1. /\ UNCHANGED <<acked, produced, hand, chan, batch, pending>>
        /\ held \notin S!Stored' /\ S!Stored' \subseteq S!Stored
        /\ held' = S!NoBatch
    <3>1. UNCHANGED <<acked, produced, hand, chan, batch, pending>>
      BY <1>3 DEF RemoveDelivered, DispStep, loopVars, replies
    <3>2. ~OnDisk => /\ S!InAgeOrder(mem)
                     /\ \A e \in S!Stored : held.age <= e.age
      BY <2>0 DEF S!SpoolInv, S!Chronological, HeldOldest
    <3>. QED BY <1>0, <2>0, <3>1, <3>2, RemoveTakes
  <2>2. In(held'.results) = {} BY <2>1, InEmpty DEF S!NoBatch
  <2>3. \A e \in Spooled' : In(e.results) \cap acked' = {}
    BY <2>1, <2>2 DEF Unacked, Spooled
  <2>. QED BY <2>1, <2>3 DEF Unacked
<1>4. CASE Gone
  <2>1. acked' = {} BY <1>4 DEF Gone
  <2>. QED BY <2>1 DEF Unacked
<1>5. CASE /\ acked' = acked
           /\ (d # "remove" /\ d' # "remove")
                 \/ (d = "remove" /\ d' = "remove" /\ held' = held)
           /\ ~Gone
  <2>1. ASSUME NEW e, In(e.results) \cap acked = {},
               Spooled' \subseteq Spooled \cup {e}
        PROVE  \A f \in Spooled' :
                 (d' = "remove" /\ f = held') \/ In(f.results) \cap acked' = {}
    BY <1>5, <2>1 DEF Unacked
  <2>2. CASE Rests
    <3>1. In(S!NoBatch.results) = {} BY InEmpty DEF S!NoBatch
    <3>. QED BY <1>5, <2>1, <2>2, <3>1 DEF Rests, Unacked
  <2>3. ASSUME UNCHANGED Spooled,
               \/ Gets \/ Flushes
               \/ \E c \in Checks : Completes(c) \/ Gives(c)
        PROVE  Unacked'
    <3>1. \A f \in Spooled' :
            (d' = "remove" /\ f = held') \/ In(f.results) \cap acked' = {}
      BY <1>5, <2>3 DEF Unacked
    <3>2. ASSUME NEW c \in Checks, Completes(c) PROVE Unacked'
      <4>1. /\ \A o \in Checks : hand'[o] = IF o = c THEN produced + 1 ELSE hand[o]
            /\ produced' = produced + 1 /\ UNCHANGED <<chan, batch, pending>>
        BY <3>2 DEF Completes, TypeOK
      <4>2. acked \subseteq 1..produced' /\ produced + 1 \notin acked
        BY <4>1 DEF Unacked, TypeOK
      <4>. QED BY <1>5, <3>1, <4>1, <4>2 DEF Unacked
    <3>3. ASSUME NEW c \in Checks, Gives(c) PROVE Unacked'
      <4>1. hand[c] \in Results BY <3>3 DEF Gives, TypeOK
      <4>2. In(chan') = In(chan) \cup {hand[c]}
        BY <3>3, <4>1, InAppend DEF Gives, TypeOK
      <4>3. /\ \A o \in Checks : hand'[o] = IF o = c THEN 0 ELSE hand[o]
            /\ UNCHANGED <<batch, pending, produced>>
        BY <3>3 DEF Gives, TypeOK
      <4>4. 0 \notin acked BY DEF Unacked, TypeOK
      <4>. QED BY <1>5, <3>1, <4>2, <4>3, <4>4 DEF Unacked
    <3>4. CASE Gets
      <4>1. Head(chan) \in Results /\ In(chan) = {Head(chan)} \cup In(chan')
        BY <3>4, InHeadTail, HeadTailProperties DEF Gets, Takes, TypeOK
      <4>2. In(batch') = In(batch) \cup {Head(chan)}
        BY <3>4, <4>1, InAppend DEF Gets, Takes, TypeOK
      <4>. QED BY <1>5, <3>1, <3>4, <4>1, <4>2 DEF Gets, Unacked
    <3>5. CASE Flushes
      <4>1. In(batch') = {} /\ In(pending') = In(batch)
        BY <3>5, InEmpty DEF Flushes
      <4>. QED BY <1>5, <3>1, <3>5, <4>1 DEF Flushes, Unacked
    <3>. QED BY <2>3, <3>2, <3>3, <3>4, <3>5
  <2>4. ASSUME NEW c \in Checks, LoopSpools(c) PROVE Unacked'
    <3>1. PICK e : /\ In(e.results) = {hand[c]}
                   /\ Spooled' \subseteq Spooled \cup {e}
      BY <2>4, InOne DEF LoopSpools
    <3>2. /\ \A o \in Checks : hand'[o] = IF o = c THEN 0 ELSE hand[o]
          /\ UNCHANGED <<chan, batch, pending, produced>>
      BY <2>4 DEF LoopSpools, TypeOK
    <3>3. 0 \notin acked BY DEF Unacked, TypeOK
    <3>4. In(e.results) \cap acked = {} BY <3>1 DEF Unacked
    <3>. QED BY <1>5, <2>1, <3>1, <3>2, <3>3, <3>4 DEF Unacked
  <2>5. CASE Settles
    <3>1. PICK e : e.results = pending /\ Spooled' \subseteq Spooled \cup {e}
      BY <2>5 DEF Settles
    <3>2. In(e.results) \cap acked = {} /\ In(pending') = {}
      BY <2>5, <3>1, InEmpty DEF Unacked, Settles
    <3>. QED BY <1>5, <2>1, <2>5, <3>1, <3>2 DEF Settles, Unacked
  <2>. QED BY <1>0, <1>5, <2>2, <2>3, <2>4, <2>5
           DEF Moves, Completes, Gives, Gets, Flushes, Ends
<1>. QED BY <1>1, <1>2, <1>3, <1>4, <1>5, WhoAcks

\* Both posts send what is not acknowledged.
LEMMA UnackedOnce == Unacked => AckedOnce
BY DEF Unacked, AckedOnce, Spooled

(***************************************************************************)
(* Nothing vanishes: every step is one of the outbox                       *)
(***************************************************************************)

Pending == Waiting \cup Posting
GivenUp == dropped \cup lost \cup stranded

\* A batch is removed once the backend has it, and one that is being posted is
\* still in the spool, or was dropped from it by the cap.
ReplayKeeps ==
    /\ d = "remove" => In(held.results) \subseteq received
    /\ Posting \subseteq Within(S!Stored) \cup dropped

\* What one step of the outbox may do to the results: some are received, some
\* given up, and what is no longer pending is among these.
Resolves ==
    /\ received \subseteq received' /\ received' \subseteq received \cup Pending
    /\ GivenUp \subseteq GivenUp' /\ GivenUp' \subseteq GivenUp \cup Pending
    /\ Pending' \subseteq Pending
    /\ Pending \ Pending' \subseteq received' \cup GivenUp'
    /\ UNCHANGED produced

\* Which is a step of the outbox.
LEMMA ResolvesIsOutbox == Resolves => [O!Next]_O!vars
BY DEF Resolves, Pending, GivenUp, O!Next, O!Settle

\* What waits is in the process or in the spool.
LEMMA WaitingIs ==
    /\ Waiting = InLoops \cup In(chan) \cup In(batch) \cup In(pending)
                    \cup Within(S!Stored)
    /\ Waiting' = InLoops' \cup In(chan') \cup In(batch')
                    \cup In(pending') \cup Within(S!Stored')
BY DEF Waiting, InMemory, Within

\* A loop hands over the one result it has.
LEMMA HandEmptied ==
    ASSUME TypeOK, NEW c \in Checks, hand[c] # 0,
           hand' = [hand EXCEPT ![c] = 0]
    PROVE  InLoops' \subseteq InLoops /\ InLoops = InLoops' \cup {hand[c]}
<1>1. \A o \in Checks : hand'[o] = IF o = c THEN 0 ELSE hand[o]
  BY DEF TypeOK
<1>. QED BY <1>1 DEF InLoops

\* An Add that drops a batch, or fails, says so.
LEMMA SpoolsSettles ==
    ASSUME TypeOK, NEW results \in Batches, Spools(results)
    PROVE  /\ up /\ held' = held
           /\ Within(S!Stored') \subseteq Within(S!Stored) \cup In(results)
           /\ dropped \subseteq dropped'
           /\ dropped' \subseteq dropped \cup Within(S!Stored) \cup In(results)
           /\ (Within(S!Stored) \cup In(results)) \ Within(S!Stored')
                 \subseteq dropped'
<1>0. S!TypeOK BY DEF TypeOK
<1>1. CASE S!Add(results) /\ dropped' = dropped \cup
            ((Within(S!Stored) \cup In(results)) \ Within(S!Stored'))
  <2>1. PICK e : /\ e.results = results
                 /\ S!Stored' \subseteq S!Stored \cup {e}
    BY <1>0, <1>1, AddStores DEF Made
  <2>2. Within(S!Stored') \subseteq Within(S!Stored) \cup In(results)
    BY <2>1, WithinFewer, WithinOne
  <2>. QED BY <1>0, <1>1, <2>2, AddStores
<1>2. CASE S!AddFails(results) /\ dropped' = dropped \cup In(results)
  <2>1. Within(S!Stored') = Within(S!Stored) /\ up /\ held' = held
    BY <1>2, AddFailsKeeps
  <2>. QED BY <1>2, <2>1
<1>. QED BY <1>1, <1>2 DEF Spools

\* The end of a process: what was being written is among what was dropped or
\* is on the disk, and what was spooled in memory goes with it.
LEMMA CrashSettles ==
    ASSUME TypeOK, HandsMatch, Killed
    PROVE  /\ dropped \subseteq dropped'
           /\ dropped' \subseteq dropped \cup Waiting
           /\ Within(S!Stored') \subseteq Waiting
           /\ OnDisk => Within(S!Stored) \subseteq Within(S!Stored') \cup dropped'
<1>1. CASE S!Crash /\ UNCHANGED dropped
  BY <1>1, CrashKeeps DEF Waiting, Within
<1>2. ASSUME NEW results \in BeingSpooled, S!CrashInAdd(results),
             dropped' = dropped \cup
                  ((Within(S!Stored) \cup In(results)) \ Within(S!Stored'))
      PROVE  /\ dropped \subseteq dropped'
             /\ dropped' \subseteq dropped \cup Waiting
             /\ Within(S!Stored') \subseteq Waiting
             /\ Within(S!Stored) \subseteq Within(S!Stored') \cup dropped'
  <2>1. results \in Batches BY <1>2, BatchesSpooled DEF S!CrashInAdd
  <2>2. PICK e : e.results = results /\ S!Stored' \subseteq S!Stored \cup {e}
    BY <1>2, <2>1, CrashInAddStores DEF Made
  <2>3. Within(S!Stored') \subseteq Within(S!Stored) \cup In(results)
    BY <2>2, WithinFewer, WithinOne
  <2>4. In(results) \subseteq Waiting
    <3>1. CASE results = pending BY <3>1, WaitingIs
    <3>2. ASSUME NEW c \in Checks, loop[c] = "spool", results = <<hand[c]>>
          PROVE  In(results) \subseteq Waiting
      <4>1. hand[c] \in InLoops BY <3>2 DEF InLoops, HandsMatch
      <4>. QED BY <3>2, <4>1, InOne, WaitingIs
    <3>. QED BY <3>1, <3>2 DEF BeingSpooled
  <2>. QED BY <1>2, <2>3, <2>4, WaitingIs
<1>. QED BY <1>1, <1>2 DEF Killed

\* Every step is one of the outbox.
LEMMA OutboxStep ==
    ASSUME IF OnDisk THEN "read" \notin Faults ELSE MaxBatches <= 0,
           TypeOK, HandsMatch, Phases, S!HeldKeepsName, HeadHeld, ReplayKeeps,
           [Next]_vars
    PROVE  ReplayKeeps' /\ [O!Next]_O!vars
<1>. DEFINE W == Within(S!Stored)
<1>0. S!TypeOK BY DEF TypeOK
<1>. USE WaitingIs
<1>1. ASSUME UNCHANGED <<hand, chan, batch, pending, S!Stored, held, produced,
                         received, dropped, lost, stranded>>,
             \/ d \notin {"repost", "remove"} /\ d' \notin {"repost", "remove"}
             \/ d' = d
      PROVE  ReplayKeeps' /\ [O!Next]_O!vars
  <2>1. /\ UNCHANGED <<InLoops, Waiting, GivenUp, W>>
        /\ Posting' = Posting
    BY <1>1 DEF InLoops, GivenUp, Posting, Waiting, InMemory
  <2>2. ReplayKeeps' BY <1>1, <2>1 DEF ReplayKeeps
  <2>. QED BY <1>1, <2>1, <2>2, ResolvesIsOutbox DEF Resolves, Pending
<1>2. ASSUME UNCHANGED <<hand, chan, batch, pending, store, produced, replies,
                         lost, stranded>>,
             \/ d \notin {"repost", "remove"} /\ d' \notin {"repost", "remove"}
             \/ d' = d
      PROVE  ReplayKeeps' /\ [O!Next]_O!vars
  BY <1>1, <1>2 DEF store, spoolVars, replies, S!Stored
<1>3. ASSUME NEW c \in Checks, Complete(c)
      PROVE  ReplayKeeps' /\ [O!Next]_O!vars
  <2>1. /\ \A o \in Checks : hand'[o] = IF o = c THEN produced + 1 ELSE hand[o]
        /\ hand[c] = 0 /\ produced' = produced + 1 /\ produced \in Nat
    BY <1>3, DeliveryAssumption DEF Complete, HandsMatch, TypeOK
  <2>2. /\ UNCHANGED <<chan, batch, pending, S!Stored, held, d, received,
                       dropped, lost, stranded>>
    BY <1>3
       DEF Complete, LoopStep, dispVars, store, spoolVars, replies, outside,
           S!Stored
  <2>3. InLoops' = InLoops \cup {produced'}
    BY <2>1 DEF InLoops
  <2>4. W' = W /\ Posting' = Posting /\ GivenUp' = GivenUp
    BY <2>2 DEF Posting, GivenUp
  <2>5. Pending' = Pending \cup {produced'}
    BY <2>2, <2>3, <2>4 DEF Pending
  <2>6. ReplayKeeps' BY <2>2, <2>4 DEF ReplayKeeps
  <2>7. O!Count BY <2>1, <2>2, <2>4, <2>5 DEF O!Count, Pending, GivenUp
  <2>. QED BY <2>6, <2>7 DEF O!Next
<1>4. ASSUME NEW c \in Checks, Offers(c)
      PROVE  ReplayKeeps' /\ [O!Next]_O!vars
  <2>1. UNCHANGED <<batch, pending, store, produced, replies, lost, stranded, d>>
    BY <1>4 DEF Offers, LoopStep, dispVars, outside
  <2>2. CASE loop[c] = "offer" /\ ToChannel(c)
    <3>1. hand[c] \in Results BY <2>2 DEF HandsMatch, TypeOK
    <3>2. In(chan') = In(chan) \cup {hand[c]}
      BY <2>2, <3>1, InAppend DEF ToChannel, TypeOK
    <3>3. InLoops' \subseteq InLoops /\ InLoops = InLoops' \cup {hand[c]}
      BY <2>2, HandEmptied DEF ToChannel, HandsMatch
    <3>4. UNCHANGED <<S!Stored, held, dropped, received>>
      BY <2>1 DEF store, spoolVars, replies, S!Stored
    <3>5. W' = W /\ Posting' = Posting /\ GivenUp' = GivenUp
      BY <2>1, <3>4 DEF Posting, GivenUp
    <3>6. Pending' = Pending BY <2>1, <3>2, <3>3, <3>5 DEF Pending
    <3>7. ReplayKeeps' BY <2>1, <3>4, <3>5 DEF ReplayKeeps
    <3>. QED BY <2>1, <3>4, <3>5, <3>6, <3>7, ResolvesIsOutbox DEF Resolves
  <2>3. CASE loop[c] = "offer" /\ ToSpool(c)
    BY <1>2, <2>1, <2>3 DEF ToSpool
  <2>. QED BY <1>4, <2>2, <2>3 DEF Offers, Offer
<1>5. ASSUME NEW c \in Checks, SpoolResult(c)
      PROVE  ReplayKeeps' /\ [O!Next]_O!vars
  <2>1. /\ loop[c] = "spool" /\ hand[c] # 0 /\ <<hand[c]>> \in Batches
        /\ Spools(<<hand[c]>>)
    BY <1>5, BatchesSpooled DEF SpoolResult, HandsMatch
  <2>2. /\ held' = held
        /\ W' \subseteq W \cup {hand[c]}
        /\ dropped \subseteq dropped'
        /\ dropped' \subseteq dropped \cup W \cup {hand[c]}
        /\ (W \cup {hand[c]}) \ W' \subseteq dropped'
    BY <2>1, SpoolsSettles, InOne
  <2>3. InLoops' \subseteq InLoops /\ InLoops = InLoops' \cup {hand[c]}
    BY <1>5, <2>1, HandEmptied DEF SpoolResult
  <2>4. UNCHANGED <<chan, batch, pending, produced, received, lost, stranded, d>>
    BY <1>5 DEF SpoolResult, LoopStep, dispVars, replies, outside
  <2>5. Posting' = Posting BY <2>2, <2>4 DEF Posting
  <2>6. ReplayKeeps' BY <2>2, <2>4, <2>5 DEF ReplayKeeps
  <2>7. Resolves
    BY <2>2, <2>3, <2>4, <2>5 DEF Resolves, Pending, GivenUp
  <2>. QED BY <2>6, <2>7, ResolvesIsOutbox
<1>6. ASSUME NEW c \in Checks, LoopReadsDepth(c) \/ LoopStoresDepth(c)
      PROVE  ReplayKeeps' /\ [O!Next]_O!vars
  BY <1>2, <1>6
     DEF LoopReadsDepth, LoopStoresDepth, LoopStep, dispVars, outside
<1>7. CASE FlushTick \/ SeeCancel \/ DispReadsDepth \/ DispStoresDepth
  BY <1>2, <1>7
     DEF FlushTick, SeeCancel, DispReadsDepth, DispStoresDepth, DispStep,
         loopVars, outside, Returned, PostOrReturn, TypeOK
<1>8. CASE Takes /\ (Receive \/ Drain)
  <2>1. UNCHANGED <<hand, pending, store, produced, replies, lost, stranded>>
    BY <1>8 DEF Receive, Drain, Takes, DispStep, loopVars, outside
  <2>2. d \notin {"repost", "remove"} /\ d' \notin {"repost", "remove"}
    BY <1>8 DEF Receive, Drain, AfterDrain
  <2>3. Head(chan) \in Results /\ In(chan) = {Head(chan)} \cup In(chan')
    BY <1>8, InHeadTail, HeadTailProperties DEF Takes, TypeOK
  <2>4. In(batch') = In(batch) \cup {Head(chan)}
    BY <1>8, <2>3, InAppend DEF Takes, TypeOK
  <2>5. /\ UNCHANGED <<S!Stored, held, dropped, received, InLoops, GivenUp, W>>
        /\ Posting = {} /\ Posting' = {}
    BY <2>1, <2>2
       DEF store, spoolVars, replies, S!Stored, InLoops, GivenUp, Posting
  <2>6. Pending' = Pending BY <2>1, <2>3, <2>4, <2>5 DEF Pending
  <2>7. ReplayKeeps' BY <2>2, <2>5 DEF ReplayKeeps
  <2>. QED BY <2>1, <2>5, <2>6, <2>7, ResolvesIsOutbox DEF Resolves
<1>9. CASE Send \/ (Drain /\ ~Takes)
  <2>1. /\ UNCHANGED <<hand, chan, store, produced, replies, lost, stranded>>
        /\ pending' = batch /\ batch' = <<>>
    BY <1>9 DEF Send, Drain, DispStep, loopVars, outside
  <2>2. d \notin {"repost", "remove"} /\ d' \notin {"repost", "remove"}
    BY <1>9 DEF Send, Drain, AfterDrain, AfterSend, PostOrReturn, TypeOK
  <2>3. pending = <<>> BY <1>9 DEF Send, Drain, Phases
  <2>4. In(pending) = {} /\ In(batch') = {} /\ In(pending') = In(batch)
    BY <2>1, <2>3, InEmpty
  <2>5. /\ UNCHANGED <<S!Stored, held, dropped, received, InLoops, GivenUp, W>>
        /\ Posting = {} /\ Posting' = {}
    BY <2>1, <2>2
       DEF store, spoolVars, replies, S!Stored, InLoops, GivenUp, Posting
  <2>6. Pending' = Pending BY <2>1, <2>4, <2>5 DEF Pending
  <2>7. ReplayKeeps' BY <2>2, <2>5 DEF ReplayKeeps
  <2>. QED BY <2>1, <2>5, <2>6, <2>7, ResolvesIsOutbox DEF Resolves
<1>10. CASE ReplayOldest
  <2>1. /\ UNCHANGED <<hand, chan, batch, pending, produced, received, dropped,
                       lost, stranded>>
        /\ d = "oldest" /\ d' \in {"repost", "depth"}
    BY <1>10 DEF ReplayOldest, DispStep, loopVars, outside, replies
  <2>2. S!Stored' = S!Stored /\ held' \in S!Stored \cup {S!NoBatch}
    BY <1>0, <1>10, OldestTakes DEF ReplayOldest
  <2>3. In(held'.results) \subseteq W
    <3>1. In(S!NoBatch.results) = {} BY InEmpty DEF S!NoBatch
    <3>. QED BY <2>2, <3>1 DEF Within
  <2>4. /\ W' = W /\ InLoops' = InLoops /\ GivenUp' = GivenUp
        /\ Posting = {} /\ Posting' \subseteq W
    BY <2>1, <2>2, <2>3 DEF Posting, InLoops, GivenUp
  <2>5. Pending' = Pending BY <2>1, <2>4 DEF Pending
  <2>6. ReplayKeeps' BY <2>1, <2>4 DEF ReplayKeeps
  <2>. QED BY <2>1, <2>4, <2>5, <2>6, ResolvesIsOutbox DEF Resolves
<1>11. CASE RepostOk \/ RepostFails
  <2>1. /\ UNCHANGED <<hand, chan, batch, pending, produced, dropped, lost,
                       stranded, S!Stored>>
        /\ received \subseteq received'
        /\ received' \subseteq received \cup In(held.results)
        /\ d = "repost" /\ d' # "repost"
        /\ d' = "remove" => /\ In(held'.results) \subseteq received'
                            /\ In(held.results) \subseteq received'
        /\ d' # "remove" => RepostFails
    BY <1>11, GiveUpKeeps
       DEF RepostOk, RepostFails, Posted, NotPosted, DispStep, loopVars,
           outside, store, spoolVars, S!Stored
  <2>2. /\ W' = W /\ InLoops' = InLoops /\ GivenUp' = GivenUp
        /\ Posting = In(held.results) /\ Posting' = {}
    BY <2>1 DEF Posting, InLoops, GivenUp
  <2>3. Posting \subseteq W \cup dropped BY DEF ReplayKeeps
  <2>4. Pending' \subseteq Pending /\ Pending \ Pending' \subseteq GivenUp'
    BY <2>1, <2>2, <2>3 DEF Pending, GivenUp
  <2>5. ReplayKeeps' BY <2>1, <2>2 DEF ReplayKeeps
  <2>6. Resolves BY <2>1, <2>2, <2>4 DEF Resolves, Pending
  <2>. QED BY <2>5, <2>6, ResolvesIsOutbox
<1>12. CASE RemoveDelivered
  <2>1. /\ UNCHANGED <<hand, chan, batch, pending, produced, received, dropped,
                       lost, stranded>>
        /\ d = "remove" /\ d' = "oldest"
    BY <1>12 DEF RemoveDelivered, DispStep, loopVars, outside, replies
  <2>2. S!Stored' \subseteq S!Stored /\ S!Stored \ S!Stored' \subseteq {held}
    <3>1. S!Remove /\ held # S!NoBatch
      BY <1>12 DEF RemoveDelivered, S!Remove
    <3>. QED BY <1>0, <3>1, RemoveTakes DEF HeadHeld
  <2>3. W' \subseteq W /\ W \ W' \subseteq In(held.results)
    BY <2>2 DEF Within
  <2>4. /\ InLoops' = InLoops /\ GivenUp' = GivenUp
        /\ Posting = {} /\ Posting' = {}
    BY <2>1 DEF Posting, InLoops, GivenUp
  <2>5. Pending' \subseteq Pending /\ Pending \ Pending' \subseteq received
    BY <2>1, <2>3, <2>4 DEF Pending, ReplayKeeps
  <2>6. ReplayKeeps' BY <2>1, <2>4 DEF ReplayKeeps
  <2>. QED BY <2>1, <2>4, <2>5, <2>6, ResolvesIsOutbox DEF Resolves
<1>13. CASE PostOk \/ PostFails
  <2>1. /\ UNCHANGED <<hand, chan, batch, produced, dropped, lost, stranded,
                       S!Stored>>
        /\ received \subseteq received'
        /\ received' \subseteq received \cup In(pending)
        /\ pending' = pending \/ (pending' = <<>> /\ In(pending) \subseteq received')
        /\ d = "post" /\ d' \in {"select", "spool"}
    BY <1>13
       DEF PostOk, PostFails, Posted, NotPosted, DispStep, loopVars, outside,
           store, spoolVars, S!Stored
  <2>2. /\ W' = W /\ InLoops' = InLoops /\ GivenUp' = GivenUp
        /\ Posting = {} /\ Posting' = {}
    BY <2>1 DEF Posting, InLoops, GivenUp
  <2>3. /\ In(pending') \subseteq In(pending)
        /\ In(pending) \ In(pending') \subseteq received'
    BY <2>1, InEmpty
  <2>4. Pending' \subseteq Pending /\ Pending \ Pending' \subseteq received'
    BY <2>1, <2>2, <2>3 DEF Pending
  <2>5. In(pending) \subseteq Pending BY DEF Pending
  <2>6. ReplayKeeps' BY <2>1, <2>2 DEF ReplayKeeps
  <2>. QED BY <2>1, <2>2, <2>4, <2>5, <2>6, ResolvesIsOutbox DEF Resolves
<1>14. CASE SpoolBatch
  <2>1. /\ d = "spool" /\ d' \notin {"repost", "remove"} /\ pending' = <<>>
        /\ UNCHANGED <<hand, chan, batch, produced, received, lost, stranded>>
        /\ Spools(pending)
    BY <1>14 DEF SpoolBatch, Returned, DispStep, loopVars, outside, replies
  <2>2. pending \in Batches
    BY <2>1, BatchesSpooled DEF Spools, S!Add, S!AddFails
  <2>3. /\ W' \subseteq W \cup In(pending)
        /\ dropped \subseteq dropped'
        /\ dropped' \subseteq dropped \cup W \cup In(pending)
        /\ (W \cup In(pending)) \ W' \subseteq dropped'
    BY <2>1, <2>2, SpoolsSettles
  <2>4. /\ InLoops' = InLoops /\ Posting = {} /\ Posting' = {}
        /\ In(pending') = {}
    BY <2>1, InEmpty DEF InLoops, Posting
  <2>5. ReplayKeeps' BY <2>1, <2>4 DEF ReplayKeeps
  <2>6. Resolves BY <2>1, <2>3, <2>4 DEF Resolves, Pending, GivenUp
  <2>. QED BY <2>5, <2>6, ResolvesIsOutbox
<1>15. CASE BackoffExpires \/ BackendChanges \/ Terminate
  BY <1>2, <1>15
     DEF BackoffExpires, BackendChanges, Terminate, loopVars, dispVars, outside
<1>16. CASE Exit \/ Killed
  <2>1. /\ In(chan') = {} /\ In(batch') = {} /\ In(pending') = {}
        /\ InLoops' = {} /\ d' = "select" /\ produced' = produced
        /\ received' = received
    BY <1>16, InEmpty DEF Exit, Killed, Gone, InLoops
  <2>2. Posting' = {} BY <2>1 DEF Posting
  <2>3. ReplayKeeps' BY <2>1, <2>2 DEF ReplayKeeps
  <2>4. CASE Exit
    <3>1. /\ d = "done" /\ dropped' = dropped
          /\ lost' = lost \cup (IF OnDisk THEN {} ELSE W)
          /\ stranded' = stranded \cup InLoops \cup In(chan)
          /\ W' \subseteq W /\ (OnDisk => W' = W)
      BY <2>4, CrashKeeps, WithinFewer DEF Exit
    <3>2. In(batch) = {} /\ In(pending) = {} /\ Posting = {}
      BY <3>1, InEmpty DEF Phases, Posting
    <3>3. Resolves
      BY <2>1, <2>2, <3>1, <3>2 DEF Resolves, Pending, GivenUp
    <3>. QED BY <2>3, <3>3, ResolvesIsOutbox
  <2>5. CASE Killed
    <3>1. /\ dropped \subseteq dropped' /\ dropped' \subseteq dropped \cup Waiting
          /\ W' \subseteq Waiting /\ (OnDisk => W \subseteq W' \cup dropped')
      BY <2>5, CrashSettles
    <3>2. /\ lost' = lost \cup (InMemory \ W')
          /\ stranded' = stranded
      BY <2>5 DEF Killed
    <3>3. Waiting = InMemory \cup W /\ (~OnDisk => W \subseteq InMemory)
      BY DEF Waiting, InMemory
    <3>4. Posting \subseteq W \cup dropped BY DEF ReplayKeeps
    <3>5. Resolves
      BY <2>1, <2>2, <3>1, <3>2, <3>3, <3>4 DEF Resolves, Pending, GivenUp
    <3>. QED BY <2>3, <3>5, ResolvesIsOutbox
  <2>. QED BY <1>16, <2>4, <2>5
<1>17. CASE Start
  BY <1>1, <1>17, OpenKeeps DEF Start, loopVars, dispVars, replies, outside
<1>18. CASE UNCHANGED vars
  BY <1>2, <1>18 DEF vars, loopVars, dispVars, outside
<1>. QED BY <1>3, <1>4, <1>5, <1>6, <1>7, <1>8, <1>9, <1>10, <1>11, <1>12,
            <1>13, <1>14, <1>15, <1>16, <1>17, <1>18
         DEF Next, Dispatch, HandsOver, Receive

\* What is counted is pending, received or given up.
Accounted == 1..produced \subseteq Pending \cup received \cup GivenUp

\* The outbox loses nothing.
LEMMA AccountedStep ==
    ASSUME TypeOK, Accounted, [O!Next]_O!vars
    PROVE  Accounted'
<1>1. CASE O!Count
  <2>1. /\ produced' = produced + 1 /\ Pending' = Pending \cup {produced'}
        /\ received' = received /\ GivenUp' = GivenUp
    BY <1>1 DEF O!Count, Pending, GivenUp
  <2>2. 1..produced' \subseteq 1..produced \cup {produced'}
    BY <2>1, DeliveryAssumption DEF TypeOK
  <2>. QED BY <2>1, <2>2 DEF Accounted
<1>2. CASE O!Settle
  BY <1>2 DEF O!Settle, Accounted, Pending, GivenUp
<1>3. CASE UNCHANGED O!vars
  BY <1>3 DEF O!vars, Accounted, Pending, GivenUp
<1>. QED BY <1>1, <1>2, <1>3 DEF O!Next

\* And what is posted is in the spool or was dropped.
LEMMA AccountedIsNothingVanished ==
    Accounted /\ ReplayKeeps => NothingVanishes
BY DEF Accounted, ReplayKeeps, NothingVanishes, Pending, GivenUp, Waiting

(***************************************************************************)
(* The theorems                                                            *)
(***************************************************************************)

\* The inductive invariant, which no fault of the spool disturbs: the types,
\* who holds a result and when, where the dispatcher is and what it holds
\* there, and that the results in all these places are different ones.
DeliveryInv ==
    /\ TypeOK
    /\ HandsMatch
    /\ Phases
    /\ Counted
    /\ Apart

\* A new installation has nothing anywhere.
LEMMA DeliveryInit ==
    Init => /\ DeliveryInv /\ Unacked /\ ReplayKeeps /\ Accounted /\ HeldOldest
            /\ O!Init
<1>. SUFFICES ASSUME Init
     PROVE  /\ DeliveryInv /\ Unacked /\ ReplayKeeps /\ Accounted /\ HeldOldest
            /\ O!Init
  OBVIOUS
<1>1. S!TypeOK
  <2>1. S!Init BY DEF Init
  <2>2. <<>> \in Seq(S!Entry) BY EmptySeq
  <2>3. S!IsFiniteSet({}) BY EmptySeq DEF S!IsFiniteSet
  <2>. QED BY <2>1, <2>2, <2>3 DEF S!Init, S!TypeOK
<1>2. TypeOK
  <2>1. /\ loop \in [Checks -> {"wait", "offer", "spool", "depth", "store"}]
        /\ hand \in [Checks -> Results \cup {0}]
        /\ seen \in [Goroutines -> Int] /\ gauge \in Int
    BY DEF Init
  <2>2. <<>> \in Seq(Results) /\ Len(<<>>) = 0 BY EmptySeq
  <2>3. /\ chan \in Seq(Results) /\ batch \in Seq(Results)
        /\ pending \in Seq(Results) /\ Len(chan) = 0
    BY <2>2, Zenon DEF Init
  <2>4. Len(chan) <= ChanCap /\ backoff \in 0..BackoffMax /\ produced \in 0..MaxResults
    BY <2>3, DeliveryAssumption DEF Init
  <2>. QED BY <1>1, <2>1, <2>3, <2>4 DEF Init, TypeOK
<1>3. /\ In(chan) = {} /\ In(batch) = {} /\ In(pending) = {}
      /\ InLoops = {} /\ Posting = {} /\ produced = 0
      /\ \A c \in Checks : hand[c] = 0
  BY InEmpty DEF Init, InLoops, Posting
<1>4. S!Stored = {} /\ Spooled = {S!NoBatch} /\ held = S!NoBatch
  BY DEF Init, S!Init, S!Stored, Spooled
<1>5. Within(S!Stored) = {} /\ Within(Spooled) = {} /\ In(S!NoBatch.results) = {}
  BY <1>4, InEmpty DEF Within, S!NoBatch
<1>6. HandsMatch /\ Phases BY DEF Init, HandsMatch, Phases
<1>7. Counted /\ Apart
  <2>1. Distinct(chan) BY DEF Init, Distinct
  <2>2. Separate(Spooled) BY <1>4 DEF Separate
  <2>. QED BY <1>3, <1>5, <2>1, <2>2 DEF Counted, Apart
<1>8. Unacked BY <1>3, <1>4, <1>5 DEF Init, Unacked
<1>9. ReplayKeeps BY <1>3 DEF Init, ReplayKeeps
<1>10. Accounted BY <1>3 DEF Accounted
<1>11. HeldOldest BY <1>4 DEF HeldOldest
<1>12. O!Init
  BY <1>3, <1>5 DEF Init, O!Init, Waiting, InMemory
<1>. QED BY <1>2, <1>6, <1>7, <1>8, <1>9, <1>10, <1>11, <1>12 DEF DeliveryInv

\* Every step keeps the invariant, whatever fails.
LEMMA DeliveryStep == DeliveryInv /\ [Next]_vars => DeliveryInv'
BY TypeStep, PhasesStep, MovesStep, ApartStep DEF DeliveryInv

\* The inductive invariant in every reachable state: the rest follows from it.
THEOREM DeliveryInvariant == Spec => []DeliveryInv
BY DeliveryInit, DeliveryStep, PTL DEF Spec

\* Every variable of the loops, the dispatcher and the spool keeps its type,
\* whatever fails and whenever the process dies.
THEOREM DeliveryTypeCorrect == Spec => []TypeOK
<1>1. DeliveryInv => TypeOK BY DEF DeliveryInv
<1>. QED BY <1>1, DeliveryInvariant, PTL

\* The loops and the dispatcher together call the spool as its specification
\* allows, so that what is proved of it holds of the agent.
THEOREM UsesSpool == Spec => S!Spec
<1>1. Init => S!Init BY DEF Init
<1>2. DeliveryInv /\ [Next]_vars => [S!Next]_S!vars
  BY SpoolSteps DEF DeliveryInv
<1>. QED BY <1>1, <1>2, DeliveryInvariant, PTL DEF Spec, S!Spec

\* A result is in one pair of hands at a time.
THEOREM HeldByOne == Spec => []OneHolder
<1>1. DeliveryInv => OneHolder BY ApartIsOneHolder DEF DeliveryInv
<1>. QED BY <1>1, DeliveryInvariant, PTL

\* No attempt is made before the backoff has passed.
THEOREM BackoffIsKept == Spec => []NoPostWhileBackingOff
<1>1. DeliveryInv => NoPostWhileBackingOff
  BY DEF DeliveryInv, Phases, NoPostWhileBackingOff
<1>. QED BY <1>1, DeliveryInvariant, PTL

\* A dispatcher that drains sends nothing.
THEOREM DrainSendsNothing == Spec => DrainStaysOffline
<1>1. DeliveryInv /\ [Next]_vars
        => [draining /\ draining' /\ up' => UNCHANGED <<received, acked>>]_vars
  BY OfflineStep DEF DeliveryInv
<1>. QED BY <1>1, DeliveryInvariant, PTL DEF Spec, DrainStaysOffline

\* The batch that is being replayed is the oldest, in every reachable state.
LEMMA AlwaysHeldOldest ==
    ASSUME OnDisk => /\ "clock" \notin Faults
                     /\ "read" \notin Faults \/ "remove" \notin Faults
    PROVE  Spec => [](S!SpoolInv /\ HeldOldest)
<1>1. S!SpoolInv /\ HeldOldest /\ [S!Next]_S!vars => HeldOldest'
  BY HeldOldestStep
<1>2. Init => HeldOldest BY DeliveryInit
<1>3. OnDisk => "clock" \notin Faults OBVIOUS
<1>. QED BY <1>1, <1>2, <1>3, UsesSpool, SpoolInvariantHolds, PTL
         DEF Spec, S!Spec

\* The oldest batch is replayed first, in memory and on disk, whatever the
\* loops add and the cap removes meanwhile.
THEOREM OldestReplayedFirst ==
    ASSUME OnDisk => /\ "clock" \notin Faults
                     /\ "read" \notin Faults \/ "remove" \notin Faults
    PROVE  Spec => []ReplaysOldestFirst
<1>1. S!SpoolInv /\ HeldOldest => ReplaysOldestFirst
  BY HeldIsFirst DEF S!SpoolInv
<1>. QED BY <1>1, AlwaysHeldOldest, PTL

\* Where the files can be removed, and in memory, no process posts a result
\* again that it has seen acknowledged.
THEOREM AcknowledgedOnce ==
    ASSUME OnDisk => "remove" \notin Faults
    PROVE  Spec => []AckedOnce
<1>1. CASE OnDisk
  <2>1. DeliveryInv /\ Unacked /\ [Next]_vars => Unacked'
    BY <1>1, UnackedStep DEF DeliveryInv
  <2>. QED BY <2>1, DeliveryInit, DeliveryInvariant, UnackedOnce, PTL DEF Spec
<1>2. CASE ~OnDisk
  <2>1. DeliveryInv /\ S!SpoolInv /\ HeldOldest /\ Unacked /\ [Next]_vars
          => Unacked'
    BY UnackedStep DEF DeliveryInv
  <2>2. Spec => [](S!SpoolInv /\ HeldOldest) BY <1>2, AlwaysHeldOldest
  <2>. QED BY <2>1, <2>2, DeliveryInit, DeliveryInvariant, UnackedOnce, PTL
           DEF Spec
<1>. QED BY <1>1, <1>2

\* What the outbox rests on, in every reachable state.
LEMMA ReplayAlwaysKeeps ==
    ASSUME IF OnDisk THEN Faults \cap {"clock", "read"} = {} ELSE MaxBatches <= 0
    PROVE  Spec => [](DeliveryInv /\ S!SpoolInv /\ HeadHeld /\ ReplayKeeps)
<1>1. OnDisk => "clock" \notin Faults OBVIOUS
<1>2. DeliveryInv /\ S!SpoolInv /\ HeadHeld /\ ReplayKeeps /\ [Next]_vars
        => ReplayKeeps'
  BY OutboxStep DEF DeliveryInv, S!SpoolInv
<1>. QED BY <1>1, <1>2, DeliveryInit, DeliveryInvariant, UsesSpool,
            SpoolInvariantHolds, HeadAlwaysHeld, PTL DEF Spec

\* The delivery path is the outbox: at least once, or given up, and never again
\* after either.  On disk this needs that what was written can be read back; in
\* memory that no cap takes away a batch that is being replayed.
THEOREM DeliveryIsOutbox ==
    ASSUME IF OnDisk THEN Faults \cap {"clock", "read"} = {} ELSE MaxBatches <= 0
    PROVE  Spec => ImplementsOutbox
<1>1. DeliveryInv /\ S!SpoolInv /\ HeadHeld /\ ReplayKeeps /\ [Next]_vars
        => [O!Next]_O!vars
  BY OutboxStep DEF DeliveryInv, S!SpoolInv
<1>2. Init => O!Init BY DeliveryInit
<1>. QED BY <1>1, <1>2, ReplayAlwaysKeeps, PTL DEF Spec, ImplementsOutbox, O!Spec

\* There, no result that was counted vanishes without a trace.
THEOREM NoneVanishes ==
    ASSUME IF OnDisk THEN Faults \cap {"clock", "read"} = {} ELSE MaxBatches <= 0
    PROVE  Spec => []NothingVanishes
<1>1. DeliveryInv /\ S!SpoolInv /\ HeadHeld /\ ReplayKeeps /\ Accounted
        /\ [Next]_vars => Accounted'
  BY OutboxStep, AccountedStep DEF DeliveryInv, S!SpoolInv
<1>. QED BY <1>1, DeliveryInit, ReplayAlwaysKeeps,
            AccountedIsNothingVanished, PTL DEF Spec

(***************************************************************************)
(* Every result reaches the spool once at most                             *)
(***************************************************************************)

\* The results that have not been handed to the spool or to the backend.
Unspooled == InLoops \cup In(chan) \cup In(batch) \cup In(pending)

\* No more Adds were made than results were counted, with those that are still
\* to come.
Conserved ==
    /\ adds + Cardinality(Unspooled) <= produced
    /\ seq + Cardinality(Unspooled) <= produced

\* The dispatcher posts and spools batches that are not empty, and without a
\* process no goroutine is at work.
AtWork ==
    /\ d \in {"post", "spool"} => pending # <<>>
    /\ ~up => d = "select" /\ \A c \in Checks : loop[c] = "wait"

\* They are finitely many.
LEMMA UnspooledFinite ==
    ASSUME TypeOK, Counted
    PROVE  /\ Unspooled \subseteq 1..produced
           /\ IsFiniteSet(Unspooled) /\ Cardinality(Unspooled) \in Nat
<1>1. InLoops \subseteq 1..produced
  BY DeliveryAssumption DEF InLoops, Counted, TypeOK, Results
<1>2. Unspooled \subseteq 1..produced BY <1>1 DEF Unspooled, Counted
<1>3. produced \in Int BY DEF TypeOK
<1>4. IsFiniteSet(1..produced) BY <1>3, FS_Interval
<1>5. IsFiniteSet(Unspooled) BY <1>2, <1>4, FS_Subset
<1>. QED BY <1>2, <1>5, FS_CardinalityType

\* A move leaves no more of them, unless a run completes.
LEMMA UnspooledMoves ==
    ASSUME TypeOK, Moves
    PROVE  \/ Unspooled' \subseteq Unspooled /\ produced' = produced
           \/ /\ produced' = produced + 1
              /\ Unspooled' \subseteq Unspooled \cup {produced'}
<1>1. CASE Rests BY <1>1 DEF Rests, Unspooled, InLoops
<1>2. CASE Gets
  <2>1. /\ In(chan) = {Head(chan)} \cup In(chan') /\ Head(chan) \in Results
    BY <1>2, InHeadTail, HeadTailProperties DEF Gets, Takes, TypeOK
  <2>2. In(batch') = In(batch) \cup {Head(chan)}
    BY <1>2, <2>1, InAppend DEF Gets, Takes, TypeOK
  <2>. QED BY <1>2, <2>1, <2>2 DEF Gets, Unspooled, InLoops
<1>3. CASE Flushes
  <2>1. In(batch') = {} /\ In(pending') = In(batch)
    BY <1>3, InEmpty DEF Flushes
  <2>. QED BY <1>3, <2>1 DEF Flushes, Unspooled, InLoops
<1>4. CASE Settles
  <2>1. In(pending') = {} BY <1>4, InEmpty DEF Settles
  <2>. QED BY <1>4, <2>1 DEF Settles, Unspooled, InLoops
<1>5. CASE Ends
  <2>1. /\ \A c \in Checks : hand'[c] = 0
        /\ In(chan') = {} /\ In(batch') = {} /\ In(pending') = {}
    BY <1>5, InEmpty DEF Ends, Gone
  <2>. QED BY <1>5, <2>1 DEF Ends, Unspooled, InLoops
<1>6. ASSUME NEW c \in Checks, Completes(c)
      PROVE  /\ produced' = produced + 1
             /\ Unspooled' \subseteq Unspooled \cup {produced'}
  <2>1. \A o \in Checks : hand'[o] = IF o = c THEN produced' ELSE hand[o]
    BY <1>6 DEF Completes, TypeOK
  <2>. QED BY <1>6, <2>1 DEF Completes, Unspooled, InLoops
<1>7. ASSUME NEW c \in Checks, Gives(c)
      PROVE  Unspooled' \subseteq Unspooled /\ produced' = produced
  <2>1. hand[c] \in Results BY <1>7 DEF Gives, TypeOK
  <2>2. In(chan') = In(chan) \cup {hand[c]}
    BY <1>7, <2>1, InAppend DEF Gives, TypeOK
  <2>3. InLoops' \subseteq InLoops /\ hand[c] \in InLoops
    BY <1>7, HandEmptied DEF Gives
  <2>. QED BY <1>7, <2>2, <2>3 DEF Gives, Unspooled
<1>8. ASSUME NEW c \in Checks, LoopSpools(c)
      PROVE  Unspooled' \subseteq Unspooled /\ produced' = produced
  <2>1. InLoops' \subseteq InLoops BY <1>8, HandEmptied DEF LoopSpools
  <2>. QED BY <1>8, <2>1 DEF LoopSpools, Unspooled
<1>. QED BY <1>1, <1>2, <1>3, <1>4, <1>5, <1>6, <1>7, <1>8 DEF Moves

\* A call that adds spends one of them.
Spends ==
    /\ \E x \in Unspooled : Unspooled' \subseteq Unspooled \ {x}
    /\ produced' = produced
    /\ adds' \in {adds, adds + 1} /\ seq' \in {0, seq, seq + 1}

\* These are the steps that add: the others leave the counters of the spool.
LEMMA WhoAdds ==
    ASSUME [Next]_vars
    PROVE  \/ UNCHANGED <<adds, seq>>
           \/ UNCHANGED <<adds, produced>> /\ seq' = 0
           \/ \E c \in Checks : SpoolResult(c)
           \/ SpoolBatch
           \/ Killed /\ \E r \in BeingSpooled : S!CrashInAdd(r)
<1>. USE DEF store, spoolVars
<1>1. CASE Dispatch
  BY <1>1 DEF Dispatch, Receive, FlushTick, SeeCancel, Drain, Send, PostOk,
     PostFails, ReplayOldest, RepostOk, RepostFails, RemoveDelivered,
     DispReadsDepth, DispStoresDepth, S!Oldest, S!Remove, S!GiveUp
<1>2. CASE Exit \/ Killed
  BY <1>2 DEF Exit, Killed, S!Crash, S!Died
<1>3. CASE Start BY <1>3 DEF Start, S!Open
<1>. QED BY <1>1, <1>2, <1>3
     DEF Next, vars, Complete, HandsOver, Offers, LoopReadsDepth,
         LoopStoresDepth, BackoffExpires, BackendChanges, Terminate

\* A loop spends the result in its hand, the dispatcher its batch, and a process
\* that dies in an Add all that it had.
LEMMA SpendsStep ==
    ASSUME TypeOK, HandsMatch, Apart, AtWork, [Next]_vars,
           \/ \E c \in Checks : SpoolResult(c)
           \/ SpoolBatch
           \/ Killed /\ \E r \in BeingSpooled : S!CrashInAdd(r)
    PROVE  Spends
<1>0. ASSUME NEW results, Spools(results)
      PROVE  adds' \in {adds, adds + 1} /\ seq' \in {seq, seq + 1}
  BY <1>0 DEF Spools, S!Add, S!AddDisk, S!AddMem, S!AddFails
<1>1. ASSUME NEW c \in Checks, SpoolResult(c) PROVE Spends
  <2>1. /\ loop[c] = "spool" /\ Spools(<<hand[c]>>)
        /\ hand' = [hand EXCEPT ![c] = 0]
        /\ UNCHANGED <<chan, batch, pending, produced>>
    BY <1>1 DEF SpoolResult, LoopStep, dispVars
  <2>2. hand[c] # 0 /\ hand[c] \in InLoops BY <2>1 DEF HandsMatch, InLoops
  <2>3. \A o \in Checks : hand'[o] = IF o = c THEN 0 ELSE hand[o]
    BY <2>1 DEF TypeOK
  <2>4. InLoops' \subseteq InLoops \ {hand[c]}
    BY <2>2, <2>3 DEF InLoops, Apart
  <2>5. Unspooled' \subseteq Unspooled \ {hand[c]}
    BY <2>1, <2>2, <2>4 DEF Unspooled, Apart
  <2>. QED BY <1>0, <2>1, <2>2, <2>5 DEF Spends, Unspooled
<1>2. CASE SpoolBatch
  <2>1. /\ d = "spool" /\ Spools(pending) /\ pending' = <<>>
        /\ UNCHANGED <<hand, chan, batch, produced>>
    BY <1>2 DEF SpoolBatch, DispStep, loopVars
  <2>2. PICK x : x \in In(pending)
    <3>1. pending # <<>> /\ pending \in Seq(Results)
      BY <2>1 DEF AtWork, TypeOK
    <3>. QED BY <3>1, InHeadTail
  <2>3. In(pending') = {} BY <2>1, InEmpty
  <2>4. x \notin InLoops /\ x \notin In(chan) /\ x \notin In(batch)
    BY <2>2 DEF InLoops, Apart
  <2>5. Unspooled' \subseteq Unspooled \ {x} /\ x \in Unspooled
    BY <2>1, <2>2, <2>3, <2>4 DEF Unspooled, InLoops
  <2>. QED BY <1>0, <2>1, <2>5 DEF Spends
<1>3. ASSUME Killed, NEW r \in BeingSpooled, S!CrashInAdd(r) PROVE Spends
  <2>1. Gone /\ UNCHANGED produced BY <1>3 DEF Killed
  <2>2. Unspooled' = {}
    <3>1. /\ \A c \in Checks : hand'[c] = 0
          /\ In(chan') = {} /\ In(batch') = {} /\ In(pending') = {}
      BY <2>1, InEmpty DEF Gone
    <3>. QED BY <3>1 DEF Unspooled, InLoops
  <2>3. \E x : x \in Unspooled
    <3>1. CASE r = pending
      <4>1. pending # <<>> /\ pending \in Seq(Results)
        BY <1>3, <3>1 DEF S!CrashInAdd, TypeOK
      <4>. QED BY <4>1, InHeadTail DEF Unspooled
    <3>2. ASSUME NEW c \in Checks, loop[c] = "spool" PROVE \E x : x \in Unspooled
      BY <3>2 DEF HandsMatch, Unspooled, InLoops
    <3>. QED BY <3>1, <3>2 DEF BeingSpooled
  <2>4. adds' = adds + 1 /\ seq' = 0 BY <1>3 DEF S!CrashInAdd, S!Died
  <2>. QED BY <2>1, <2>2, <2>3, <2>4 DEF Spends
<1>. QED BY <1>1, <1>2, <1>3

\* So every step keeps the balance.
LEMMA ConservedStep ==
    ASSUME DeliveryInv, AtWork, Conserved, [Next]_vars
    PROVE  Conserved'
<1>1. /\ TypeOK /\ HandsMatch /\ Counted /\ Apart /\ DeliveryInv'
      /\ TypeOK' /\ Counted'
  BY DeliveryStep DEF DeliveryInv
<1>2. /\ IsFiniteSet(Unspooled) /\ Cardinality(Unspooled) \in Nat
      /\ IsFiniteSet(Unspooled') /\ Cardinality(Unspooled') \in Nat
      /\ Unspooled' \subseteq 1..produced'
  <2>1. \A n \in Int : IsFiniteSet(1..n) BY FS_Interval
  <2>2. Unspooled' \subseteq 1..produced' /\ produced' \in Int
    BY <1>1, DeliveryAssumption DEF InLoops, Counted, TypeOK, Results, Unspooled
  <2>3. IsFiniteSet(Unspooled') BY <2>1, <2>2, FS_Subset
  <2>4. Cardinality(Unspooled') \in Nat BY <2>3, FS_CardinalityType
  <2>. QED BY <1>1, <2>2, <2>3, <2>4, UnspooledFinite
<1>3. /\ adds \in Nat /\ seq \in Nat /\ produced \in Nat
      /\ adds + Cardinality(Unspooled) <= produced
      /\ seq + Cardinality(Unspooled) <= produced
  BY <1>1 DEF TypeOK, S!TypeOK, Conserved
<1>4. CASE Spends
  <2>1. PICK x \in Unspooled : Unspooled' \subseteq Unspooled \ {x}
    BY <1>4 DEF Spends
  <2>2. /\ IsFiniteSet(Unspooled \ {x})
        /\ Cardinality(Unspooled \ {x}) = Cardinality(Unspooled) - 1
    BY <1>2, <2>1, FS_RemoveElement
  <2>3. Cardinality(Unspooled') <= Cardinality(Unspooled) - 1
    BY <2>1, <2>2, FS_Subset
  <2>4. /\ produced' = produced
        /\ adds' \in {adds, adds + 1} /\ seq' \in {0, seq, seq + 1}
    BY <1>4 DEF Spends
  <2>5. /\ adds' + Cardinality(Unspooled') <= produced'
        /\ seq' + Cardinality(Unspooled') <= produced'
    BY <1>2, <1>3, <2>3, <2>4
  <2>. QED BY <2>5 DEF Conserved
<1>5. CASE ~Spends
  <2>1. adds' = adds /\ seq' \in {0, seq}
    BY <1>1, <1>5, WhoAdds, SpendsStep
  <2>2. CASE Unspooled' \subseteq Unspooled /\ produced' = produced
    <3>1. Cardinality(Unspooled') <= Cardinality(Unspooled)
      BY <1>2, <2>2, FS_Subset
    <3>2. /\ adds' + Cardinality(Unspooled') <= produced'
          /\ seq' + Cardinality(Unspooled') <= produced'
      BY <1>2, <1>3, <2>1, <2>2, <3>1
    <3>. QED BY <3>2 DEF Conserved
  <2>3. CASE /\ produced' = produced + 1
             /\ Unspooled' \subseteq Unspooled \cup {produced'}
    <3>1. /\ IsFiniteSet(Unspooled \cup {produced'})
          /\ Cardinality(Unspooled \cup {produced'}) <= Cardinality(Unspooled) + 1
      <4>1. PICK E : E = Unspooled OBVIOUS
      <4>2. PICK n : n = produced' OBVIOUS
      <4>3. /\ IsFiniteSet(E \cup {n})
            /\ Cardinality(E \cup {n})
                 = IF n \in E THEN Cardinality(E) ELSE Cardinality(E) + 1
        BY <1>2, <4>1, FS_AddElement
      <4>. QED BY <1>2, <4>1, <4>2, <4>3
    <3>2. Cardinality(Unspooled') <= Cardinality(Unspooled \cup {produced'})
      BY <2>3, <3>1, FS_Subset
    <3>3. Cardinality(Unspooled \cup {produced'}) \in Nat
      BY <3>1, FS_CardinalityType
    <3>4. /\ adds' + Cardinality(Unspooled') <= produced'
          /\ seq' + Cardinality(Unspooled') <= produced'
      BY <1>2, <1>3, <2>1, <2>3, <3>1, <3>2, <3>3
    <3>. QED BY <3>4 DEF Conserved
  <2>. QED BY <1>1, <2>2, <2>3, MovesStep, UnspooledMoves
<1>. QED BY <1>4, <1>5

\* The process ends only when everything in it ends.
LEMMA WhoStops ==
    ASSUME [Next]_vars
    PROVE  up' \/ Gone \/ UNCHANGED <<up, d, loop>>
<1>. USE DEF store, spoolVars
<1>1. CASE Dispatch
  <2>1. up BY <1>1 DEF Dispatch, DispStep, Receive, FlushTick, SeeCancel, Drain,
          Send, PostOk, PostFails, SpoolBatch, ReplayOldest, RepostOk,
          RepostFails, RemoveDelivered, DispReadsDepth, DispStoresDepth
  <2>2. UNCHANGED up
    BY <1>1 DEF Dispatch, Receive, FlushTick, SeeCancel, Drain, Send, PostOk,
       PostFails, SpoolBatch, Spools, ReplayOldest, RepostOk, RepostFails,
       RemoveDelivered, DispReadsDepth, DispStoresDepth, S!Oldest, S!Remove,
       S!GiveUp, S!Add, S!AddFails
  <2>. QED BY <2>1, <2>2
<1>2. ASSUME NEW c \in Checks, Complete(c) \/ HandsOver(c) PROVE up'
  BY <1>2 DEF Complete, HandsOver, Offers, SpoolResult, LoopReadsDepth,
     LoopStoresDepth, LoopStep, Spools, S!Add, S!AddFails
<1>3. CASE Start BY <1>3 DEF Start, S!Open
<1>. QED BY <1>1, <1>2, <1>3
     DEF Next, vars, loopVars, dispVars, BackoffExpires, BackendChanges,
         Terminate, Exit, Killed

\* And the goroutines at work.
LEMMA AtWorkStep ==
    ASSUME TypeOK, Phases, AtWork, [Next]_vars
    PROVE  AtWork'
<1>1. ~up' => d' = "select" /\ \A c \in Checks : loop'[c] = "wait"
  BY WhoStops DEF AtWork, Gone
<1>2. d' \in {"post", "spool"} => pending' # <<>>
  <2>1. CASE UNCHANGED dispVars \/ BackoffExpires \/ Gone
    BY <2>1 DEF dispVars, BackoffExpires, Gone, AtWork
  <2>2. CASE Send BY <2>2 DEF Send, AfterSend, PostOrReturn, TypeOK
  <2>3. CASE Drain BY <2>3 DEF Drain, AfterDrain
  <2>4. CASE PostFails BY <2>4 DEF PostFails, AtWork
  <2>5. CASE SpoolBatch BY <2>5 DEF SpoolBatch, Returned
  <2>6. CASE DispStoresDepth
    BY <2>6 DEF DispStoresDepth, Returned, PostOrReturn, TypeOK
  <2>7. CASE \/ Receive \/ FlushTick \/ SeeCancel \/ PostOk \/ ReplayOldest
             \/ RepostOk \/ RepostFails \/ RemoveDelivered \/ DispReadsDepth
    BY <2>7 DEF Receive, FlushTick, SeeCancel, PostOk, ReplayOldest, RepostOk,
       RepostFails, RemoveDelivered, DispReadsDepth
  <2>. QED BY <2>1, <2>2, <2>3, <2>4, <2>5, <2>6, <2>7, WhoDispatches
           DEF Dispatch
<1>. QED BY <1>1, <1>2 DEF AtWork

\* Both hold from the start.
LEMMA ConservedInvariant == Spec => [](DeliveryInv /\ AtWork /\ Conserved)
<1>1. Init => AtWork /\ Conserved
  <2>. SUFFICES ASSUME Init PROVE AtWork /\ Conserved
    OBVIOUS
  <2>1. Unspooled = {} BY InEmpty DEF Init, Unspooled, InLoops
  <2>2. Cardinality(Unspooled) = 0 BY <2>1, FS_EmptySet
  <2>. QED BY <2>2 DEF Init, S!Init, AtWork, Conserved
<1>2. DeliveryInv /\ AtWork /\ Conserved /\ [Next]_vars
        => AtWork' /\ Conserved'
  BY ConservedStep, AtWorkStep DEF DeliveryInv
<1>. QED BY <1>1, <1>2, DeliveryInvariant, PTL DEF Spec

\* The spool takes each counted result once at most: neither a retry, nor the
\* replay, nor a restart adds one again.
AddedOnce == adds <= produced

\* Each of the adds is of a result of its own, whatever fails and however often
\* the process dies.
THEOREM SpooledOnce == Spec => []AddedOnce
<1>1. DeliveryInv /\ Conserved => AddedOnce
  <2>. SUFFICES ASSUME DeliveryInv, Conserved PROVE AddedOnce
    OBVIOUS
  <2>1. Cardinality(Unspooled) \in Nat BY UnspooledFinite DEF DeliveryInv
  <2>2. adds \in Nat /\ produced \in Nat /\ adds + Cardinality(Unspooled) <= produced
    BY DEF DeliveryInv, TypeOK, S!TypeOK, Conserved
  <2>. QED BY <2>1, <2>2 DEF AddedOnce
<1>. QED BY <1>1, ConservedInvariant, PTL

\* A goroutine that is about to spool finds the spool ready: the process runs,
\* what it spools is a batch, no bound of the model is in the way, and the call
\* ends, with or without the faults of the file system and the clock.
SpoolReady ==
    \A results \in BeingSpooled :
       /\ up /\ results \in Batches
       /\ adds < MaxAdds /\ seq < MaxAdds
       /\ SP!CallsEnd

\* So a check loop that falls back to the spool is never held up by it, for any
\* number of loops: the safety half of LoopsNeverBlock.
THEOREM SpoolNeverBlocks ==
    ASSUME MaxResults <= MaxAdds, MaxNano >= 1
    PROVE  Spec => []SpoolReady
<1>1. DeliveryInv /\ AtWork /\ Conserved /\ SP!CallsEnd => SpoolReady
  <2>. SUFFICES ASSUME DeliveryInv, AtWork, Conserved, SP!CallsEnd,
                       NEW results \in BeingSpooled
       PROVE  up /\ results \in Batches /\ adds < MaxAdds /\ seq < MaxAdds
    BY DEF SpoolReady
  <2>0. TypeOK /\ HandsMatch BY DEF DeliveryInv
  <2>1. /\ up /\ results # <<>> /\ \E x : x \in Unspooled
    <3>1. CASE results = pending /\ d = "spool"
      <4>1. pending # <<>> /\ pending \in Seq(Results)
        BY <2>0, <3>1 DEF AtWork, TypeOK
      <4>. QED BY <2>0, <3>1, <4>1, InHeadTail DEF AtWork, Unspooled, TypeOK
    <3>2. ASSUME NEW c \in Checks, loop[c] = "spool", results = <<hand[c]>>
          PROVE  up /\ results # <<>> /\ \E x : x \in Unspooled
      <4>1. up BY <2>0, <3>2 DEF AtWork, TypeOK
      <4>. QED BY <2>0, <3>2, <4>1 DEF HandsMatch, Unspooled, InLoops
    <3>. QED BY <3>1, <3>2 DEF BeingSpooled
  <2>2. results \in Batches BY <2>0, <2>1, BatchesSpooled
  <2>3. IsFiniteSet(Unspooled) /\ Cardinality(Unspooled) \in Nat
    BY UnspooledFinite DEF DeliveryInv
  <2>4. Cardinality(Unspooled) # 0 BY <2>1, <2>3, FS_EmptySet
  <2>5. /\ adds \in Nat /\ seq \in Nat /\ produced \in Nat
        /\ produced <= MaxResults
        /\ adds + Cardinality(Unspooled) <= produced
        /\ seq + Cardinality(Unspooled) <= produced
    BY DEF DeliveryInv, TypeOK, S!TypeOK, Conserved
  <2>6. adds < MaxAdds /\ seq < MaxAdds
    BY <2>3, <2>4, <2>5, DeliveryAssumption
  <2>. QED BY <2>1, <2>2, <2>6
<1>2. SP!Spec => []SP!CallsEnd BY SpoolConstants, SP!CallsAlwaysEnd
<1>3. Spec => []SP!CallsEnd
  BY <1>2, UsesSpool, SameInit, SameNext, PTL DEF S!Spec, SP!Spec
<1>. QED BY <1>1, <1>3, ConservedInvariant, PTL

(***************************************************************************)
(* The spool of the running agent is the bounded queue                     *)
(***************************************************************************)

\* Inside the agent, whatever its goroutines do, the spool is the bounded FIFO:
\* what is proved of the spool alone holds of the spool in use.
THEOREM AgentSpoolIsFifo ==
    ASSUME IF OnDisk THEN Faults \cap {"clock", "remove", "list"} = {}
                     ELSE MaxBatches <= 0
    PROVE  Spec => SP!ImplementsFifo
<1>1. SP!Spec => SP!ImplementsFifo BY SpoolConstants, SP!SpoolIsFifo
<1>2. Spec => SP!Spec BY UsesSpool, SameInit, SameNext, PTL DEF S!Spec, SP!Spec
<1>. QED BY <1>1, <1>2

\* And the depth the agent reads, to replay or to return at once, never hides a
\* batch, under every fault.
THEOREM AgentDepthNeverLow == Spec => []SP!DepthNotLow
<1>1. SP!Spec => []SP!DepthNotLow BY SpoolConstants, SP!DepthNeverLow
<1>2. Spec => SP!Spec BY UsesSpool, SameInit, SameNext, PTL DEF S!Spec, SP!Spec
<1>. QED BY <1>1, <1>2, PTL

(***************************************************************************)
(* The drain comes to its end                                              *)
(***************************************************************************)

\* Where the dispatcher may go from each of its places while it drains.
Later ==
    [drain |-> {"spool", "done"}, spool |-> {"depth", "done"},
     depth |-> {"store"}, store |-> {"done"}, done |-> {}]

\* Once the dispatcher has seen the cancelled context no run is counted any
\* more, and the loops have only what they hold to put in its way; it moves
\* towards its end, or takes one more result out of the channel.
DrainAdvances ==
    [][draining /\ draining' =>
          /\ UNCHANGED produced /\ InLoops' \subseteq InLoops
          /\ \/ UNCHANGED <<d, batch, pending>>
             \/ d = "drain" /\ d' = "drain" /\ Takes
             \/ d' \in Later[d]]_vars

\* It drains because the context is cancelled.
DrainCancelled == draining => cancelled

\* Nothing but the end of the process takes the cancellation back.
LEMMA DrainCancelledStep == DrainCancelled /\ [Next]_vars => DrainCancelled'
<1>. SUFFICES ASSUME DrainCancelled, [Next]_vars PROVE DrainCancelled'
  OBVIOUS
<1>1. CASE Dispatch
  <2>1. UNCHANGED cancelled
    BY <1>1 DEF Dispatch, DispStep, outside, Receive, FlushTick, SeeCancel,
       Drain, Send, PostOk, PostFails, SpoolBatch, ReplayOldest, RepostOk,
       RepostFails, RemoveDelivered, DispReadsDepth, DispStoresDepth
  <2>2. SeeCancel \/ UNCHANGED draining
    BY <1>1 DEF Dispatch, Receive, FlushTick, Drain, Send, PostOk, PostFails,
       SpoolBatch, ReplayOldest, RepostOk, RepostFails, RemoveDelivered,
       DispReadsDepth, DispStoresDepth
  <2>. QED BY <2>1, <2>2 DEF DrainCancelled, SeeCancel
<1>2. CASE Gone BY <1>2 DEF Gone, DrainCancelled
<1>3. CASE Terminate BY <1>3 DEF Terminate, DrainCancelled
<1>4. CASE UNCHANGED <<draining, cancelled>> BY <1>4 DEF DrainCancelled
<1>. QED BY <1>1, <1>2, <1>3, <1>4
     DEF Next, vars, outside, dispVars, Complete, HandsOver, Offers, SpoolResult,
         LoopReadsDepth, LoopStoresDepth, LoopStep, BackoffExpires,
         BackendChanges, Exit, Killed, Start

\* What each step may do meanwhile.
LEMMA DrainStep ==
    ASSUME TypeOK, HandsMatch, Phases, DrainCancelled, [Next]_vars,
           draining, draining'
    PROVE  /\ UNCHANGED produced /\ InLoops' \subseteq InLoops
           /\ \/ UNCHANGED <<d, batch, pending>>
              \/ d = "drain" /\ d' = "drain" /\ Takes
              \/ d' \in Later[d]
<1>0. /\ cancelled
      /\ d \in {"drain", "spool", "depth", "store", "done"}
      /\ d \in {"depth", "store"} => outcome = "spooled"
      /\ ~Gone
  BY DEF DrainCancelled, Phases, Gone
<1>1. CASE Dispatch
  <2>1. UNCHANGED <<produced, hand>>
    BY <1>1 DEF Dispatch, DispStep, loopVars, Receive, FlushTick, SeeCancel,
       Drain, Send, PostOk, PostFails, SpoolBatch, ReplayOldest, RepostOk,
       RepostFails, RemoveDelivered, DispReadsDepth, DispStoresDepth
  <2>2. Drain \/ SpoolBatch \/ DispReadsDepth \/ DispStoresDepth
    BY <1>0, <1>1 DEF Dispatch, Receive, FlushTick, SeeCancel, Send, PostOk,
       PostFails, ReplayOldest, RepostOk, RepostFails, RemoveDelivered
  <2>3. CASE Drain
    BY <2>1, <2>3 DEF Drain, AfterDrain, Later, InLoops
  <2>4. CASE SpoolBatch
    BY <2>1, <2>4 DEF SpoolBatch, Returned, Later, InLoops
  <2>5. CASE DispReadsDepth
    BY <2>1, <2>5 DEF DispReadsDepth, Later, InLoops
  <2>6. CASE DispStoresDepth
    <3>1. d = "store" /\ outcome = "spooled" /\ d' = Returned
      BY <1>0, <2>6 DEF DispStoresDepth
    <3>. QED BY <2>1, <3>1 DEF Returned, Later, InLoops
  <2>. QED BY <2>1, <2>2, <2>3, <2>4, <2>5, <2>6 DEF InLoops
<1>2. ASSUME NEW c \in Checks, HandsOver(c)
      PROVE  UNCHANGED <<produced, d, batch, pending>> /\ InLoops' \subseteq InLoops
  <2>1. UNCHANGED <<produced, d, batch, pending>>
    BY <1>2 DEF HandsOver, Offers, SpoolResult, LoopReadsDepth, LoopStoresDepth,
       LoopStep, dispVars
  <2>2. hand' = hand \/ hand' = [hand EXCEPT ![c] = 0]
    BY <1>2 DEF HandsOver, Offers, Offer, ToChannel, ToSpool, SpoolResult,
       LoopReadsDepth, LoopStoresDepth
  <2>3. \A o \in Checks : hand'[o] = hand[o] \/ hand'[o] = 0
    BY <2>2 DEF TypeOK
  <2>. QED BY <2>1, <2>3 DEF InLoops
<1>3. ASSUME NEW c \in Checks, Complete(c) PROVE FALSE
  BY <1>0, <1>3 DEF Complete
<1>4. CASE BackoffExpires \/ BackendChanges \/ Terminate \/ Start \/ UNCHANGED vars
  BY <1>4 DEF BackoffExpires, BackendChanges, Terminate, Start, vars, loopVars,
     dispVars, InLoops
<1>. QED BY <1>0, <1>1, <1>2, <1>3, <1>4 DEF Next, Exit, Killed

\* So the drain ends after finitely many steps of the dispatcher: as many results
\* as the channel and the loops hold, and four more.
THEOREM DrainEnds == Spec => DrainAdvances
<1>. DEFINE Advances ==
       draining /\ draining' =>
          /\ UNCHANGED produced /\ InLoops' \subseteq InLoops
          /\ \/ UNCHANGED <<d, batch, pending>>
             \/ d = "drain" /\ d' = "drain" /\ Takes
             \/ d' \in Later[d]
<1>1. Init => DrainCancelled BY DEF Init, DrainCancelled
<1>2. DeliveryInv /\ DrainCancelled /\ [Next]_vars => [Advances]_vars
  BY DrainStep DEF DeliveryInv
<1>. QED BY <1>1, <1>2, DrainCancelledStep, DeliveryInvariant, PTL
         DEF Spec, DrainAdvances
=============================================================================
