---------------------------- MODULE BoundedFifo ----------------------------
(***************************************************************************)
(* What the spool promises its callers, with no files, names, clocks or    *)
(* counters: a queue of batches, numbered in the order they were put, that *)
(* keeps the newest Cap of them and hands them out oldest first.           *)
(***************************************************************************)
EXTENDS Integers, FiniteSets

CONSTANTS
    Durable,  \* the queue outlives the process
    Cap       \* zero or less: no cap

VARIABLES
    queue,  \* the batches waiting, by number
    taken,  \* the batch being delivered, 0 if none
    put     \* the number of the last batch put

vars == <<queue, taken, put>>

Init == queue = {} /\ taken = 0 /\ put = 0

\* rest is S without some of its smallest elements.
DropsSmallest(S, rest) ==
    /\ rest \subseteq S
    /\ \A lost \in S \ rest, kept \in rest : lost < kept

\* Putting a batch drops the oldest ones, and no more than the cap requires.
Put ==
    /\ put' = put + 1
    /\ \E rest \in SUBSET (queue \cup {put'}) :
         /\ DropsSmallest(queue \cup {put'}, rest)
         /\ Cap > 0 => Cardinality(rest) <= Cap
         /\ rest = queue \cup {put'} \/ Cardinality(rest) = Cap
         /\ queue' = rest
    /\ UNCHANGED taken

\* The oldest readable batch is taken.  Unreadable ones are discarded, and
\* only those before it.
Take ==
    /\ taken = 0
    /\ taken' \in queue \cup {0}
    /\ \E unreadable \in SUBSET queue :
         /\ queue' = queue \ unreadable
         /\ taken' # 0 => \A n \in queue : n < taken' <=> n \in unreadable
         /\ taken' = 0 => queue' = {}
    /\ UNCHANGED put

\* The taken batch was delivered, and is discarded.
Discard ==
    /\ taken # 0
    /\ queue' = queue \ {taken}
    /\ taken' = 0
    /\ UNCHANGED put

\* The taken batch was not delivered, and stays.
Return ==
    /\ taken # 0
    /\ taken' = 0
    /\ UNCHANGED <<queue, put>>

\* The process dies, possibly after a batch was put and before the cap was
\* restored.
Restart ==
    /\ taken' = 0
    /\ \/ /\ queue' = IF Durable THEN queue ELSE {}
          /\ UNCHANGED put
       \/ /\ Durable
          /\ put' = put + 1
          /\ \E rest \in SUBSET (queue \cup {put'}) :
               /\ DropsSmallest(queue \cup {put'}, rest)
               /\ rest # queue \cup {put'} => Cap > 0 /\ Cardinality(rest) >= Cap
               /\ queue' = rest

Next == Put \/ Take \/ Discard \/ Return \/ Restart

Spec == Init /\ [][Next]_vars
=============================================================================
