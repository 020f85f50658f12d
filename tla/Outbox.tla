------------------------------- MODULE Outbox -------------------------------
(***************************************************************************)
(* What the delivery path promises for the results it has counted: at      *)
(* least once, or given up.  A result is pending until the backend has it  *)
(* or it is given up, may be received again while it is pending, and comes *)
(* back from neither.  Module Delivery implements this.                    *)
(***************************************************************************)
EXTENDS Integers

VARIABLES
    counted,   \* results counted so far; they are numbered
    pending,   \* those that may still be delivered
    received,  \* those the backend has
    gone       \* those that were given up

vars == <<counted, pending, received, gone>>

Init == counted = 0 /\ pending = {} /\ received = {} /\ gone = {}

Count ==
    /\ counted' = counted + 1
    /\ pending' = pending \cup {counted'}
    /\ UNCHANGED <<received, gone>>

\* Some pending results are received, some are given up, and some of either
\* are pending no longer.
Settle ==
    /\ received \subseteq received' /\ received' \subseteq received \cup pending
    /\ gone \subseteq gone' /\ gone' \subseteq gone \cup pending
    /\ pending' \subseteq pending
    /\ pending \ pending' \subseteq received' \cup gone'
    /\ UNCHANGED counted

Next == Count \/ Settle

Spec == Init /\ [][Next]_vars
=============================================================================
