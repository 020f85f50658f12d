----------------------------- MODULE MCDelivery -----------------------------
(* Delivery on small instances. *)
EXTENDS Delivery, TLC

CONSTANTS c1, c2

\* The check loops are interchangeable: no action or safety property names one.
Symmetry == Permutations(Checks)
=============================================================================
