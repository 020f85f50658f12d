------------------------------ MODULE MCSpool ------------------------------
(* Spool on a small instance: one payload, since no property tells two apart. *)
EXTENDS Spool

MCBatches == {<<"r">>}
=============================================================================
