---------------------------- MODULE MCScheduler ----------------------------
(* Scheduler on small instances: two checks, one of them in two versions. *)
EXTENDS Scheduler

a1 == [id |-> "a", spec |-> "1", valid |-> TRUE]
a2 == [id |-> "a", spec |-> "2", valid |-> TRUE]
b1 == [id |-> "b", spec |-> "1", valid |-> TRUE]
badB == [id |-> "b", spec |-> "bad", valid |-> FALSE]

\* A check that changes beside one that stays, in another place of the list, with
\* a repeated id and an entry that is not well-formed.
MCConfigs == {<<a1, b1>>, <<b1, a1, a2, badB>>}
\* One check in two versions, which may also go, for the longer interleavings.
MCOneCheck == {<<a1>>, <<a2>>, <<>>}
=============================================================================
