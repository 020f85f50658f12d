----------------------------- MODULE MCStartup -----------------------------
(* Startup on a small instance. *)
EXTENDS Startup

Ints(p, m, c) == [poll |-> p, spoolMax |-> m, maxConcurrent |-> c]

AllUnset == Ints(Unset, Unset, Unset)

URLs == {NoURL} \cup [scheme : {"https", "http", "typo"}, host : {"none", "loopback", "other"}]

\* Every combination of what chooses the source, and, where a backend serves, of
\* the integers: unset, zero, negative, one that fits and one that does not.
MCEnvs ==
    [url : URLs, token : {"", "secret"}, tokenFile : {"unset", "unreadable", "blank", "secret"},
     checksFile : BOOLEAN, spoolDir : {"", "usable", "unusable"}, ints : {AllUnset}]
    \cup
    [url : {[scheme |-> "https", host |-> "other"]}, token : {"secret"}, tokenFile : {"unset"},
     checksFile : {FALSE}, spoolDir : {"usable"},
     ints : {Ints(p, m, 2) : p \in {-1, 0, 2, 3}, m \in {-1, 0, 2}}]

\* None, a negative one, one that fits in 8 units of 3 and two that do not: 3 wraps
\* to a negative duration, 6 to a positive one.
MCPolls == {-1, 0, 2, 3, 6}
=============================================================================
