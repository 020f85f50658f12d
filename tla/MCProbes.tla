------------------------------ MODULE MCProbes ------------------------------
(* Probes on a small instance. *)
EXTENDS Probes

Target(t, ip) ==
    [type |-> t, target |-> ip, timeoutMs |-> 2, degradedAboveMs |-> 0,
     expected |-> 0, insecure |-> FALSE, warnDays |-> 0]

\* Timeouts and thresholds in milliseconds: none, some that fit in 16 units of
\* 2, and one that wraps to a negative duration.
TcpChecks ==
    {[Target("tcp", "a") EXCEPT !.timeoutMs = t, !.degradedAboveMs = d] :
        t \in {0, 2, 9}, d \in {0, 1, 2, 9}}

HttpChecks ==
    {[Target("http", "a") EXCEPT !.expected = e, !.insecure = i] :
        e \in {0, 200, 301, 404}, i \in BOOLEAN}

TlsChecks ==
    {[Target("tls", "a") EXCEPT !.warnDays = w, !.insecure = i, !.degradedAboveMs = 1] :
        w \in {0, 3, 5}, i \in BOOLEAN}

\* The agent pings its own address too.
PingChecks == {[Target("ping", ip) EXCEPT !.degradedAboveMs = 1] : ip \in {"me", "a"}}

MCChecks == TcpChecks \cup HttpChecks \cup TlsChecks \cup PingChecks

Shown == [reached |-> TRUE, trusted |-> TRUE, notBefore |-> -1, notAfter |-> 15,
          latency |-> 1, first |-> 200, final |-> 200]

TcpSights == {[Shown EXCEPT !.reached = r, !.latency = t] : r \in BOOLEAN, t \in 0..6}

\* First and final status: a redirect leads to a page, nowhere, or is the end.
HttpSights ==
    {[Shown EXCEPT !.trusted = t, !.first = codes[1], !.final = codes[2]] :
        t \in BOOLEAN,
        codes \in {<<200, 200>>, <<404, 404>>, <<301, 200>>, <<302, 301>>, <<301, 404>>, <<301, 0>>}}

\* A day is 4 units: the validity ends before, at and after the edges.
TlsSights ==
    {[Shown EXCEPT !.trusted = t, !.notBefore = b, !.notAfter = a, !.latency = d] :
        t \in BOOLEAN, b \in {-1, 1}, a \in {-1, 0, 1, 11, 12}, d \in {1, 3}}

MCSights == [http |-> HttpSights, tcp |-> TcpSights, tls |-> TlsSights]

\* Another program pings the same target with the same numbers; a router reports
\* a target as unreachable.
MCStrays ==
    {[kind |-> "reply", from |-> "a", to |-> "me", seq |-> n, data |-> -1, echo |-> 0] : n \in 0..2}
    \cup {[kind |-> "unreachable", from |-> "r", to |-> "me", seq |-> 1, data |-> 1, echo |-> 0]}
=============================================================================
