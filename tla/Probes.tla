------------------------------- MODULE Probes -------------------------------
(***************************************************************************)
(* internal/checks: what one run of a check reports.  An http, tcp or tls  *)
(* probe is one step, from what the target shows to the result; an echo of *)
(* a ping stays under way while other loops send theirs and packets of any *)
(* age and origin arrive at its socket.                                    *)
(***************************************************************************)
EXTENDS Integers

CONSTANTS
    Loops,      \* check loops that may ping at the same time
    Idle,       \* a loop that does not wait for a reply
    Checks,     \* checks that may be run
    Sights,     \* what a target may show a probe of each type
    Self,       \* the address of the agent
    Strays,     \* packets of other programs, which may be read at any time
    Latencies,  \* round-trip times
    SeqSpace,   \* sequence numbers an echo can carry, 2^16
    Window,     \* echoes sent while a packet, or a ping, is alive at most
    MaxEchoes,  \* bound: echoes sent
    Ms, Day,    \* a millisecond and a day, in units of time.Duration
    Half,       \* time.Duration holds -Half..Half - 1
    DefaultTimeout,
    NoResult    \* no run has just ended

ASSUME ProbesAssumption ==
    /\ Idle \notin [check : Checks, seq : Nat, echo : Nat]
    /\ SeqSpace \in Nat \ {0}
    /\ Window \in 1..SeqSpace
    /\ MaxEchoes \in Nat
    /\ {Ms, Day, Half, DefaultTimeout} \subseteq Nat \ {0}
    /\ Latencies \subseteq Nat
    /\ \A c \in Checks :
         /\ c.type \in {"http", "tcp", "tls", "ping"}
         /\ {c.timeoutMs, c.degradedAboveMs, c.warnDays} \subseteq Int
    /\ \A t \in {"http", "tcp", "tls"} : \A s \in Sights[t] : s.latency \in Nat
    \* no other program's echo carries the marker of an echo of this process
    /\ \A p \in Strays : p.echo = 0 /\ (p.kind = "reply" => p.data \notin Nat)

VARIABLES
    ping,     \* for each loop the echo it waits for, or Idle
    pingSeq,  \* echoes sent by this process
    net,      \* packets that may still arrive somewhere
    last      \* the result that was just returned: check, what it saw, outcome

vars == <<ping, pingSeq, net, last>>

Statuses == {"up", "degraded", "down"}

TypeOK ==
    /\ \A l \in Loops : ping[l] # Idle =>
         /\ ping[l].check \in Checks
         /\ ping[l].seq \in 0..(SeqSpace - 1)
         /\ ping[l].echo \in 1..pingSeq
    /\ pingSeq \in 0..MaxEchoes
    /\ \A p \in net : p.kind \in {"request", "reply"} /\ p.echo \in 1..pingSeq
    /\ last # NoResult => last.res.status \in Statuses /\ last.res.latencyMs \in Nat

Init ==
    /\ ping = [l \in Loops |-> Idle]
    /\ pingSeq = 0
    /\ net = {}
    /\ last = NoResult

-----------------------------------------------------------------------------
(* Outcomes *)

\* A product of an int and a unit, as a time.Duration.
Duration(n, unit) == ((n * unit + Half) % (2 * Half)) - Half

Timeout(c) == IF c.timeoutMs > 0 THEN Duration(c.timeoutMs, Ms) ELSE DefaultTimeout

\* An answer after this long still counts.
InTime(c, latency) == latency <= Timeout(c) /\ Timeout(c) > 0

ClassifyLatency(c, latency) ==
    IF c.degradedAboveMs > 0 /\ latency > Duration(c.degradedAboveMs, Ms)
    THEN "degraded" ELSE "up"

\* When a probe gives up the time it took is that of its timeout.
GaveUpAfter(c, latency) ==
    IF InTime(c, latency) THEN latency ELSE IF Timeout(c) > 0 THEN Timeout(c) ELSE 0

Outcome(status, latency) ==
    [status |-> status, latencyMs |-> latency \div Ms, panicked |-> FALSE]

\* The verification that InsecureSkipVerify skips.
Verified(s) == s.trusted /\ s.notBefore <= 0 /\ 0 <= s.notAfter

Handshakes(c, s) == s.reached /\ (c.insecure \/ Verified(s)) /\ InTime(c, s.latency)

RunTCP(c, s) ==
    IF s.reached /\ InTime(c, s.latency)
    THEN Outcome(ClassifyLatency(c, s.latency), s.latency)
    ELSE Outcome("down", GaveUpAfter(c, s.latency))

\* A check that expects a redirect does not follow it.
Answered(c, s) == IF c.expected \in 300..399 THEN s.first ELSE s.final

StatusMatches(expected, got) == IF expected = 0 THEN got \in 200..299 ELSE got = expected

\* A final status of 0 stands for redirects that lead nowhere.
RunHTTP(c, s) ==
    IF Handshakes(c, s) /\ StatusMatches(c.expected, Answered(c, s))
    THEN Outcome(ClassifyLatency(c, s.latency), s.latency)
    ELSE Outcome("down", GaveUpAfter(c, s.latency))

\* A slip in evaluateLeaf: the validity is left to the handshake.
LeafWarningOnly(c, s) ==
    IF c.warnDays > 0 /\ s.notAfter < Duration(c.warnDays, Day)
    THEN "degraded" ELSE ClassifyLatency(c, s.latency)

\* Sub saturates, which is of no consequence here.
EvaluateLeaf(c, s) ==
    IF s.notAfter <= 0 \/ 0 < s.notBefore THEN "down"
    ELSE IF c.warnDays > 0 /\ s.notAfter < Duration(c.warnDays, Day) THEN "degraded"
    ELSE ClassifyLatency(c, s.latency)

RunTLS(c, s) ==
    IF Handshakes(c, s)
    THEN Outcome(EvaluateLeaf(c, s), s.latency)
    ELSE Outcome("down", GaveUpAfter(c, s.latency))

-----------------------------------------------------------------------------
(* Probes of one step *)

Ends(c, s, outcome) == last' = [check |-> c, saw |-> s, res |-> outcome]

\* The loop has the result.  No other step is taken before: results do not meet
\* inside this package.
Returned ==
    /\ last # NoResult
    /\ last' = NoResult
    /\ UNCHANGED <<ping, pingSeq, net>>

\* A panic is recovered and reported.
Panics(c) == Ends(c, [latency |-> 0], [Outcome("down", 0) EXCEPT !.panicked = TRUE])

\* checks with a type of none of these are dropped by validateChecks.
Probe ==
    /\ \E c \in {d \in Checks : d.type # "ping"} :
         \/ \E s \in Sights[c.type] :
              Ends(c, s, CASE c.type = "http" -> RunHTTP(c, s)
                           [] c.type = "tcp"  -> RunTCP(c, s)
                           [] c.type = "tls"  -> RunTLS(c, s))
         \/ Panics(c)
    /\ UNCHANGED <<ping, pingSeq, net>>

-----------------------------------------------------------------------------
(* ping *)

\* A slip in runPing: the number is not cut to the width of the field.
SeqUncut(n) == n

Seq(n) == n % SeqSpace

\* Packet lifetimes and timeouts: what belongs to an echo is gone when Window
\* others have been sent after it.
Alive(echo) == pingSeq + 1 - echo < Window

\* The payload names the sequence number.
Send(l) ==
    /\ ping[l] = Idle
    /\ pingSeq < MaxEchoes
    /\ \A other \in Loops : ping[other] # Idle => Alive(ping[other].echo)
    /\ LET n == pingSeq + 1
       IN \E c \in {d \in Checks : d.type = "ping"} :
            /\ ping' = [ping EXCEPT ![l] = [check |-> c, seq |-> Seq(n), echo |-> n]]
            /\ net' = {p \in net : Alive(p.echo)} \cup
                      {[kind |-> "request", from |-> Self, to |-> c.target,
                        seq |-> Seq(n) % SeqSpace, data |-> Seq(n), echo |-> n]}
    /\ pingSeq' = pingSeq + 1
    /\ UNCHANGED last

\* The name does not resolve, no socket, no route: nothing is sent, whether or
\* not a number was taken for it.
SendFails(l) ==
    /\ ping[l] = Idle
    /\ \E c \in {d \in Checks : d.type = "ping"} : Ends(c, [latency |-> 0], Outcome("down", 0))
    /\ pingSeq' \in {pingSeq, pingSeq + 1} /\ pingSeq' <= MaxEchoes
    /\ UNCHANGED <<ping, net>>

\* A target answers a request, at some time, any number of times.
Answer ==
    /\ \E p \in net :
         /\ p.kind = "request"
         /\ net' = net \cup {[p EXCEPT !.kind = "reply", !.from = p.to, !.to = Self]}
    /\ UNCHANGED <<ping, pingSeq, last>>

\* A slip in runPing: any reply of the target is taken.
AcceptsAnyReply(w, p) == p.from = w.check.target /\ p.kind = "reply"

Accepts(w, p) ==
    /\ p.from = w.check.target
    /\ p.kind = "reply"
    /\ p.seq = w.seq /\ p.data = w.seq

\* Any socket of the agent may be given any packet, its own requests included.
Seen == {p \in net \cup Strays : p.to = Self}

\* What Accepts refuses is read and dropped, and the loop reads on.
Receive(l) ==
    /\ ping[l] # Idle
    /\ \E p \in Seen, latency \in Latencies :
         /\ Accepts(ping[l], p)
         /\ InTime(ping[l].check, latency)
         /\ Ends(ping[l].check, [latency |-> latency],
                 Outcome(ClassifyLatency(ping[l].check, latency), latency))
    /\ ping' = [ping EXCEPT ![l] = Idle]
    /\ UNCHANGED <<pingSeq, net>>

\* The deadline passes or the socket fails, at some time; or the probe panics.
NoReply(l) ==
    /\ ping[l] # Idle
    /\ \/ \E latency \in Latencies :
            Ends(ping[l].check, [latency |-> latency], Outcome("down", latency))
       \/ Panics(ping[l].check)
    /\ ping' = [ping EXCEPT ![l] = Idle]
    /\ UNCHANGED <<pingSeq, net>>

Next ==
    \/ /\ last = NoResult
       /\ \/ Probe \/ Answer
          \/ \E l \in Loops : Send(l) \/ SendFails(l) \/ Receive(l) \/ NoReply(l)
    \/ Returned

Spec == Init /\ [][Next]_vars

-----------------------------------------------------------------------------
(* Properties *)

\* "concurrent ping checks (which may share the unprivileged ICMP socket space)
\* never accept each other's replies": of all the packets a waiting ping may be
\* given, late ones, doubled ones and its own request among them, it takes its
\* target's reply to its own echo and no other.
OwnReplyOnly ==
    \A l \in Loops : ping[l] # Idle =>
        \A p \in Seen : Accepts(ping[l], p) <=>
            p.kind = "reply" /\ p.echo = ping[l].echo

\* The durations of the check are ones a time.Duration can hold.
Fits(c) ==
    /\ c.timeoutMs * Ms < Half
    /\ c.degradedAboveMs * Ms < Half
    /\ c.type = "tls" => c.warnDays * Day < Half

\* "down on transport error, timeout, or a status code other than the expected
\* one"; a certificate that is "expired or not yet valid", whatever the handshake
\* skipped.  "A check that expects a 3xx wants to evaluate the redirect itself".
Late(c, s) == s.latency > IF c.timeoutMs > 0 THEN c.timeoutMs * Ms ELSE DefaultTimeout

Unexpected(c, s) ==
    CASE c.expected = 0          -> s.final \notin 200..299
      [] c.expected \in 300..399 -> s.first # c.expected
      [] OTHER                   -> s.final # c.expected

Failed(c, s) ==
    \/ Late(c, s) \/ ~s.reached
    \/ c.type \in {"http", "tls"} /\ ~c.insecure /\ ~Verified(s)
    \/ c.type = "http" /\ Unexpected(c, s)
    \/ c.type = "tls" /\ (s.notAfter <= 0 \/ s.notBefore > 0)

\* "degraded when reachable but slower than" the threshold, or when the
\* certificate "expires within" the days given.
Slow(c, s) == c.degradedAboveMs > 0 /\ s.latency > c.degradedAboveMs * Ms

ExpiresSoon(c, s) == c.type = "tls" /\ c.warnDays > 0 /\ s.notAfter < c.warnDays * Day

\* The comments on the runners, for every check whose durations fit: a probe
\* reports down exactly when it failed or panicked, a ping when it got no reply,
\* and degraded exactly when it is slow or soon to expire.
AsDocumented ==
    last # NoResult /\ Fits(last.check) =>
        LET c == last.check
            s == last.saw
            status == last.res.status
        IN /\ c.type # "ping" => (status = "down" <=> last.res.panicked \/ Failed(c, s))
           /\ status # "down" => ~Late(c, s)
           /\ status # "down" => (status = "degraded" <=> Slow(c, s) \/ ExpiresSoon(c, s))
=============================================================================
