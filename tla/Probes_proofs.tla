---------------------------- MODULE Probes_proofs ----------------------------
(***************************************************************************)
(* Proofs about the probes, for every set of checks and of what targets    *)
(* show, any number of loops and echoes, and every size of the sequence    *)
(* space and of the window within it.                                      *)
(***************************************************************************)
EXTENDS Probes, TLAPS

(***************************************************************************)
(* Numbers                                                                 *)
(***************************************************************************)

\* What is assumed of the numbers alone.
LEMMA Numbers ==
    /\ SeqSpace \in Nat \ {0} /\ Window \in Nat /\ Window <= SeqSpace
    /\ MaxEchoes \in Nat
    /\ Ms \in Nat \ {0} /\ Day \in Nat \ {0} /\ Half \in Nat \ {0}
    /\ DefaultTimeout \in Nat \ {0}
    /\ Latencies \subseteq Nat
BY ProbesAssumption

\* What is assumed of a check.
LEMMA CheckFields ==
    ASSUME NEW c \in Checks
    PROVE  /\ c.type \in {"http", "tcp", "tls", "ping"}
           /\ c.timeoutMs \in Int /\ c.degradedAboveMs \in Int /\ c.warnDays \in Int
BY ProbesAssumption

\* What is assumed of the packets of others, and of what targets show.
LEMMA StraysUnmarked == \A p \in Strays : p.echo = 0 /\ (p.kind = "reply" => p.data \notin Nat)
BY ProbesAssumption

LEMMA SightsTimed ==
    \A t \in {"http", "tcp", "tls"} : \A s \in Sights[t] : s.latency \in Nat
BY ProbesAssumption

LEMMA Product ==
    ASSUME NEW a \in Int, NEW b \in Nat \ {0}
    PROVE  a * b \in Int /\ (a > 0 => a * b > 0)
OBVIOUS

LEMMA Quotient ==
    ASSUME NEW a \in Nat, NEW b \in Nat \ {0}
    PROVE  a \div b \in Nat
BY SMTT(30)

LEMMA ModBound ==
    ASSUME NEW x \in Int, NEW m \in Nat \ {0}
    PROVE  x % m \in 0..(m - 1)
OBVIOUS

LEMMA ModSmall ==
    ASSUME NEW m \in Nat \ {0}, NEW x \in 0..(m - 1)
    PROVE  x % m = x
BY SMTT(30)

\* A multiple of m that is closer to 0 than m is 0.
LEMMA SmallMultiple ==
    ASSUME NEW m \in Nat \ {0}, NEW k \in Int, m * k < m, -m < m * k
    PROVE  k = 0
<1>1. CASE k >= 1
  <2>1. m * k >= m BY <1>1, SMTT(30)
  <2>. QED BY <2>1
<1>2. CASE k <= -1
  <2>1. m * k <= -m BY <1>2, SMTT(30)
  <2>. QED BY <2>1
<1>. QED BY <1>1, <1>2

\* Numbers less than m apart have different remainders.
LEMMA ModInjective ==
    ASSUME NEW m \in Nat \ {0}, NEW x \in Nat, NEW y \in Nat,
           x - y < m, y - x < m, x % m = y % m
    PROVE  x = y
<1>. DEFINE p == x \div m
           q == y \div m
<1>1. p \in Int /\ q \in Int BY Quotient
<1>2. x = m * p + (x % m) /\ y = m * q + (y % m) BY SMTT(30)
<1>3. x % m \in Int BY ModBound
<1>. HIDE DEF p, q
<1>4. m * (p - q) = m * p - m * q BY <1>1, SMTT(30)
<1>5. m * p \in Int /\ m * q \in Int BY <1>1
<1>6. m * (p - q) = x - y BY <1>2, <1>3, <1>4, <1>5
<1>7. p - q = 0 BY <1>1, <1>6, SmallMultiple
<1>. QED BY <1>1, <1>2, <1>3, <1>7

(***************************************************************************)
(* The packets under way                                                   *)
(***************************************************************************)

Hosts == {Self} \cup {c.target : c \in Checks}

Packet == [kind : {"request", "reply"}, from : Hosts, to : Hosts,
           seq : Nat, data : Nat, echo : Nat]

Waiting == {l \in Loops : ping[l] # Idle}

\* A waiting ping has the number its echo was given.
PingsTyped ==
    /\ pingSeq \in 0..MaxEchoes
    /\ ping \in [Loops -> [check : Checks, seq : Nat, echo : Nat] \cup {Idle}]
    /\ \A l \in Waiting : /\ ping[l].check.type = "ping"
                          /\ ping[l].seq = Seq(ping[l].echo)
                          /\ ping[l].echo \in 1..pingSeq

\* A packet carries the number of its echo twice, and replies come to the agent.
PacketsMarked ==
    /\ net \subseteq Packet
    /\ \A p \in net : /\ p.seq = Seq(p.echo) /\ p.data = Seq(p.echo)
                      /\ p.echo \in 1..pingSeq
                      /\ p.kind = "reply" => p.to = Self

\* A packet and the echo a loop waits for were sent within one window.
WithinWindow ==
    \A l \in Waiting, p \in net :
        ping[l].echo - p.echo < Window /\ p.echo - ping[l].echo < Window

\* The packets of an echo go to, or come from, the target it was sent to.
OwnTarget ==
    \A l \in Waiting, p \in net :
        p.echo = ping[l].echo =>
            IF p.kind = "request" THEN p.to = ping[l].check.target
                                  ELSE p.from = ping[l].check.target

PacketInv == PingsTyped /\ PacketsMarked /\ WithinWindow /\ OwnTarget

\* The numbers an echo carries are in the space, and tell the echoes of one
\* window apart.
LEMMA SeqBound == \A n \in Nat : Seq(n) \in 0..(SeqSpace - 1) /\ Seq(n) % SeqSpace = Seq(n)
<1>. TAKE n \in Nat
<1>1. Seq(n) \in 0..(SeqSpace - 1) BY Numbers, ModBound DEF Seq
<1>2. \A x \in 0..(SeqSpace - 1) : x % SeqSpace = x BY Numbers, ModSmall
<1>. QED BY <1>1, <1>2

LEMMA SeqInjective ==
    ASSUME NEW m \in Nat, NEW n \in Nat, m - n < Window, n - m < Window, Seq(m) = Seq(n)
    PROVE  m = n
<1>1. m - n < SeqSpace /\ n - m < SeqSpace BY Numbers
<1>. QED BY <1>1, Numbers, ModInjective DEF Seq

\* The invariant is enough: a number that is accepted is the one of the echo.
LEMMA NumbersIdentify == PacketInv => OwnReplyOnly
<1>. SUFFICES ASSUME PacketInv, NEW l \in Waiting, NEW p \in Seen
              PROVE  Accepts(ping[l], p) <=> p.kind = "reply" /\ p.echo = ping[l].echo
  BY DEF OwnReplyOnly, Waiting
<1>. DEFINE w == ping[l]
<1>1. /\ w.seq = Seq(w.echo) /\ w.echo \in Nat /\ w.echo # 0
      /\ w.seq \in Nat
  BY SeqBound DEF PacketInv, PingsTyped, Waiting
<1>2. CASE p \in net
  <2>1. /\ p.echo \in Nat /\ p.kind \in {"request", "reply"}
        /\ p.seq = Seq(p.echo) /\ p.data = Seq(p.echo)
    BY <1>2 DEF PacketInv, PacketsMarked, Packet
  <2>2. w.echo - p.echo < Window /\ p.echo - w.echo < Window
    BY <1>2 DEF PacketInv, WithinWindow
  <2>3. p.echo = w.echo /\ p.kind = "reply" => p.from = w.check.target
    BY <1>2 DEF PacketInv, OwnTarget
  <2>4. p.seq = w.seq => p.echo = w.echo BY <1>1, <2>1, <2>2, SeqInjective
  <2>. QED BY <1>1, <2>1, <2>3, <2>4 DEF Accepts
<1>3. CASE p \in Strays
  BY <1>1, <1>3, StraysUnmarked DEF Accepts
<1>. QED BY <1>2, <1>3 DEF Seen

LEMMA PacketInit == Init => PacketInv
<1>. SUFFICES ASSUME Init PROVE PacketInv
  OBVIOUS
<1>1. Waiting = {} BY DEF Init, Waiting
<1>2. pingSeq \in 0..MaxEchoes BY Numbers DEF Init
<1>3. ping \in [Loops -> [check : Checks, seq : Nat, echo : Nat] \cup {Idle}] BY DEF Init
<1>4. net = {} BY DEF Init
<1>. QED BY <1>1, <1>2, <1>3, <1>4
     DEF PacketInv, PingsTyped, PacketsMarked, WithinWindow, OwnTarget

\* An echo is sent while everything that is still under way is younger than a
\* window.
LEMMA SendKeeps ==
    ASSUME PacketInv, NEW l \in Loops, Send(l)
    PROVE  PacketInv'
<1>. DEFINE n == pingSeq + 1
<1>. USE Numbers
<1>1. PICK c \in Checks :
        /\ c.type = "ping"
        /\ ping' = [ping EXCEPT ![l] = [check |-> c, seq |-> Seq(n), echo |-> n]]
        /\ net' = {p \in net : Alive(p.echo)} \cup
                  {[kind |-> "request", from |-> Self, to |-> c.target,
                    seq |-> Seq(n) % SeqSpace, data |-> Seq(n), echo |-> n]}
  BY DEF Send
<1>2. /\ pingSeq' = n /\ n \in 1..MaxEchoes /\ pingSeq \in Nat /\ n \in Nat
      /\ ping[l] = Idle
      /\ \A k \in Waiting : n - ping[k].echo < Window
  BY DEF Send, PacketInv, PingsTyped, Alive, Waiting
<1>3. Seq(n) \in Nat /\ Seq(n) % SeqSpace = Seq(n) BY <1>2, SeqBound
<1>. DEFINE sent == [kind |-> "request", from |-> Self, to |-> c.target,
                     seq |-> Seq(n), data |-> Seq(n), echo |-> n]
<1>4. /\ ping'[l] = [check |-> c, seq |-> Seq(n), echo |-> n]
      /\ Waiting' \subseteq Waiting \cup {l}
      /\ \A k \in Waiting' \ {l} : k \in Waiting /\ ping'[k] = ping[k]
  BY <1>1 DEF PacketInv, PingsTyped, Waiting
<1>5. \A p \in net' : p = sent \/ (p \in net /\ n - p.echo < Window /\ p.echo < n)
  <2>1. net' = {p \in net : Alive(p.echo)} \cup {sent} BY <1>1, <1>3
  <2>2. \A p \in net : p.echo \in 1..pingSeq BY DEF PacketInv, PacketsMarked
  <2>. QED BY <1>2, <2>1, <2>2 DEF Alive
<1>6. PingsTyped'
  <2>1. ping' \in [Loops -> [check : Checks, seq : Nat, echo : Nat] \cup {Idle}]
    BY <1>1, <1>2, <1>3 DEF PacketInv, PingsTyped
  <2>2. ASSUME NEW k \in Waiting'
        PROVE  /\ ping'[k].check.type = "ping"
               /\ ping'[k].seq = Seq(ping'[k].echo)
               /\ ping'[k].echo \in 1..n
    <3>1. CASE k = l BY <1>1, <1>2, <1>4, <3>1
    <3>2. CASE k # l BY <1>2, <1>4, <3>2 DEF PacketInv, PingsTyped
    <3>. QED BY <3>1, <3>2
  <2>. QED BY <1>2, <2>1, <2>2 DEF PingsTyped, Seq
<1>7. PacketsMarked'
  <2>1. sent \in Packet BY <1>2, <1>3 DEF Packet, Hosts
  <2>2. net' \subseteq Packet BY <1>5, <2>1 DEF PacketInv, PacketsMarked
  <2>3. ASSUME NEW p \in net'
        PROVE  /\ p.seq = Seq(p.echo) /\ p.data = Seq(p.echo) /\ p.echo \in 1..n
               /\ p.kind = "reply" => p.to = Self
    <3>1. CASE p = sent BY <1>2, <3>1
    <3>2. CASE p \in net BY <1>2, <3>2 DEF PacketInv, PingsTyped, PacketsMarked
    <3>. QED BY <1>5, <3>1, <3>2
  <2>. QED BY <1>2, <2>2, <2>3 DEF PacketsMarked, Seq
<1>8. ASSUME NEW k \in Waiting', NEW p \in net'
      PROVE  /\ ping'[k].echo - p.echo < Window /\ p.echo - ping'[k].echo < Window
             /\ p.echo = ping'[k].echo =>
                  IF p.kind = "request" THEN p.to = ping'[k].check.target
                                        ELSE p.from = ping'[k].check.target
  <2>. DEFINE e == ping'[k].echo
  <2>0. Window > 0 BY ProbesAssumption
  <2>1. CASE k = l /\ p = sent BY <1>2, <1>4, <2>0, <2>1
  <2>2. CASE k = l /\ p # sent
    <3>1. e = n BY <1>4, <2>2
    <3>2. p.echo \in Nat /\ n - p.echo < Window /\ p.echo < n
      BY <1>5, <2>2 DEF PacketInv, PacketsMarked, Packet
    <3>. QED BY <1>2, <2>0, <3>1, <3>2
  <2>3. CASE k # l /\ p = sent
    <3>1. p.echo = n BY <2>3
    <3>2. e \in 1..pingSeq /\ n - e < Window
      BY <1>2, <1>4, <2>3 DEF PacketInv, PingsTyped
    <3>. HIDE DEF e
    <3>3. e - n < Window /\ n # e BY <1>2, <2>0, <3>2
    <3>. QED BY <3>1, <3>2, <3>3 DEF e
  <2>4. CASE k # l /\ p # sent
    BY <1>4, <1>5, <2>4 DEF PacketInv, WithinWindow, OwnTarget
  <2>. QED BY <2>1, <2>2, <2>3, <2>4
<1>. QED BY <1>6, <1>7, <1>8 DEF PacketInv, WithinWindow, OwnTarget

\* A target answers what was sent to it, with what was sent.
LEMMA AnswerKeeps ==
    ASSUME PacketInv, Answer
    PROVE  PacketInv'
<1>1. PICK p \in net :
        p.kind = "request" /\
        net' = net \cup {[p EXCEPT !.kind = "reply", !.from = p.to, !.to = Self]}
  BY DEF Answer
<1>. DEFINE reply == [p EXCEPT !.kind = "reply", !.from = p.to, !.to = Self]
<1>2. UNCHANGED <<ping, pingSeq>> /\ Waiting' = Waiting BY DEF Answer, Waiting
<1>3. p \in Packet BY DEF PacketInv, PacketsMarked
<1>4. /\ reply \in Packet /\ reply.kind = "reply" /\ reply.from = p.to /\ reply.to = Self
      /\ reply.seq = p.seq /\ reply.data = p.data /\ reply.echo = p.echo
  BY <1>3 DEF Packet, Hosts
<1>. HIDE DEF reply
<1>5. net' = net \cup {reply} BY <1>1 DEF reply
<1>6. PingsTyped' BY <1>2 DEF PacketInv, PingsTyped, Seq
<1>7. PacketsMarked' BY <1>2, <1>4, <1>5 DEF PacketInv, PacketsMarked, Seq
<1>8. WithinWindow' BY <1>2, <1>4, <1>5 DEF PacketInv, WithinWindow
<1>9. OwnTarget'
  <2>. SUFFICES ASSUME NEW l \in Waiting, NEW q \in net', q.echo = ping[l].echo
                PROVE  IF q.kind = "request" THEN q.to = ping[l].check.target
                                             ELSE q.from = ping[l].check.target
    BY <1>2 DEF OwnTarget
  <2>1. CASE q \in net BY <2>1 DEF PacketInv, OwnTarget
  <2>2. CASE q = reply BY <1>1, <1>4, <2>2 DEF PacketInv, OwnTarget
  <2>. QED BY <1>5, <2>1, <2>2
<1>. QED BY <1>6, <1>7, <1>8, <1>9 DEF PacketInv

\* A loop that stops waiting leaves the packets to the others.
LEMMA EndOfPingKeeps ==
    ASSUME PacketInv, NEW l \in Loops, ping' = [ping EXCEPT ![l] = Idle],
           UNCHANGED <<pingSeq, net>>
    PROVE  PacketInv'
<1>1. /\ Waiting' \subseteq Waiting
      /\ \A k \in Waiting' : ping'[k] = ping[k]
  BY DEF PacketInv, PingsTyped, Waiting
<1>2. PingsTyped' BY <1>1 DEF PacketInv, PingsTyped, Seq
<1>3. PacketsMarked' BY DEF PacketInv, PacketsMarked, Seq
<1>4. WithinWindow' /\ OwnTarget' BY <1>1 DEF PacketInv, WithinWindow, OwnTarget
<1>. QED BY <1>2, <1>3, <1>4 DEF PacketInv

LEMMA PacketStep == PacketInv /\ [Next]_vars => PacketInv'
<1>. SUFFICES ASSUME PacketInv, [Next]_vars PROVE PacketInv'
  OBVIOUS
<1>1. CASE Probe \/ Returned \/ UNCHANGED vars
  <2>1. UNCHANGED <<ping, pingSeq, net>> BY <1>1 DEF Probe, Returned, vars
  <2>. QED
    BY <2>1
    DEF PacketInv, PingsTyped, PacketsMarked, WithinWindow, OwnTarget, Waiting, Seq
<1>2. CASE Answer BY <1>2, AnswerKeeps
<1>3. ASSUME NEW l \in Loops, Send(l) PROVE PacketInv' BY <1>3, SendKeeps
<1>4. ASSUME NEW l \in Loops, SendFails(l) PROVE PacketInv'
  <2>1. /\ UNCHANGED <<ping, net>> /\ Waiting' = Waiting
        /\ pingSeq' \in {pingSeq, pingSeq + 1} /\ pingSeq' <= MaxEchoes
    BY <1>4 DEF SendFails, Waiting
  <2>2. pingSeq \in Nat BY Numbers DEF PacketInv, PingsTyped
  <2>3. pingSeq' \in 0..MaxEchoes /\ pingSeq <= pingSeq' BY <2>1, <2>2, Numbers
  <2>4. \A e \in 1..pingSeq : e \in 1..pingSeq' BY <2>2, <2>3
  <2>5. PingsTyped' BY <2>1, <2>3, <2>4 DEF PacketInv, PingsTyped, Seq
  <2>6. PacketsMarked' BY <2>1, <2>4 DEF PacketInv, PacketsMarked, Seq
  <2>7. WithinWindow' /\ OwnTarget' BY <2>1 DEF PacketInv, WithinWindow, OwnTarget
  <2>. QED BY <2>5, <2>6, <2>7 DEF PacketInv
<1>5. ASSUME NEW l \in Loops, Receive(l) \/ NoReply(l) PROVE PacketInv'
  BY <1>5, EndOfPingKeeps DEF Receive, NoReply
<1>. QED BY <1>1, <1>2, <1>3, <1>4, <1>5 DEF Next

(***************************************************************************)
(* Outcomes                                                                *)
(***************************************************************************)

LEMMA DurationInt ==
    ASSUME NEW n \in Int, NEW unit \in Nat \ {0}
    PROVE  Duration(n, unit) \in Int
<1>. DEFINE x == n * unit
           m == 2 * Half
<1>1. x + Half \in Int /\ m \in Nat \ {0} BY Numbers, Product
<1>. HIDE DEF x, m
<1>2. (x + Half) % m \in Int BY <1>1, ModBound
<1>. QED BY <1>2, Numbers DEF Duration, x, m

\* A duration that a time.Duration can hold does not wrap.
LEMMA DurationExact ==
    ASSUME NEW n \in Int, NEW unit \in Nat \ {0}, n > 0, n * unit < Half
    PROVE  Duration(n, unit) = n * unit /\ n * unit > 0
<1>. DEFINE x == n * unit
           m == 2 * Half
<1>1. x \in Int /\ x > 0 /\ x < Half BY Product
<1>2. Duration(n, unit) = ((x + Half) % m) - Half BY DEF Duration
<1>. HIDE DEF x
<1>3. x + Half \in 0..(m - 1) /\ m \in Nat \ {0} BY <1>1, Numbers
<1>. HIDE DEF m
<1>4. (x + Half) % m = x + Half BY <1>3, ModSmall
<1>. QED BY <1>1, <1>2, <1>4, Numbers DEF x

LEMMA TimeoutInt == \A c \in Checks : Timeout(c) \in Int
BY CheckFields, DurationInt, Numbers DEF Timeout

\* The timeout that applies is the one the check names, or the default.
LEMMA InTimeExact ==
    ASSUME NEW c \in Checks, Fits(c), NEW s, s.latency \in Nat
    PROVE  InTime(c, s.latency) <=> ~Late(c, s)
<1>1. CASE c.timeoutMs > 0
  <2>1. c.timeoutMs * Ms < Half BY DEF Fits
  <2>2. Timeout(c) = c.timeoutMs * Ms /\ c.timeoutMs * Ms > 0
    BY <1>1, <2>1, CheckFields, Numbers, DurationExact DEF Timeout
  <2>3. c.timeoutMs * Ms \in Int BY CheckFields, Numbers, Product
  <2>. DEFINE t == c.timeoutMs * Ms
  <2>4. Late(c, s) <=> s.latency > t BY <1>1 DEF Late
  <2>5. InTime(c, s.latency) <=> s.latency <= t BY <2>2 DEF InTime
  <2>. HIDE DEF t
  <2>. QED BY <2>3, <2>4, <2>5 DEF t
<1>2. CASE ~(c.timeoutMs > 0)
  BY <1>2, Numbers DEF InTime, Timeout, Late
<1>. QED BY <1>1, <1>2

LEMMA ClassifyExact ==
    ASSUME NEW c \in Checks, Fits(c), NEW s, s.latency \in Nat
    PROVE  /\ ClassifyLatency(c, s.latency) \in {"up", "degraded"}
           /\ ClassifyLatency(c, s.latency) = "degraded" <=> Slow(c, s)
<1>1. c.degradedAboveMs > 0 =>
        Duration(c.degradedAboveMs, Ms) = c.degradedAboveMs * Ms
  BY CheckFields, Numbers, DurationExact DEF Fits
<1>. QED BY <1>1 DEF ClassifyLatency, Slow

\* What is reported has one of the statuses, and took a time.
WellFormed(outcome) == outcome.status \in Statuses /\ outcome.latencyMs \in Nat

LEMMA OutcomeTyped ==
    ASSUME NEW status \in Statuses, NEW latency \in Nat
    PROVE  WellFormed(Outcome(status, latency))
BY Numbers, Quotient DEF WellFormed, Outcome

LEMMA GaveUpAfterTyped ==
    ASSUME NEW c \in Checks, NEW latency \in Nat
    PROVE  GaveUpAfter(c, latency) \in Nat
BY TimeoutInt DEF GaveUpAfter

\* What AsDocumented says of one result.
Documented(c, s, res) ==
    Fits(c) =>
        /\ c.type # "ping" => (res.status = "down" <=> res.panicked \/ Failed(c, s))
        /\ res.status # "down" => ~Late(c, s)
        /\ res.status # "down" => (res.status = "degraded" <=> Slow(c, s) \/ ExpiresSoon(c, s))

Good(c, s, res) == WellFormed(res) /\ Documented(c, s, res)

LEMMA TCPDocumented ==
    ASSUME NEW c \in Checks, c.type = "tcp", NEW s \in Sights["tcp"]
    PROVE  Good(c, s, RunTCP(c, s))
<1>. DEFINE status == RunTCP(c, s).status
<1>1. s.latency \in Nat BY SightsTimed
<1>2. WellFormed(RunTCP(c, s))
  BY <1>1, OutcomeTyped, GaveUpAfterTyped DEF RunTCP, ClassifyLatency, Statuses
<1>3. /\ ~RunTCP(c, s).panicked
      /\ status = IF s.reached /\ InTime(c, s.latency)
                  THEN ClassifyLatency(c, s.latency) ELSE "down"
  BY DEF RunTCP, Outcome
<1>4. ASSUME Fits(c)
      PROVE  /\ InTime(c, s.latency) <=> ~Late(c, s)
             /\ ClassifyLatency(c, s.latency) \in {"up", "degraded"}
             /\ ClassifyLatency(c, s.latency) = "degraded" <=> Slow(c, s)
  BY <1>1, <1>4, InTimeExact, ClassifyExact
<1>. HIDE DEF status
<1>5. Documented(c, s, RunTCP(c, s))
  BY <1>3, <1>4 DEF Documented, Failed, ExpiresSoon, status
<1>. QED BY <1>2, <1>5 DEF Good

LEMMA HTTPDocumented ==
    ASSUME NEW c \in Checks, c.type = "http", NEW s \in Sights["http"]
    PROVE  Good(c, s, RunHTTP(c, s))
<1>. DEFINE status == RunHTTP(c, s).status
<1>1. s.latency \in Nat BY SightsTimed
<1>2. WellFormed(RunHTTP(c, s))
  BY <1>1, OutcomeTyped, GaveUpAfterTyped DEF RunHTTP, ClassifyLatency, Statuses
<1>3. /\ ~RunHTTP(c, s).panicked
      /\ status = IF Handshakes(c, s) /\ StatusMatches(c.expected, Answered(c, s))
                  THEN ClassifyLatency(c, s.latency) ELSE "down"
  BY DEF RunHTTP, Outcome
<1>4. ASSUME Fits(c)
      PROVE  /\ InTime(c, s.latency) <=> ~Late(c, s)
             /\ ClassifyLatency(c, s.latency) \in {"up", "degraded"}
             /\ ClassifyLatency(c, s.latency) = "degraded" <=> Slow(c, s)
  BY <1>1, <1>4, InTimeExact, ClassifyExact
<1>5. StatusMatches(c.expected, Answered(c, s)) <=> ~Unexpected(c, s)
  <2>1. CASE c.expected = 0
    BY <2>1 DEF StatusMatches, Answered, Unexpected
  <2>2. CASE c.expected \in 300..399
    BY <2>2 DEF StatusMatches, Answered, Unexpected
  <2>3. CASE c.expected # 0 /\ c.expected \notin 300..399
    BY <2>3 DEF StatusMatches, Answered, Unexpected
  <2>. QED BY <2>1, <2>2, <2>3
<1>. HIDE DEF status
<1>6. Documented(c, s, RunHTTP(c, s))
  BY <1>3, <1>4, <1>5 DEF Documented, Failed, Handshakes, ExpiresSoon, status
<1>. QED BY <1>2, <1>6 DEF Good

LEMMA TLSDocumented ==
    ASSUME NEW c \in Checks, c.type = "tls", NEW s \in Sights["tls"]
    PROVE  Good(c, s, RunTLS(c, s))
<1>. DEFINE status == RunTLS(c, s).status
            expired == s.notAfter <= 0 \/ 0 < s.notBefore
<1>1. s.latency \in Nat BY SightsTimed
<1>2. WellFormed(RunTLS(c, s))
  BY <1>1, OutcomeTyped, GaveUpAfterTyped DEF RunTLS, EvaluateLeaf, ClassifyLatency, Statuses
<1>3. /\ ~RunTLS(c, s).panicked
      /\ status = IF Handshakes(c, s) THEN EvaluateLeaf(c, s) ELSE "down"
  BY DEF RunTLS, Outcome
<1>4. ASSUME Fits(c)
      PROVE  /\ InTime(c, s.latency) <=> ~Late(c, s)
             /\ ClassifyLatency(c, s.latency) \in {"up", "degraded"}
             /\ ClassifyLatency(c, s.latency) = "degraded" <=> Slow(c, s)
             /\ c.warnDays > 0 => Duration(c.warnDays, Day) = c.warnDays * Day
  <2>1. c.warnDays > 0 => Duration(c.warnDays, Day) = c.warnDays * Day
    BY <1>4, CheckFields, Numbers, DurationExact DEF Fits
  <2>. QED BY <1>1, <1>4, <2>1, InTimeExact, ClassifyExact
<1>5. ASSUME Fits(c)
      PROVE  /\ EvaluateLeaf(c, s) = "down" <=> expired
             /\ ~expired => (EvaluateLeaf(c, s) = "degraded" <=> Slow(c, s) \/ ExpiresSoon(c, s))
  <2>. DEFINE soon == c.warnDays > 0 /\ s.notAfter < Duration(c.warnDays, Day)
  <2>1. soon <=> ExpiresSoon(c, s) BY <1>4, <1>5 DEF ExpiresSoon
  <2>2. EvaluateLeaf(c, s) = IF expired THEN "down" ELSE IF soon THEN "degraded"
                                        ELSE ClassifyLatency(c, s.latency)
    BY DEF EvaluateLeaf
  <2>. HIDE DEF soon, expired
  <2>. QED BY <1>4, <1>5, <2>1, <2>2
<1>6. Failed(c, s) <=> Late(c, s) \/ ~s.reached \/ (~c.insecure /\ ~Verified(s)) \/ expired
  BY DEF Failed
<1>. HIDE DEF status, expired
<1>7. Documented(c, s, RunTLS(c, s))
  BY <1>3, <1>4, <1>5, <1>6 DEF Documented, Handshakes, status
<1>. QED BY <1>2, <1>7 DEF Good

\* A probe that panics is down, with a time of zero.
LEMMA PanicDocumented ==
    ASSUME NEW c
    PROVE  Good(c, [latency |-> 0], [Outcome("down", 0) EXCEPT !.panicked = TRUE])
<1>1. Outcome("down", 0) = [status |-> "down", latencyMs |-> 0 \div Ms, panicked |-> FALSE]
  BY DEF Outcome
<1>2. WellFormed(Outcome("down", 0)) BY OutcomeTyped DEF Statuses
<1>. QED BY <1>1, <1>2 DEF Good, WellFormed, Documented

\* A ping without a reply is down, one with its reply is up or degraded.
LEMMA PingDownDocumented ==
    ASSUME NEW c, c.type = "ping", NEW latency \in Nat
    PROVE  Good(c, [latency |-> latency], Outcome("down", latency))
<1>1. Outcome("down", latency).status = "down" BY DEF Outcome
<1>2. WellFormed(Outcome("down", latency)) BY OutcomeTyped DEF Statuses
<1>. QED BY <1>1, <1>2 DEF Good, Documented

LEMMA ReplyDocumented ==
    ASSUME NEW c \in Checks, c.type = "ping", NEW latency \in Nat, InTime(c, latency)
    PROVE  Good(c, [latency |-> latency], Outcome(ClassifyLatency(c, latency), latency))
<1>. DEFINE s == [latency |-> latency]
            res == Outcome(ClassifyLatency(c, latency), latency)
<1>1. WellFormed(res) BY OutcomeTyped DEF ClassifyLatency, Statuses
<1>2. res.status = ClassifyLatency(c, latency) BY DEF Outcome
<1>3. s.latency = latency OBVIOUS
<1>. HIDE DEF s
<1>4. ASSUME Fits(c)
      PROVE  /\ ~Late(c, s)
             /\ ClassifyLatency(c, latency) = "degraded" <=> Slow(c, s)
  BY <1>3, <1>4, InTimeExact, ClassifyExact
<1>. HIDE DEF res
<1>5. Documented(c, s, res) BY <1>2, <1>4 DEF Documented, ExpiresSoon
<1>. QED BY <1>1, <1>5 DEF Good, s, res

(***************************************************************************)
(* The theorems                                                            *)
(***************************************************************************)

\* The result that was just returned.
LastGood == last # NoResult => Good(last.check, last.saw, last.res)

LEMMA LastStep == PacketInv /\ LastGood /\ [Next]_vars => LastGood'
<1>. SUFFICES ASSUME PacketInv, LastGood, [Next]_vars PROVE LastGood'
  OBVIOUS
<1>1. ASSUME NEW c, NEW s, NEW res, Ends(c, s, res), Good(c, s, res) PROVE LastGood'
  <2>1. last'.check = c /\ last'.saw = s /\ last'.res = res BY <1>1 DEF Ends
  <2>. QED
    BY <1>1, <2>1
    DEF LastGood, Good, WellFormed, Documented, Fits, Failed, Late, Unexpected, Slow, ExpiresSoon,
        Verified
<1>2. ASSUME NEW c, Panics(c) PROVE LastGood'
  BY <1>1, <1>2, PanicDocumented DEF Panics
<1>3. CASE Probe
  <2>1. PICK c \in Checks : c.type # "ping" /\
          \/ \E s \in Sights[c.type] :
               Ends(c, s, CASE c.type = "http" -> RunHTTP(c, s)
                            [] c.type = "tcp"  -> RunTCP(c, s)
                            [] c.type = "tls"  -> RunTLS(c, s))
          \/ Panics(c)
    BY <1>3 DEF Probe
  <2>2. ASSUME NEW s \in Sights[c.type], c.type = "http", Ends(c, s, RunHTTP(c, s))
        PROVE  LastGood'
    BY <1>1, <2>2, HTTPDocumented
  <2>3. ASSUME NEW s \in Sights[c.type], c.type = "tcp", Ends(c, s, RunTCP(c, s))
        PROVE  LastGood'
    BY <1>1, <2>3, TCPDocumented
  <2>4. ASSUME NEW s \in Sights[c.type], c.type = "tls", Ends(c, s, RunTLS(c, s))
        PROVE  LastGood'
    BY <1>1, <2>4, TLSDocumented
  <2>5. c.type \in {"http", "tcp", "tls"} BY <2>1, CheckFields
  <2>. QED BY <1>2, <2>1, <2>2, <2>3, <2>4, <2>5
<1>4. ASSUME NEW l \in Loops, Receive(l) PROVE LastGood'
  <2>1. PICK latency \in Latencies :
          /\ InTime(ping[l].check, latency)
          /\ Ends(ping[l].check, [latency |-> latency],
                  Outcome(ClassifyLatency(ping[l].check, latency), latency))
    BY <1>4 DEF Receive
  <2>2. ping[l].check \in Checks /\ ping[l].check.type = "ping" /\ latency \in Nat
    BY <1>4, Numbers DEF Receive, PacketInv, PingsTyped, Waiting
  <2>. QED BY <1>1, <2>1, <2>2, ReplyDocumented
<1>5. ASSUME NEW l \in Loops, NoReply(l) PROVE LastGood'
  <2>1. ping[l].check.type = "ping"
    BY <1>5 DEF NoReply, PacketInv, PingsTyped, Waiting
  <2>2. ASSUME NEW latency \in Latencies,
               Ends(ping[l].check, [latency |-> latency], Outcome("down", latency))
        PROVE  LastGood'
    BY <1>1, <2>1, <2>2, Numbers, PingDownDocumented
  <2>. QED BY <1>2, <1>5, <2>2 DEF NoReply
<1>6. ASSUME NEW l \in Loops, SendFails(l) PROVE LastGood'
  BY <1>1, <1>6, PingDownDocumented DEF SendFails
<1>7. CASE Returned BY <1>7 DEF Returned, LastGood
<1>8. CASE UNCHANGED last
  BY <1>8
  DEF LastGood, Good, WellFormed, Documented, Fits, Failed, Late, Unexpected, Slow, ExpiresSoon,
      Verified
<1>9. Answer \/ (\E l \in Loops : Send(l)) \/ UNCHANGED vars => UNCHANGED last
  BY DEF Answer, Send, vars
<1>. QED BY <1>3, <1>4, <1>5, <1>6, <1>7, <1>8, <1>9 DEF Next

ProbesInv == PacketInv /\ LastGood

LEMMA InvTyped == ProbesInv => TypeOK
<1>. SUFFICES ASSUME ProbesInv PROVE TypeOK
  OBVIOUS
<1>1. \A l \in Loops : ping[l] # Idle =>
        /\ ping[l].check \in Checks
        /\ ping[l].seq \in 0..(SeqSpace - 1)
        /\ ping[l].echo \in 1..pingSeq
  <2>. SUFFICES ASSUME NEW l \in Waiting
                PROVE  /\ ping[l].check \in Checks
                       /\ ping[l].seq \in 0..(SeqSpace - 1)
                       /\ ping[l].echo \in 1..pingSeq
    BY DEF Waiting
  <2>. QED BY SeqBound DEF ProbesInv, PacketInv, PingsTyped, Waiting
<1>2. \A p \in net : p.kind \in {"request", "reply"} /\ p.echo \in 1..pingSeq
  BY DEF ProbesInv, PacketInv, PacketsMarked, Packet
<1>3. last # NoResult => last.res.status \in Statuses /\ last.res.latencyMs \in Nat
  BY DEF ProbesInv, LastGood, Good, WellFormed
<1>4. pingSeq \in 0..MaxEchoes BY DEF ProbesInv, PacketInv, PingsTyped
<1>. QED BY <1>1, <1>2, <1>3, <1>4 DEF TypeOK

\* However the packets of the loops and of others are delayed, doubled and
\* delivered: the invariant holds.
THEOREM ProbesInvariant == Spec => []ProbesInv
<1>1. Init => ProbesInv
  BY PacketInit DEF Init, ProbesInv, LastGood
<1>2. ProbesInv /\ [Next]_vars => ProbesInv'
  BY PacketStep, LastStep DEF ProbesInv
<1>. QED BY <1>1, <1>2, PTL DEF Spec

\* The number a ping waits for fits the field of the echo.
THEOREM ProbesTypeCorrect == Spec => []TypeOK
BY ProbesInvariant, InvTyped, PTL

\* "concurrent ping checks ... never accept each other's replies", when fewer
\* echoes are sent in the life of a packet than there are sequence numbers.
THEOREM RepliesNotMixedUp == Spec => []OwnReplyOnly
<1>1. ProbesInv => OwnReplyOnly BY NumbersIdentify DEF ProbesInv
<1>. QED BY <1>1, ProbesInvariant, PTL

\* Every result is the one the comments on the runners describe, when the
\* durations of its check fit.
THEOREM OutcomesDocumented == Spec => []AsDocumented
<1>1. ProbesInv => AsDocumented
  BY DEF ProbesInv, LastGood, Good, Documented, AsDocumented
<1>. QED BY <1>1, ProbesInvariant, PTL
=============================================================================
