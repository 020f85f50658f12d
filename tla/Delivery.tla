------------------------------ MODULE Delivery ------------------------------
(***************************************************************************)
(* The delivery path of internal/agent/agent.go: the check loops hand each *)
(* completed result to a bounded channel, or spool it when the channel is  *)
(* full; one dispatcher batches what it receives, replays the spool, posts *)
(* the batch and spools what it could not post, backing off after a        *)
(* failure.  SIGTERM cancels the context: the dispatcher drains the channel*)
(* into the spool and the process exits.  The process may also be killed   *)
(* at any point, and is started again.                                     *)
(*                                                                         *)
(* The goroutines are the check loops and the dispatcher.  Each action     *)
(* ends where another goroutine can see or change what they share: the     *)
(* channel, the spool (module Spool, one call under its mutex per step)    *)
(* and the depth gauge.  Results are numbered in the order they complete.  *)
(***************************************************************************)
EXTENDS Integers, Sequences, FiniteSets

CONSTANTS
    Checks,      \* the running check loops
    ChanCap,     \* resultBufferSize
    BatchSize,   \* resultBatchSize
    BackoffMin,  \* dispatchBackoffMin
    BackoffMax,  \* dispatchBackoffMax
    MaxResults,  \* bound: results ever produced
    OnDisk, MaxBatches, Faults, MaxAdds, MaxNano  \* see Spool

ASSUME DeliveryAssumption ==
    /\ ChanCap \in Nat \ {0}
    /\ BatchSize \in Nat \ {0}
    /\ BackoffMin \in Nat \ {0}
    /\ BackoffMax \in Nat /\ BackoffMin <= BackoffMax
    /\ MaxResults \in Nat
    /\ OnDisk \in BOOLEAN
    /\ MaxBatches \in Int
    /\ Faults \subseteq {"write", "remove", "read", "list", "clock"}
    /\ MaxAdds \in Nat
    /\ MaxNano \in Nat

VARIABLES
    \* the check loops
    loop,       \* where each one is
    hand,       \* the result each one has completed and not handed over, or 0
    chan,       \* the results channel
    \* the dispatcher
    d,          \* where it is
    batch,      \* results received since the last flush
    pending,    \* the batch being sent
    outcome,    \* what the depth is read for: a replay's result, or spoolBatch
    backoff,    \* current backoff, in seconds
    waiting,    \* the clock is before retryAt
    draining,   \* it has seen the cancelled context
    \* shared
    gauge,      \* metrics.SpoolDepth
    seen,       \* the depth a goroutine has read and not yet stored
    cancelled,  \* the run context is cancelled
    \* the backend
    healthy,    \* it answers posts with success
    received,   \* results it has stored
    \* history
    produced,   \* results completed and counted by RecordResult
    acked,      \* results this process has seen acknowledged
    dropped,    \* results a call logged as dropped: by the cap, or write error
    lost,       \* results that were in memory only when the process died
    stranded,   \* results left in the channel or in a loop by a clean exit
    \* the spool
    files, mem, count, seq, clock, held, up, adds

spoolVars == <<files, mem, count, seq, clock, held, up, adds>>
\* What only the loops, or only the dispatcher, change, and what they share.
loopVars == <<loop, hand, produced>>
retryVars == <<backoff, waiting>>
dispVars == <<d, batch, pending, outcome, retryVars, draining>>
replies == <<received, acked>>
gaugeVars == <<gauge, seen>>
store == <<spoolVars, dropped>>
outside == <<cancelled, healthy, lost, stranded>>
vars == <<loopVars, dispVars, chan, gaugeVars, replies, store, outside>>

Results == 1..MaxResults
Batches == Seq(Results) \ {<<>>}

S == INSTANCE Spool

Goroutines == Checks \cup {"dispatcher"}

\* The results of a sequence, and of a set of spooled batches.
In(s) == {s[i] : i \in 1..Len(s)}
Within(entries) == UNION {In(e.results) : e \in entries}

TypeOK ==
    /\ loop \in [Checks -> {"wait", "offer", "spool", "depth", "store"}]
    /\ hand \in [Checks -> Results \cup {0}]
    /\ chan \in Seq(Results) /\ Len(chan) <= ChanCap
    /\ d \in {"select", "send", "oldest", "repost", "remove", "post", "spool",
              "depth", "store", "drain", "done"}
    /\ {batch, pending} \subseteq Seq(Results)
    /\ outcome \in {"drained", "failed", "spooled"}
    /\ backoff \in 0..BackoffMax
    /\ {waiting, draining, cancelled, healthy} \subseteq BOOLEAN
    /\ gauge \in Int /\ seen \in [Goroutines -> Int]
    /\ produced \in 0..MaxResults
    /\ {received, acked, dropped, lost, stranded} \subseteq SUBSET Results
    /\ S!TypeOK

Init ==
    /\ loop = [c \in Checks |-> "wait"] /\ hand = [c \in Checks |-> 0]
    /\ chan = <<>> /\ batch = <<>> /\ pending = <<>>
    /\ d = "select" /\ outcome = "drained"
    /\ backoff = 0 /\ waiting = FALSE /\ draining = FALSE
    /\ gauge = 0 /\ seen = [g \in Goroutines |-> 0]
    /\ cancelled = FALSE
    /\ healthy \in BOOLEAN
    /\ produced = 0 /\ received = {} /\ acked = {}
    /\ dropped = {} /\ lost = {} /\ stranded = {}
    /\ S!Init

-----------------------------------------------------------------------------
(* Calls to the spool, shared by the goroutines *)

\* spoolBatch and spoolResult call Add; what the cap drops, or a write error,
\* is logged and gone.
Spools(results) ==
    \/ /\ S!Add(results)
       /\ dropped' = dropped \cup
            ((Within(S!Stored) \cup In(results)) \ Within(S!Stored'))
    \/ /\ S!AddFails(results)
       /\ dropped' = dropped \cup In(results)

AddSucceeded == adds' # adds

\* The two halves of SpoolDepth.Store(int64(spool.Depth())).
ReadsDepth(g) == seen' = [seen EXCEPT ![g] = count] /\ UNCHANGED gauge
StoresDepth(g) == gauge' = seen[g] /\ UNCHANGED seen

-----------------------------------------------------------------------------
(* The check loops: run, in runCheckLoop, and spoolResult *)

LoopStep == up /\ UNCHANGED <<dispVars, replies, outside>>

\* A run completes and its context is not cancelled: the result counts.
Complete(c) ==
    /\ LoopStep
    /\ loop[c] = "wait"
    /\ ~cancelled
    /\ produced < MaxResults
    /\ produced' = produced + 1
    /\ hand' = [hand EXCEPT ![c] = produced']
    /\ loop' = [loop EXCEPT ![c] = "offer"]
    /\ UNCHANGED <<chan, gaugeVars, store>>

ToChannel(c) ==
    /\ Len(chan) < ChanCap
    /\ chan' = Append(chan, hand[c])
    /\ hand' = [hand EXCEPT ![c] = 0]
    /\ loop' = [loop EXCEPT ![c] = "wait"]

ToSpool(c) ==
    /\ Len(chan) >= ChanCap
    /\ loop' = [loop EXCEPT ![c] = "spool"]
    /\ UNCHANGED <<chan, hand>>

\* Slips in the select: no default, or the result goes to channel and spool.
OfferBlocks(c) == loop[c] = "offer" /\ ToChannel(c)
OfferTwice(c) ==
    /\ loop[c] = "offer"
    /\ chan' = IF Len(chan) < ChanCap THEN Append(chan, hand[c]) ELSE chan
    /\ loop' = [loop EXCEPT ![c] = "spool"]
    /\ UNCHANGED hand

\* The select with a default: the channel if it has room, else the spool.
Offer(c) == loop[c] = "offer" /\ (ToChannel(c) \/ ToSpool(c))

Offers(c) ==
    /\ LoopStep
    /\ Offer(c)
    /\ UNCHANGED <<produced, gaugeVars, store>>

SpoolResult(c) ==
    /\ LoopStep
    /\ loop[c] = "spool"
    /\ Spools(<<hand[c]>>)
    /\ hand' = [hand EXCEPT ![c] = 0]
    /\ loop' = [loop EXCEPT ![c] = IF AddSucceeded THEN "depth" ELSE "wait"]
    /\ UNCHANGED <<produced, chan, gaugeVars>>

LoopReadsDepth(c) ==
    /\ LoopStep
    /\ loop[c] = "depth"
    /\ ReadsDepth(c)
    /\ loop' = [loop EXCEPT ![c] = "store"]
    /\ UNCHANGED <<hand, produced, chan, store>>

LoopStoresDepth(c) ==
    /\ LoopStep
    /\ loop[c] = "store"
    /\ StoresDepth(c)
    /\ loop' = [loop EXCEPT ![c] = "wait"]
    /\ UNCHANGED <<hand, produced, chan, store>>

HandsOver(c) ==
    Offers(c) \/ SpoolResult(c) \/ LoopReadsDepth(c) \/ LoopStoresDepth(c)

-----------------------------------------------------------------------------
(* The dispatcher: dispatchLoop, replaySpool and spoolBatch *)

DispStep == up /\ UNCHANGED <<loopVars, outside>>

\* One result moves from the channel to the batch.
Takes ==
    /\ chan # <<>>
    /\ chan' = Tail(chan)
    /\ batch' = Append(batch, Head(chan))

Receive ==
    /\ DispStep
    /\ d = "select"
    /\ Takes
    /\ d' = IF Len(batch') >= BatchSize THEN "send" ELSE "select"
    /\ UNCHANGED <<pending, outcome, retryVars, draining, replies, gaugeVars,
                   store>>

FlushTick ==
    /\ DispStep
    /\ d = "select"
    /\ d' = "send"
    /\ UNCHANGED <<batch, pending, outcome, retryVars, draining, chan, replies,
                   gaugeVars, store>>

\* Where send goes once replaySpool has returned true.
PostOrReturn(results) == IF results = <<>> THEN "select" ELSE "post"

\* Slips in the start of send: the batch is forgotten while backing off, the
\* backoff is ignored, or an idle agent does not replay.
ForgetsBatch ==
    IF waiting THEN "select"
    ELSE IF count = 0 THEN PostOrReturn(batch) ELSE "oldest"
IgnoresBackOff == IF count = 0 THEN PostOrReturn(batch) ELSE "oldest"
NoIdleReplay ==
    IF batch = <<>> THEN "select"
    ELSE IF waiting THEN "spool" ELSE IF count = 0 THEN "post" ELSE "oldest"

\* Where send goes first: while backing off the batch goes to the spool, and
\* an empty spool needs no replay.
AfterSend ==
    CASE waiting /\ batch # <<>> -> "spool"
      [] waiting /\ batch = <<>> -> "select"
      [] ~waiting /\ count = 0   -> PostOrReturn(batch)
      [] ~waiting /\ count # 0   -> "oldest"

Send ==
    /\ DispStep
    /\ d = "send"
    /\ pending' = batch
    /\ batch' = <<>>
    /\ d' = AfterSend
    /\ UNCHANGED <<outcome, retryVars, draining, chan, replies, gaugeVars, store>>

ReplayOldest ==
    /\ DispStep
    /\ d = "oldest"
    /\ S!Oldest
    /\ d' = IF held' = S!NoBatch THEN "depth" ELSE "repost"
    /\ outcome' = "drained"
    /\ UNCHANGED <<batch, pending, retryVars, draining, chan, replies, gaugeVars,
                   dropped>>

\* The backend answers with success.
Posted(results) ==
    /\ healthy
    /\ received' = received \cup In(results)
    /\ acked' = acked \cup In(results)

\* A failed post may have reached the backend: the answer was lost or late.
NotPosted(results) ==
    /\ ~healthy
    /\ received' = received \/ received' = received \cup In(results)
    /\ UNCHANGED acked

RepostOk ==
    /\ DispStep
    /\ d = "repost"
    /\ Posted(held.results)
    /\ d' = "remove"
    /\ UNCHANGED <<batch, pending, outcome, retryVars, draining, chan, gaugeVars,
                   store>>

RepostFails ==
    /\ DispStep
    /\ d = "repost"
    /\ NotPosted(held.results)
    /\ S!GiveUp
    /\ outcome' = "failed"
    /\ d' = "depth"
    /\ UNCHANGED <<batch, pending, retryVars, draining, chan, gaugeVars, dropped>>

RemoveDelivered ==
    /\ DispStep
    /\ d = "remove"
    /\ S!Remove
    /\ d' = "oldest"
    /\ UNCHANGED <<batch, pending, outcome, retryVars, draining, chan, replies,
                   gaugeVars, dropped>>

\* A slip in fail: the upper limit is forgotten.
BackOffUncapped ==
    /\ backoff' = IF 2 * backoff < BackoffMin THEN BackoffMin ELSE 2 * backoff
    /\ waiting' = TRUE

\* The code's fail, less its spoolBatch, which follows when there is a batch.
BackOff ==
    /\ backoff' = IF 2 * backoff < BackoffMin THEN BackoffMin
                  ELSE IF 2 * backoff > BackoffMax THEN BackoffMax
                  ELSE 2 * backoff
    /\ waiting' = TRUE

PostOk ==
    /\ DispStep
    /\ d = "post"
    /\ Posted(pending)
    /\ pending' = <<>>
    /\ backoff' = 0 /\ waiting' = FALSE
    /\ d' = "select"
    /\ UNCHANGED <<batch, outcome, draining, chan, gaugeVars, store>>

PostFails ==
    /\ DispStep
    /\ d = "post"
    /\ NotPosted(pending)
    /\ BackOff
    /\ d' = "spool"
    /\ UNCHANGED <<batch, pending, outcome, draining, chan, gaugeVars, store>>

Returned == IF draining THEN "done" ELSE "select"

SpoolBatch ==
    /\ DispStep
    /\ d = "spool"
    /\ Spools(pending)
    /\ pending' = <<>>
    /\ outcome' = "spooled"
    /\ d' = IF AddSucceeded THEN "depth" ELSE Returned
    /\ UNCHANGED <<batch, retryVars, draining, chan, replies, gaugeVars>>

DispReadsDepth ==
    /\ DispStep
    /\ d = "depth"
    /\ ReadsDepth("dispatcher")
    /\ d' = "store"
    /\ UNCHANGED <<batch, pending, outcome, retryVars, draining, chan, replies,
                   store>>

\* The depth is published; spoolBatch or replaySpool returns, and send goes on.
DispStoresDepth ==
    /\ DispStep
    /\ d = "store"
    /\ StoresDepth("dispatcher")
    /\ CASE outcome = "spooled" -> d' = Returned /\ UNCHANGED retryVars
         [] outcome = "drained" -> d' = PostOrReturn(pending) /\ UNCHANGED retryVars
         [] outcome = "failed"  ->
              /\ d' = IF pending = <<>> THEN "select" ELSE "spool"
              /\ BackOff
    /\ UNCHANGED <<batch, pending, outcome, draining, chan, replies, store>>

SeeCancel ==
    /\ DispStep
    /\ d = "select"
    /\ cancelled
    /\ draining' = TRUE
    /\ d' = "drain"
    /\ UNCHANGED <<batch, pending, outcome, retryVars, chan, replies, gaugeVars,
                   store>>

\* Slips at the end of the drain: the last batch is posted, or the loop goes on.
DrainPosts == IF batch = <<>> THEN "done" ELSE "post"
DrainLoops == IF batch = <<>> THEN "select" ELSE "spool"

AfterDrain == IF batch = <<>> THEN "done" ELSE "spool"

Drain ==
    /\ DispStep
    /\ d = "drain"
    /\ \/ Takes /\ UNCHANGED <<d, pending>>
       \/ /\ chan = <<>>
          /\ d' = AfterDrain
          /\ pending' = batch
          /\ batch' = <<>>
          /\ UNCHANGED chan
    /\ UNCHANGED <<outcome, retryVars, draining, replies, gaugeVars, store>>

Dispatch ==
    \/ Receive \/ FlushTick \/ SeeCancel \/ Drain
    \/ Send \/ PostOk \/ PostFails \/ SpoolBatch
    \/ ReplayOldest \/ RepostOk \/ RepostFails \/ RemoveDelivered
    \/ DispReadsDepth \/ DispStoresDepth

-----------------------------------------------------------------------------
(* Time, the backend and the process *)

\* retryAt passes.
BackoffExpires ==
    /\ up
    /\ waiting
    /\ waiting' = FALSE
    /\ UNCHANGED <<loopVars, d, batch, pending, outcome, backoff, draining, chan,
                   gaugeVars, replies, store, outside>>

BackendChanges ==
    /\ healthy' = ~healthy
    /\ UNCHANGED <<loopVars, dispVars, chan, gaugeVars, replies, store,
                   cancelled, lost, stranded>>

\* SIGTERM or SIGINT.
Terminate ==
    /\ up
    /\ ~cancelled
    /\ cancelled' = TRUE
    /\ UNCHANGED <<loopVars, dispVars, chan, gaugeVars, replies, store,
                   healthy, lost, stranded>>

InLoops == {hand[c] : c \in Checks} \ {0}
InMemory == InLoops \cup In(chan) \cup In(batch) \cup In(pending)
               \cup (IF OnDisk THEN {} ELSE Within(S!Stored))

\* The goroutines, the channel and the metrics go with the process.
Gone ==
    /\ loop' = [c \in Checks |-> "wait"] /\ hand' = [c \in Checks |-> 0]
    /\ chan' = <<>> /\ batch' = <<>> /\ pending' = <<>>
    /\ d' = "select" /\ outcome' = "drained"
    /\ backoff' = 0 /\ waiting' = FALSE /\ draining' = FALSE
    /\ gauge' = 0 /\ seen' = [g \in Goroutines |-> 0]
    /\ cancelled' = FALSE /\ acked' = {}

\* Run returns once the dispatcher is done, and main with it: the goroutines
\* that still run are cut off.
Exit ==
    /\ d = "done"
    /\ S!Crash
    /\ Gone
    /\ stranded' = stranded \cup InLoops \cup In(chan)
    /\ lost' = lost \cup (IF OnDisk THEN {} ELSE Within(S!Stored))
    /\ UNCHANGED <<healthy, received, produced, dropped>>

\* The batches that an Add in progress may have written.
BeingSpooled ==
    {<<hand[c]>> : c \in {x \in Checks : loop[x] = "spool"}}
        \cup (IF d = "spool" THEN {pending} ELSE {})

\* The process is killed, between two steps or inside an Add.
Killed ==
    /\ \/ /\ S!Crash
          /\ UNCHANGED dropped
       \/ \E results \in BeingSpooled :
             /\ S!CrashInAdd(results)
             /\ dropped' = dropped \cup
                  ((Within(S!Stored) \cup In(results)) \ Within(S!Stored'))
    /\ Gone
    /\ lost' = lost \cup (InMemory \ Within(S!Stored'))
    /\ UNCHANGED <<healthy, received, produced, stranded>>

\* New opens the spool and publishes its depth; Run starts the goroutines.
Start ==
    /\ S!Open
    /\ gauge' = count'
    /\ UNCHANGED <<loopVars, dispVars, chan, seen, replies, dropped, outside>>

Next ==
    \/ \E c \in Checks : Complete(c) \/ HandsOver(c)
    \/ Dispatch
    \/ BackoffExpires
    \/ BackendChanges
    \/ Terminate \/ Exit \/ Killed \/ Start

Spec == Init /\ [][Next]_vars

\* A goroutine that can take a step takes one: the scheduler is fair, the
\* spool's calls return, and a post ends with an answer or its timeout.  A
\* select that is ready in several ways infinitely often takes each of them.
FairSpec ==
    /\ Spec
    /\ \A c \in Checks : WF_vars(HandsOver(c))
    /\ WF_vars(Dispatch)
    /\ SF_vars(Receive) /\ SF_vars(SeeCancel) /\ SF_vars(FlushTick)
    /\ WF_vars(BackoffExpires)
    /\ WF_vars(Exit)

-----------------------------------------------------------------------------
(* Properties *)

Waiting == InMemory \cup Within(S!Stored)

\* Every result that was counted as run is waiting somewhere, was received by
\* the backend, or is among the losses the code logs or documents: dropped by
\* the cap or a write error, in memory when the process died, or left behind
\* by a clean exit.
NothingVanishes ==
    1..produced \subseteq
        Waiting \cup received \cup dropped \cup lost \cup stranded

\* The abstract delivery: a batch that is being posted again stays pending until
\* the post has ended, though the cap may drop its file meanwhile.
Posting == IF d = "repost" THEN In(held.results) ELSE {}

O == INSTANCE Outbox WITH
        counted <- produced,
        pending <- Waiting \cup Posting,
        gone    <- dropped \cup lost \cup stranded

\* "Undelivered results are spooled and replayed": what is counted is delivered
\* at least once or given up, and what has left the agent, delivered or given
\* up, is not sent again.
ImplementsOutbox == O!Spec

\* No result is in two hands at once: what is spooled is no longer pending,
\* what is batched is no longer in the channel.
OneHolder ==
    /\ \A c \in Checks : hand[c] # 0 =>
          /\ hand[c] \notin In(chan) \cup In(batch) \cup In(pending)
                              \cup Within(S!Stored)
          /\ \A o \in Checks \ {c} : hand[o] # hand[c]
    /\ In(chan) \cap (In(batch) \cup In(pending) \cup Within(S!Stored)) = {}
    /\ In(batch) \cap (In(pending) \cup Within(S!Stored)) = {}
    /\ In(pending) \cap Within(S!Stored) = {}

\* A process does not post again a result it has seen acknowledged.
AckedOnce ==
    /\ d = "repost" => In(held.results) \cap acked = {}
    /\ d = "post" => In(pending) \cap acked = {}

\* "replaySpool tries to deliver spooled batches oldest-first": nothing in the
\* spool is older than the batch being replayed, whatever was added, trimmed or
\* removed meanwhile.
ReplaysOldestFirst ==
    d = "repost" => \A e \in S!Stored : held.age <= e.age

\* "until retryAt, batches are spooled immediately instead of attempting more
\* posts": once an attempt has failed there is no other before the backoff has
\* passed, on either of the two paths that post.
NoPostWhileBackingOff ==
    waiting => d \notin {"oldest", "repost", "remove", "post"}

\* The drain spools "skipping the network": once the dispatcher has seen
\* the cancelled context, nothing it still holds is sent, or repeated.
DrainStaysOffline ==
    [][draining /\ draining' /\ up' => UNCHANGED <<received, acked>>]_vars

\* If the backend recovers for good and the process keeps running, every result
\* is delivered, unless the code reported it dropped.
EventuallyDelivered ==
    <>[](healthy /\ up /\ ~cancelled) =>
        \A r \in Results :
            r <= produced ~> r \in received \cup dropped \cup lost \cup stranded

\* "A check loop must spool its result and keep its schedule instead of
\* blocking": a loop that has a result can always take its next step itself,
\* whatever the dispatcher waits for.
LoopsNeverBlock ==
    \A c \in Checks : up /\ loop[c] # "wait" => ENABLED HandsOver(c)

\* After SIGTERM the process exits.
ShutdownEnds == cancelled ~> ~up

\* "The spool is replayed on the next start, so nothing is lost": a clean exit
\* leaves no counted result outside the spool and the backend.
CleanExitLosesNothing == stranded = {}
=============================================================================
