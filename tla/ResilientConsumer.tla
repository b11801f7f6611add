-------------------------- MODULE ResilientConsumer --------------------------
(***************************************************************************)
(* pkg/mqx: a ResilientConsumer shared by the goroutines that read a topic *)
(* (ConsumeLoop, Consumer.consume, ConsumeChan) and closed by the service  *)
(* when it stops. It makes a consumer of the message queue when it has     *)
(* none, gives it up when reading fails and makes another one after a      *)
(* growing delay.                                                          *)
(*                                                                         *)
(* A step of this module is what the code does under the mutex, or one     *)
(* call of the message queue. The queue is outside the repository: making  *)
(* a consumer may fail, reading returns when its context is cancelled or   *)
(* its consumer is closed, and a consumer may break.                       *)
(***************************************************************************)
EXTENDS Naturals

CONSTANTS
    Loops,     \* goroutines in ConsumeLoop
    Workers,   \* goroutines in Consumer.consume
    Channels,  \* goroutines of ConsumeChan
    Closers,   \* calls of Stop or Close
    Handles,   \* consumers the message queue makes
    NoHandle,
    MinDelay, MaxDelay,  \* minReconnectDelay, maxReconnectDelay in seconds
    MaxBreaks  \* bound: consumers that break

Readers == Loops \cup Workers \cup Channels

ASSUME ResilientConsumerAssumption ==
    /\ NoHandle \notin Handles
    /\ MinDelay \in Nat \ {0} /\ MaxDelay \in Nat /\ MinDelay <= MaxDelay
    /\ MaxBreaks \in Nat
    /\ Readers \cap Closers = {}

VARIABLES
    current,   \* c.current
    closed,    \* c.closed; the lifecycle context is cancelled with it
    open,      \* the queue's consumers that are made and not closed
    broken,    \* those that cannot read any more
    closes,    \* [Handles -> 0..2]: calls of Close, two stands for more
    cancelled, \* the context of the readers, cancelled when the service stops
    stopping,  \* Consumer.ctx, cancelled by Consumer.Stop
    reader,    \* [Readers -> Jobs]
    closer,    \* [Closers -> closing jobs]
    breaks     \* breaks so far

vars == <<current, closed, open, broken, closes, cancelled, stopping, reader,
          closer, breaks>>

\* In Consume, and what its callers do before and after it
ConsumeSteps == {"get", "consume", "invalidate", "close", "wait"}
Steps == ConsumeSteps \cup {"loop", "message", "delay", "end"}
Jobs == [step : Steps, handle : Handles \cup {NoHandle},
         delay : MinDelay..MaxDelay]

CloserSteps == {"idle", "close", "closeHandle", "wait", "done"}
ClosingJobs == [step : CloserSteps, handle : Handles \cup {NoHandle}]

TypeOK ==
    /\ current \in Handles \cup {NoHandle}
    /\ closed \in BOOLEAN
    /\ open \subseteq Handles
    /\ broken \subseteq Handles
    /\ closes \in [Handles -> 0..2]
    /\ cancelled \in BOOLEAN
    /\ stopping \in BOOLEAN
    /\ reader \in [Readers -> Jobs]
    /\ closer \in [Closers -> ClosingJobs]
    /\ breaks \in 0..MaxBreaks

AtLoop == [step |-> "loop", handle |-> NoHandle, delay |-> MinDelay]

Init ==
    /\ current = NoHandle
    /\ closed = FALSE
    /\ open = {}
    /\ broken = {}
    /\ closes = [h \in Handles |-> 0]
    /\ cancelled = FALSE
    /\ stopping = FALSE
    /\ reader = [r \in Readers |-> AtLoop]
    /\ closer = [c \in Closers |-> [step |-> "idle", handle |-> NoHandle]]
    /\ breaks = 0

queue == <<current, closed, open, broken, closes, breaks>>
stops == <<cancelled, stopping, closer>>

At(r, s)   == reader[r].step = s
\* To a step of Consume that uses the queue's consumer no more
Goto(r, s) == reader' = [reader EXCEPT ![r].step = s, ![r].handle = NoHandle]
\* To one that does
With(r, s, h) == reader' = [reader EXCEPT ![r].step = s, ![r].handle = h]
\* Out of Consume
Leave(r, s) == reader' = [reader EXCEPT ![r] = [AtLoop EXCEPT !.step = s]]

\* The queue closes a consumer
CloseHandle(h) ==
    /\ open' = open \ {h}
    /\ closes' = [closes EXCEPT ![h] = IF @ < 2 THEN @ + 1 ELSE @]

-----------------------------------------------------------------------------
(***************************************************************************)
(* ResilientConsumer.Consume. What a goroutine does by itself goes with    *)
(* its next look at what others share.                                     *)
(***************************************************************************)

\* Consume returns an error: ConsumeLoop goes on after a delay, which ends when
\* its context is cancelled, and the other two loops end
AfterError(r) == IF r \in Loops THEN "delay" ELSE "end"

\* getOrCreate of a closed consumer, or of one that exists
GetCurrent(r) ==
    /\ At(r, "get")
    /\ \/ closed /\ Leave(r, AfterError(r))
       \/ ~closed /\ current # NoHandle /\ With(r, "consume", current)
    /\ UNCHANGED <<queue, stops>>

\* Mutant of Create: asks outside the mutex and keeps what it got
CreateUnlocked(r) ==
    /\ At(r, "get")
    /\ \E h \in Handles :
         /\ h \notin open /\ closes[h] = 0
         /\ open' = open \cup {h}
         /\ current' = h
         /\ With(r, "consume", h)
    /\ UNCHANGED <<closed, broken, closes, breaks, stops>>

\* getOrCreate makes a consumer, all under the mutex
Create(r) ==
    /\ At(r, "get")
    /\ ~closed /\ current = NoHandle
    /\ \E h \in Handles :
         /\ h \notin open /\ closes[h] = 0
         /\ open' = open \cup {h}
         /\ current' = h
         /\ With(r, "consume", h)
    /\ UNCHANGED <<closed, broken, closes, breaks, stops>>

CreateFails(r) ==
    /\ At(r, "get")
    /\ ~closed /\ current = NoHandle
    /\ Goto(r, "wait")
    /\ UNCHANGED <<queue, stops>>

\* The queue's Consume returns a message ...
ConsumeMessage(r) ==
    /\ At(r, "consume")
    /\ reader[r].handle \in open \ broken
    /\ Leave(r, "message")
    /\ UNCHANGED <<queue, stops>>

\* Mutant of ConsumeFails: the attempt has only the caller's context
ConsumeIgnoresClose(r) ==
    /\ At(r, "consume")
    /\ reader[r].handle \in broken \/ cancelled
    /\ IF cancelled \/ closed
         THEN Leave(r, AfterError(r))
         ELSE With(r, "invalidate", reader[r].handle)
    /\ UNCHANGED <<queue, stops>>

\* ... or an error: its consumer is broken or closed, or the attempt's context
\* is cancelled, by the caller or by Close (withLifecycleContext). Then the
\* code asks whether its context is cancelled or it is closed.
ConsumeFails(r) ==
    /\ At(r, "consume")
    /\ reader[r].handle \notin open \ broken \/ cancelled \/ closed
    /\ IF cancelled \/ closed
         THEN Leave(r, AfterError(r))
         ELSE With(r, "invalidate", reader[r].handle)
    /\ UNCHANGED <<queue, stops>>

\* Mutant of Invalidate: every reader closes the consumer it read from
InvalidateAlways(r) ==
    /\ At(r, "invalidate")
    /\ current' = NoHandle /\ With(r, "close", reader[r].handle)
    /\ UNCHANGED <<closed, open, broken, closes, breaks, stops>>

\* Mutant of Invalidate: the consumer is closed and stays the current one
InvalidateKeeps(r) ==
    /\ At(r, "invalidate")
    /\ IF current = reader[r].handle
         THEN With(r, "close", reader[r].handle) ELSE Goto(r, "wait")
    /\ UNCHANGED <<queue, stops>>

\* invalidate gives up the consumer, unless another goroutine already has
Invalidate(r) ==
    /\ At(r, "invalidate")
    /\ IF current = reader[r].handle
         THEN current' = NoHandle /\ With(r, "close", reader[r].handle)
         ELSE UNCHANGED current /\ Goto(r, "wait")
    /\ UNCHANGED <<closed, open, broken, closes, breaks, stops>>

CloseInvalid(r) ==
    /\ At(r, "close")
    /\ CloseHandle(reader[r].handle)
    /\ Goto(r, "wait")
    /\ UNCHANGED <<current, closed, broken, breaks, stops>>

\* nextReconnectDelay
NextReconnectDelay(d) == IF 2 * d > MaxDelay THEN MaxDelay ELSE 2 * d

\* waitReconnect, and the top of Consume's loop that asks the context again
WaitReconnect(r) ==
    /\ At(r, "wait")
    /\ \/ (cancelled \/ closed) /\ Leave(r, AfterError(r))
       \/ /\ ~cancelled
          /\ reader' = [reader EXCEPT ![r].step = "get",
                          ![r].delay = NextReconnectDelay(@)]
    /\ UNCHANGED <<queue, stops>>

Consume(r) ==
    \/ GetCurrent(r) \/ Create(r) \/ CreateFails(r)
    \/ ConsumeMessage(r) \/ ConsumeFails(r) \/ Invalidate(r)
    \/ CloseInvalid(r) \/ WaitReconnect(r)

-----------------------------------------------------------------------------
(***************************************************************************)
(* The goroutines that call Consume                                        *)
(***************************************************************************)

\* The top of each loop and of Consume: the context, and Consumer.ctx where
\* there is one
Loop(r) ==
    /\ At(r, "loop")
    /\ Leave(r, IF cancelled \/ (r \in Workers /\ stopping)
                  THEN "end" ELSE "get")
    /\ UNCHANGED <<queue, stops>>

\* The handler of a message returns. Only ConsumeLoop waits after its error.
Handled(r) ==
    /\ At(r, "message") /\ r \notin Channels
    /\ \/ Leave(r, "loop")
       \/ r \in Loops /\ Leave(r, AfterError(r))
    /\ UNCHANGED <<queue, stops>>

\* ConsumeChan offers the message to whoever reads the channel
Deliver(r) ==
    /\ At(r, "message") /\ r \in Channels
    /\ \/ Leave(r, "loop")
       \/ cancelled /\ Leave(r, "end")
    /\ UNCHANGED <<queue, stops>>

\* waitContext
WaitContext(r) ==
    /\ At(r, "delay")
    /\ \/ cancelled /\ Leave(r, "end")
       \/ Leave(r, "loop")
    /\ UNCHANGED <<queue, stops>>

-----------------------------------------------------------------------------
(***************************************************************************)
(* Stopping                                                                *)
(***************************************************************************)

\* The service's context is cancelled
Cancel ==
    /\ ~cancelled
    /\ cancelled' = TRUE
    /\ UNCHANGED <<queue, stopping, reader, closer>>

\* Consumer.Stop cancels its own context and closes
Stop(c) ==
    /\ closer[c].step = "idle"
    /\ stopping' = TRUE
    /\ closer' = [closer EXCEPT ![c].step = "close"]
    /\ UNCHANGED <<queue, cancelled, reader>>

\* ResilientConsumer.Close under the mutex
Close(c) ==
    /\ closer[c].step = "close"
    /\ IF closed
         THEN /\ closer' = [closer EXCEPT ![c].step = "wait"]
              /\ UNCHANGED <<closed, current>>
         ELSE /\ closed' = TRUE
              /\ current' = NoHandle
              /\ closer' = [closer EXCEPT ![c].handle = current,
                   ![c].step = IF current = NoHandle
                                 THEN "wait" ELSE "closeHandle"]
    /\ UNCHANGED <<open, broken, closes, breaks, cancelled, stopping, reader>>

CloseCurrent(c) ==
    /\ closer[c].step = "closeHandle"
    /\ CloseHandle(closer[c].handle)
    /\ closer' = [closer EXCEPT ![c].step = "wait", ![c].handle = NoHandle]
    /\ UNCHANGED <<current, closed, broken, breaks, cancelled, stopping,
                   reader>>

\* Consumer.Stop waits for its goroutines
StopWaits(c) ==
    /\ closer[c].step = "wait"
    /\ \A r \in Workers : At(r, "end")
    /\ closer' = [closer EXCEPT ![c].step = "done"]
    /\ UNCHANGED <<queue, cancelled, stopping, reader>>

\* The connection behind the current consumer is gone
Break ==
    /\ breaks < MaxBreaks
    /\ current # NoHandle /\ current \notin broken
    /\ broken' = broken \cup {current}
    /\ breaks' = breaks + 1
    /\ UNCHANGED <<current, closed, open, closes, reader, stops>>

Read(r) ==
    \/ Consume(r) \/ Loop(r) \/ Handled(r) \/ Deliver(r)
    \/ WaitContext(r)

Next ==
    \/ \E r \in Readers : Read(r)
    \/ \E c \in Closers :
         Stop(c) \/ Close(c) \/ CloseCurrent(c) \/ StopWaits(c)
    \/ Cancel \/ Break

Spec == Init /\ [][Next]_vars

\* The scheduler runs every goroutine on, handlers return, the queue answers
\* a reader it can answer no more, and the brokers come back some time.
Fairness ==
    /\ \A r \in Readers : WF_vars(Read(r)) /\ SF_vars(Create(r))
    /\ \A c \in Closers :
         WF_vars(Close(c)) /\ WF_vars(CloseCurrent(c)) /\ WF_vars(StopWaits(c))

FairSpec == Spec /\ Fairness

-----------------------------------------------------------------------------
(***************************************************************************)
(* Properties                                                              *)
(***************************************************************************)

\* The goroutines that will close a consumer
ClosingReaders(h) ==
    {r \in Readers : At(r, "close") /\ reader[r].handle = h}
ClosingClosers(h) ==
    {c \in Closers : closer[c].step = "closeHandle" /\ closer[c].handle = h}

\* Close, invalidate and getOrCreate in any order leak no consumer: what is
\* open is the current one or somebody is about to close it, and after Close
\* there is no current one.
NoConsumerLeak ==
    /\ \A h \in open : \/ h = current
                       \/ ClosingReaders(h) # {}
                       \/ ClosingClosers(h) # {}
    /\ current # NoHandle => ~closed /\ current \in open

\* Readers that fail together and a Close in between close a consumer once.
ClosedOnce == \A h \in Handles : closes[h] <= 1

\* No consumer is lost and none is closed twice (resilient_consumer.go:111-155).
ConsumersClosedOnce == NoConsumerLeak /\ ClosedOnce

\* Stop comes back: each goroutine it waits for leaves Consume, in whatever
\* step Close finds it, and then its loop.
StopReturns ==
    \A c \in Closers : closer[c].step = "close" ~> closer[c].step = "done"

Reads(r) ==
    \/ ~(reader[r].step \in ConsumeSteps)
    \/ At(r, "consume") /\ reader[r].handle \in open \ broken

\* A reader whose consumer breaks, or is closed by another reader, gets one
\* that works again.
KeepsReading ==
    \A r \in Readers :
        reader[r].step \in ConsumeSteps ~> Reads(r) \/ closed \/ cancelled

-----------------------------------------------------------------------------
(***************************************************************************)
(* The inductive invariant                                                 *)
(***************************************************************************)

\* What a goroutine holds of the consumer it works with: a reader may work
\* with one that was closed long ago, but what it is about to close is open
\* and not the current one.
HeldHandles ==
    /\ \A r \in Readers :
         /\ reader[r].step \in {"consume", "invalidate"} => reader[r].handle \in Handles
         /\ At(r, "close") => reader[r].handle \in open \ {current}
    /\ \A c \in Closers :
         closer[c].step = "closeHandle" => closer[c].handle \in open \ {current}

\* No two goroutines are about to close the same consumer.
OneClosing ==
    /\ \A r, q \in Readers :
         At(r, "close") /\ At(q, "close") /\ reader[r].handle = reader[q].handle => r = q
    /\ \A c, d \in Closers :
         /\ closer[c].step = "closeHandle" /\ closer[d].step = "closeHandle"
         /\ closer[c].handle = closer[d].handle
         => c = d
    /\ \A r \in Readers, c \in Closers :
         At(r, "close") /\ closer[c].step = "closeHandle"
            => reader[r].handle # closer[c].handle

\* What is open has not been closed.
OpenNotClosed == \A h \in open : closes[h] = 0

\* The inductive invariant
IInv == TypeOK /\ ConsumersClosedOnce /\ HeldHandles /\ OneClosing /\ OpenNotClosed
=============================================================================
