----------------------- MODULE ResilientConsumerProofs -----------------------
(***************************************************************************)
(* However many goroutines read and stop, and however often connections    *)
(* break: every consumer of the message queue that ResilientConsumer makes *)
(* is the current one, or one goroutine has it to close, and nobody closes *)
(* it twice.                                                               *)
(***************************************************************************)
EXTENDS ResilientConsumer, TLAPS

\* A reader goes on and neither begins nor ends to close a consumer.
LEMMA ReaderStep ==
  ASSUME IInv, NEW r \in Readers, NEW job \in Jobs,
         reader' = [reader EXCEPT ![r] = job],
         job.step # "close", reader[r].step # "close",
         job.step \in {"consume", "invalidate"} => job.handle \in Handles,
         UNCHANGED <<queue, stops>>
  PROVE  IInv'
<1> USE DEF queue, stops
<1>1. TypeOK'
  BY DEF IInv, TypeOK
<1>2. /\ reader'[r] = job
      /\ \A q \in Readers : q # r => reader'[q] = reader[q]
  BY DEF IInv, TypeOK
<1>3. \A h : ClosingReaders(h)' = ClosingReaders(h) /\ ClosingClosers(h)' = ClosingClosers(h)
  BY <1>2 DEF ClosingReaders, ClosingClosers, At
<1>4. ConsumersClosedOnce'
  BY <1>3 DEF IInv, ConsumersClosedOnce, NoConsumerLeak, ClosedOnce
<1>5. HeldHandles'
  BY <1>2 DEF IInv, HeldHandles, At
<1>6. OneClosing'
  BY <1>2 DEF IInv, OneClosing, At
<1>7. OpenNotClosed'
  BY DEF IInv, OpenNotClosed
<1> QED BY <1>1, <1>4, <1>5, <1>6, <1>7 DEF IInv

\* Leaving Consume is such a step.
LEMMA LeaveKeeps ==
  ASSUME IInv, NEW r \in Readers, NEW s \in Steps, Leave(r, s),
         s \notin {"close", "consume", "invalidate"}, reader[r].step # "close",
         UNCHANGED <<queue, stops>>
  PROVE  IInv'
<1> DEFINE job == [AtLoop EXCEPT !.step = s]
<1>1. job \in Jobs /\ job.step = s
  BY ResilientConsumerAssumption DEF AtLoop, Jobs, Steps, ConsumeSteps, ResilientConsumerAssumption
<1> QED BY <1>1, ReaderStep DEF Leave

\* So is going to a step of Consume.
LEMMA GoKeeps ==
  ASSUME IInv, NEW r \in Readers, NEW s \in Steps, NEW h \in Handles \cup {NoHandle},
         NEW d \in MinDelay..MaxDelay,
         reader' = [reader EXCEPT ![r] = [step |-> s, handle |-> h, delay |-> d]],
         s # "close", reader[r].step # "close",
         s \in {"consume", "invalidate"} => h \in Handles,
         UNCHANGED <<queue, stops>>
  PROVE  IInv'
<1> DEFINE job == [step |-> s, handle |-> h, delay |-> d]
<1>1. job \in Jobs /\ job.step = s /\ job.handle = h
  BY DEF Jobs
<1>2. reader' = [reader EXCEPT ![r] = job]
  OBVIOUS
<1> HIDE DEF job
<1> QED BY <1>1, <1>2, ReaderStep

LEMMA GotoIs ==
  ASSUME TypeOK, NEW r \in Readers, NEW s \in Steps
  PROVE  /\ Goto(r, s) =>
              reader' = [reader EXCEPT ![r] =
                [step |-> s, handle |-> NoHandle, delay |-> reader[r].delay]]
         /\ \A h : With(r, s, h) =>
              reader' = [reader EXCEPT ![r] =
                [step |-> s, handle |-> h, delay |-> reader[r].delay]]
         /\ reader[r].delay \in MinDelay..MaxDelay
         /\ reader[r].handle \in Handles \cup {NoHandle}
BY DEF TypeOK, Jobs, Goto, With

LEMMA GetCurrentKeeps ==
  ASSUME IInv, NEW r \in Readers, GetCurrent(r)
  PROVE  IInv'
<1>1. CASE closed /\ Leave(r, AfterError(r))
  BY <1>1, LeaveKeeps DEF GetCurrent, AfterError, At, Steps
<1>2. CASE ~closed /\ current # NoHandle /\ With(r, "consume", current)
  <2>1. current \in Handles
    BY <1>2 DEF IInv, TypeOK
  <2>2. "consume" \in Steps
    BY DEF Steps, ConsumeSteps
  <2> QED BY <1>2, <2>1, <2>2, GotoIs, GoKeeps DEF GetCurrent, At, IInv
<1> QED BY <1>1, <1>2 DEF GetCurrent

LEMMA CreateFailsKeeps ==
  ASSUME IInv, NEW r \in Readers, CreateFails(r)
  PROVE  IInv'
<1>1. "wait" \in Steps
  BY DEF Steps, ConsumeSteps
<1> QED BY <1>1, GotoIs, GoKeeps DEF CreateFails, At, IInv

LEMMA ConsumeFailsKeeps ==
  ASSUME IInv, NEW r \in Readers, ConsumeFails(r)
  PROVE  IInv'
<1>1. CASE cancelled \/ closed
  BY <1>1, LeaveKeeps DEF ConsumeFails, AfterError, At, Steps
<1>2. CASE ~(cancelled \/ closed)
  <2>1. reader[r].handle \in Handles
    BY DEF IInv, HeldHandles, ConsumeFails, At
  <2>2. "invalidate" \in Steps
    BY DEF Steps, ConsumeSteps
  <2> QED BY <1>2, <2>1, <2>2, GotoIs, GoKeeps DEF ConsumeFails, At, IInv
<1> QED BY <1>1, <1>2

LEMMA WaitReconnectKeeps ==
  ASSUME IInv, NEW r \in Readers, WaitReconnect(r)
  PROVE  IInv'
<1>1. CASE Leave(r, AfterError(r))
  BY <1>1, LeaveKeeps DEF WaitReconnect, AfterError, At, Steps
<1>2. CASE reader' = [reader EXCEPT ![r].step = "get",
                        ![r].delay = NextReconnectDelay(@)]
  <2> DEFINE d == NextReconnectDelay(reader[r].delay)
  <2>1. d \in MinDelay..MaxDelay
    BY ResilientConsumerAssumption
    DEF IInv, TypeOK, Jobs, NextReconnectDelay, ResilientConsumerAssumption
  <2>2. /\ reader[r] \in Jobs
        /\ reader' = [reader EXCEPT ![r] = [[@ EXCEPT !.step = "get"] EXCEPT !.delay = d]]
    BY <1>2 DEF IInv, TypeOK
  <2>5. ASSUME NEW job \in Jobs
        PROVE  [[job EXCEPT !.step = "get"] EXCEPT !.delay = d]
                 = [step |-> "get", handle |-> job.handle, delay |-> d]
    <3> HIDE DEF d
    <3>1. PICK o : o = [job EXCEPT !.step = "get"]
      OBVIOUS
    <3>2. o \in Jobs /\ o.step = "get" /\ o.handle = job.handle
      BY <3>1 DEF Jobs, Steps, ConsumeSteps
    <3>3. [o EXCEPT !.delay = d] = [step |-> o.step, handle |-> o.handle, delay |-> d]
      BY <3>2 DEF Jobs
    <3> QED BY <3>1, <3>2, <3>3
  <2>4. [[reader[r] EXCEPT !.step = "get"] EXCEPT !.delay = d]
           = [step |-> "get", handle |-> reader[r].handle, delay |-> d]
    BY <2>2, <2>5
  <2>3. "get" \in Steps /\ reader[r].handle \in Handles \cup {NoHandle}
    BY GotoIs DEF Steps, ConsumeSteps, IInv, TypeOK, Jobs
  <2> HIDE DEF d
  <2> QED BY <2>1, <2>2, <2>3, <2>4, GoKeeps DEF WaitReconnect, At
<1> QED BY <1>1, <1>2 DEF WaitReconnect

LEMMA LoopsKeep ==
  ASSUME IInv, NEW r \in Readers,
         ConsumeMessage(r) \/ Loop(r) \/ Handled(r) \/ Deliver(r) \/ WaitContext(r)
  PROVE  IInv'
<1>1. /\ UNCHANGED <<queue, stops>>
      /\ reader[r].step # "close"
      /\ \E s \in {"message", "end", "get", "loop", "delay"} : Leave(r, s)
  BY DEF ConsumeMessage, Loop, Handled, Deliver, WaitContext, AfterError, At
<1>2. {"message", "end", "get", "loop", "delay"} \subseteq Steps
  BY DEF Steps, ConsumeSteps
<1> QED BY <1>1, <1>2, LeaveKeeps

LEMMA CreateKeeps ==
  ASSUME IInv, NEW r \in Readers, Create(r)
  PROVE  IInv'
<1>1. PICK h \in Handles : /\ h \notin open /\ closes[h] = 0
                          /\ open' = open \cup {h} /\ current' = h
                          /\ With(r, "consume", h)
  BY DEF Create
<1>2. /\ reader' \in [Readers -> Jobs]
      /\ reader'[r].step = "consume" /\ reader'[r].handle = h
      /\ \A q \in Readers : q # r => reader'[q] = reader[q]
  BY <1>1, GotoIs DEF IInv, TypeOK, Jobs, Steps, ConsumeSteps
<1>3. /\ reader[r].step = "get" /\ ~closed /\ current = NoHandle
      /\ UNCHANGED <<closed, broken, closes, breaks, stops>>
  BY DEF Create, At
<1>4. TypeOK'
  BY <1>1, <1>2, <1>3 DEF IInv, TypeOK, stops
<1>5. \A g : ClosingReaders(g)' = ClosingReaders(g) /\ ClosingClosers(g)' = ClosingClosers(g)
  BY <1>2, <1>3 DEF ClosingReaders, ClosingClosers, At, stops
<1>6. ConsumersClosedOnce'
  BY <1>1, <1>3, <1>5, ResilientConsumerAssumption
  DEF IInv, TypeOK, ConsumersClosedOnce, NoConsumerLeak, ClosedOnce, ResilientConsumerAssumption
<1>7. HeldHandles'
  BY <1>1, <1>2, <1>3 DEF IInv, HeldHandles, At, stops
<1>8. OneClosing'
  BY <1>2, <1>3 DEF IInv, OneClosing, At, stops
<1>9. OpenNotClosed'
  BY <1>1, <1>3 DEF IInv, OpenNotClosed
<1> QED BY <1>4, <1>6, <1>7, <1>8, <1>9 DEF IInv

LEMMA GiveUpKeeps ==
  ASSUME IInv, NEW r \in Readers, Invalidate(r)
  PROVE  IInv'
<1>1. CASE current # reader[r].handle
  <2>1. "wait" \in Steps
    BY DEF Steps, ConsumeSteps
  <2> QED BY <1>1, <2>1, GotoIs, GoKeeps DEF Invalidate, At, IInv, queue
<1>2. CASE current = reader[r].handle
  <2>0. PICK h : h = reader[r].handle
    OBVIOUS
  <2>1. h \in Handles /\ h # NoHandle /\ h \in open
    BY <1>2, <2>0, ResilientConsumerAssumption
    DEF Invalidate, At, IInv, HeldHandles, ConsumersClosedOnce, NoConsumerLeak,
        ResilientConsumerAssumption
  <2>2. /\ reader' \in [Readers -> Jobs]
        /\ reader'[r].step = "close" /\ reader'[r].handle = h
        /\ \A q \in Readers : q # r => reader'[q] = reader[q]
    BY <1>2, <2>0, <2>1, GotoIs DEF Invalidate, IInv, TypeOK, Jobs, Steps, ConsumeSteps
  <2>3. /\ current' = NoHandle
        /\ UNCHANGED <<closed, open, broken, closes, breaks, stops>>
        /\ reader[r].step = "invalidate"
    BY <1>2 DEF Invalidate, At
  <2>4. TypeOK'
    BY <2>2, <2>3 DEF IInv, TypeOK, stops
  <2>5. /\ \A g : g # h => ClosingReaders(g)' = ClosingReaders(g)
        /\ r \in ClosingReaders(h)'
        /\ \A g : ClosingClosers(g)' = ClosingClosers(g)
    BY <2>2, <2>3 DEF ClosingReaders, ClosingClosers, At, stops
  <2>6. current = h
    BY <1>2, <2>0
  <2>7. ConsumersClosedOnce'
    BY <2>3, <2>5, <2>6 DEF IInv, ConsumersClosedOnce, NoConsumerLeak, ClosedOnce
  <2>8. HeldHandles'
    BY <2>1, <2>2, <2>3, ResilientConsumerAssumption
    DEF IInv, TypeOK, HeldHandles, At, stops, ResilientConsumerAssumption
  <2>9. OneClosing'
    BY <2>2, <2>3, <2>6 DEF IInv, OneClosing, HeldHandles, At, stops
  <2>10. OpenNotClosed'
    BY <2>3 DEF IInv, OpenNotClosed
  <2> QED BY <2>4, <2>7, <2>8, <2>9, <2>10 DEF IInv
<1> QED BY <1>1, <1>2

\* A goroutine closes the consumer it has to close: h is no longer open.
LEMMA CloseInvalidKeeps ==
  ASSUME IInv, NEW r \in Readers, CloseInvalid(r)
  PROVE  IInv'
<1> DEFINE h == reader[r].handle
<1>1. /\ reader[r].step = "close" /\ h \in open /\ h # current /\ closes[h] = 0
  BY DEF CloseInvalid, At, IInv, HeldHandles, OpenNotClosed
<1>2. h \in Handles
  BY <1>1 DEF IInv, TypeOK
<1>3. /\ open' = open \ {h} /\ closes' = [closes EXCEPT ![h] = 1]
      /\ UNCHANGED <<current, closed, broken, breaks, stops>>
  BY <1>1, <1>2 DEF CloseInvalid, CloseHandle, IInv, TypeOK
<1>4. /\ reader' \in [Readers -> Jobs]
      /\ reader'[r].step = "wait"
      /\ \A q \in Readers : q # r => reader'[q] = reader[q]
  BY GotoIs DEF CloseInvalid, IInv, TypeOK, Jobs, Steps, ConsumeSteps
<1> HIDE DEF h
<1>5. TypeOK'
  BY <1>2, <1>3, <1>4 DEF IInv, TypeOK, stops
<1>6. \A g : /\ g # h => ClosingReaders(g)' = ClosingReaders(g)
            /\ ClosingClosers(g)' = ClosingClosers(g)
  BY <1>1, <1>3, <1>4 DEF ClosingReaders, ClosingClosers, At, stops, h
<1>7. ConsumersClosedOnce'
  BY <1>1, <1>2, <1>3, <1>6 DEF IInv, TypeOK, ConsumersClosedOnce, NoConsumerLeak, ClosedOnce
<1>8. HeldHandles'
  BY <1>1, <1>3, <1>4 DEF IInv, HeldHandles, OneClosing, At, stops, h
<1>9. OneClosing'
  BY <1>3, <1>4 DEF IInv, OneClosing, At, stops
<1>10. OpenNotClosed'
  BY <1>2, <1>3 DEF IInv, TypeOK, OpenNotClosed
<1> QED BY <1>5, <1>7, <1>8, <1>9, <1>10 DEF IInv

LEMMA CloseCurrentKeeps ==
  ASSUME IInv, NEW c \in Closers, CloseCurrent(c)
  PROVE  IInv'
<1> DEFINE h == closer[c].handle
<1>1. /\ closer[c].step = "closeHandle" /\ h \in open /\ h # current /\ closes[h] = 0
  BY DEF CloseCurrent, IInv, HeldHandles, OpenNotClosed
<1>2. h \in Handles
  BY <1>1 DEF IInv, TypeOK
<1>3. /\ open' = open \ {h} /\ closes' = [closes EXCEPT ![h] = 1]
      /\ UNCHANGED <<current, closed, broken, breaks, cancelled, stopping, reader>>
  BY <1>1, <1>2 DEF CloseCurrent, CloseHandle, IInv, TypeOK
<1>4. /\ closer' \in [Closers -> ClosingJobs]
      /\ closer'[c].step = "wait"
      /\ \A d \in Closers : d # c => closer'[d] = closer[d]
  BY DEF CloseCurrent, IInv, TypeOK, ClosingJobs, CloserSteps
<1> HIDE DEF h
<1>5. TypeOK'
  BY <1>2, <1>3, <1>4 DEF IInv, TypeOK
<1>7. ConsumersClosedOnce'
  <2>1. ClosedOnce'
    BY <1>2, <1>3 DEF IInv, TypeOK, ConsumersClosedOnce, ClosedOnce
  <2>2. NoConsumerLeak'
    <3>1. ASSUME NEW g \in open'
          PROVE  g = current' \/ ClosingReaders(g)' # {} \/ ClosingClosers(g)' # {}
      <4>1. g \in open /\ g # h /\ current' = current
        BY <1>3
      <4>2. ClosingReaders(g)' = ClosingReaders(g) /\ ClosingClosers(g)' = ClosingClosers(g)
        BY <4>1, <1>1, <1>3, <1>4 DEF ClosingReaders, ClosingClosers, At, h
      <4>3. g = current \/ ClosingReaders(g) # {} \/ ClosingClosers(g) # {}
        BY <4>1 DEF IInv, ConsumersClosedOnce, NoConsumerLeak
      <4> QED BY <4>1, <4>2, <4>3
    <3>2. current' # NoHandle => ~closed' /\ current' \in open'
      BY <1>1, <1>3 DEF IInv, ConsumersClosedOnce, NoConsumerLeak
    <3> QED BY <3>1, <3>2 DEF NoConsumerLeak
  <2> QED BY <2>1, <2>2 DEF ConsumersClosedOnce
<1>8. HeldHandles'
  BY <1>1, <1>3, <1>4 DEF IInv, HeldHandles, OneClosing, At, h
<1>9. OneClosing'
  BY <1>3, <1>4 DEF IInv, OneClosing, At
<1>10. OpenNotClosed'
  BY <1>2, <1>3 DEF IInv, TypeOK, OpenNotClosed
<1> QED BY <1>5, <1>7, <1>8, <1>9, <1>10 DEF IInv

\* Close takes the current consumer from whoever would give it up next.
LEMMA CloseKeeps ==
  ASSUME IInv, NEW c \in Closers, Close(c)
  PROVE  IInv'
<1>1. /\ closer[c].step = "close"
      /\ UNCHANGED <<open, broken, closes, breaks, cancelled, stopping, reader>>
  BY DEF Close
<1>2. /\ closer' \in [Closers -> ClosingJobs]
      /\ \A d \in Closers : d # c => closer'[d] = closer[d]
  BY DEF Close, IInv, TypeOK, ClosingJobs, CloserSteps
<1>3. CASE ~closed /\ current # NoHandle
  <2>0. PICK h : h = current
    OBVIOUS
  <2>1. /\ closed' = TRUE /\ current' = NoHandle
        /\ closer'[c].step = "closeHandle" /\ closer'[c].handle = h
    BY <1>3, <2>0 DEF Close, IInv, TypeOK, ClosingJobs
  <2>2. TypeOK'
    BY <1>1, <1>2, <2>1 DEF IInv, TypeOK
  <2>3. /\ \A g : ClosingReaders(g)' = ClosingReaders(g)
        /\ \A g : g # h => ClosingClosers(g)' = ClosingClosers(g)
        /\ c \in ClosingClosers(h)'
    BY <1>1, <1>2, <2>1 DEF ClosingReaders, ClosingClosers, At
  <2>4. current \in open /\ current \in Handles
    BY <1>3 DEF IInv, TypeOK, ConsumersClosedOnce, NoConsumerLeak
  <2>5. ConsumersClosedOnce'
    BY <1>1, <2>0, <2>1, <2>3 DEF IInv, ConsumersClosedOnce, NoConsumerLeak, ClosedOnce
  <2>6. HeldHandles'
    BY <1>1, <1>2, <2>0, <2>1, <2>4, ResilientConsumerAssumption
    DEF IInv, TypeOK, HeldHandles, At, ResilientConsumerAssumption
  <2>7. OneClosing'
    BY <1>1, <1>2, <2>0, <2>1 DEF IInv, OneClosing, HeldHandles, At
  <2>8. OpenNotClosed'
    BY <1>1 DEF IInv, OpenNotClosed
  <2> QED BY <2>2, <2>5, <2>6, <2>7, <2>8 DEF IInv
<1>4. CASE closed \/ current = NoHandle
  <2>1. /\ closed' = TRUE /\ current' = NoHandle /\ current = NoHandle
        /\ closer'[c].step = "wait"
    BY <1>4 DEF Close, IInv, TypeOK, ClosingJobs, ConsumersClosedOnce, NoConsumerLeak
  <2>2. TypeOK'
    BY <1>1, <1>2, <2>1 DEF IInv, TypeOK
  <2>3. \A g : ClosingReaders(g)' = ClosingReaders(g) /\ ClosingClosers(g)' = ClosingClosers(g)
    BY <1>1, <1>2, <2>1 DEF ClosingReaders, ClosingClosers, At
  <2>4. ConsumersClosedOnce'
    BY <1>1, <2>1, <2>3 DEF IInv, ConsumersClosedOnce, NoConsumerLeak, ClosedOnce
  <2>5. HeldHandles'
    BY <1>1, <1>2, <2>1 DEF IInv, HeldHandles, At
  <2>6. OneClosing'
    BY <1>1, <1>2, <2>1 DEF IInv, OneClosing, At
  <2>7. OpenNotClosed'
    BY <1>1 DEF IInv, OpenNotClosed
  <2> QED BY <2>2, <2>4, <2>5, <2>6, <2>7 DEF IInv
<1> QED BY <1>3, <1>4

\* Stop before and after Close
LEMMA StopKeeps ==
  ASSUME IInv, NEW c \in Closers, Stop(c) \/ StopWaits(c)
  PROVE  IInv'
<1>1. /\ UNCHANGED <<queue, cancelled, reader>> /\ stopping' \in BOOLEAN
      /\ closer[c].step # "closeHandle"
      /\ \E s \in {"close", "done"} : closer' = [closer EXCEPT ![c].step = s]
  BY DEF Stop, StopWaits, IInv, TypeOK
<1>2. /\ closer' \in [Closers -> ClosingJobs]
      /\ closer'[c].step # "closeHandle"
      /\ \A d \in Closers : d # c => closer'[d] = closer[d]
  BY <1>1 DEF IInv, TypeOK, ClosingJobs, CloserSteps
<1>3. TypeOK'
  BY <1>1, <1>2 DEF IInv, TypeOK, queue
<1>4. \A g : ClosingReaders(g)' = ClosingReaders(g) /\ ClosingClosers(g)' = ClosingClosers(g)
  BY <1>1, <1>2 DEF ClosingReaders, ClosingClosers, At
<1>5. ConsumersClosedOnce'
  BY <1>1, <1>4 DEF IInv, ConsumersClosedOnce, NoConsumerLeak, ClosedOnce, queue
<1>6. HeldHandles'
  BY <1>1, <1>2 DEF IInv, HeldHandles, At, queue
<1>7. OneClosing'
  BY <1>1, <1>2 DEF IInv, OneClosing, At
<1>8. OpenNotClosed'
  BY <1>1 DEF IInv, OpenNotClosed, queue
<1> QED BY <1>3, <1>5, <1>6, <1>7, <1>8 DEF IInv

\* What changes neither a consumer nor who holds one
LEMMA OutsideKeeps ==
  ASSUME IInv, UNCHANGED <<current, closed, open, closes, reader, closer>>, TypeOK'
  PROVE  IInv'
<1>1. \A g : ClosingReaders(g)' = ClosingReaders(g) /\ ClosingClosers(g)' = ClosingClosers(g)
  BY DEF ClosingReaders, ClosingClosers, At
<1>2. ConsumersClosedOnce'
  BY <1>1 DEF IInv, ConsumersClosedOnce, NoConsumerLeak, ClosedOnce
<1> QED BY <1>2 DEF IInv, HeldHandles, OneClosing, OpenNotClosed, At

LEMMA NextKeeps == IInv /\ [Next]_vars => IInv'
<1> SUFFICES ASSUME IInv, [Next]_vars PROVE IInv'
  OBVIOUS
<1>1. ASSUME NEW r \in Readers, Read(r) PROVE IInv'
  BY <1>1, GetCurrentKeeps, CreateKeeps, CreateFailsKeeps, ConsumeFailsKeeps,
     GiveUpKeeps, CloseInvalidKeeps, WaitReconnectKeeps, LoopsKeep
  DEF Read, Consume
<1>2. ASSUME NEW c \in Closers, Stop(c) \/ Close(c) \/ CloseCurrent(c) \/ StopWaits(c)
      PROVE  IInv'
  BY <1>2, StopKeeps, CloseKeeps, CloseCurrentKeeps
<1>3. CASE Cancel
  <2>1. TypeOK'
    BY <1>3 DEF Cancel, IInv, TypeOK, queue
  <2> QED BY <1>3, <2>1, OutsideKeeps DEF Cancel, queue
<1>4. CASE Break
  <2>1. TypeOK'
    BY <1>4, ResilientConsumerAssumption
    DEF Break, IInv, TypeOK, stops, ResilientConsumerAssumption
  <2> QED BY <1>4, <2>1, OutsideKeeps DEF Break, stops
<1>5. CASE UNCHANGED vars
  <2>1. TypeOK'
    BY <1>5 DEF vars, IInv, TypeOK
  <2> QED BY <1>5, <2>1, OutsideKeeps DEF vars
<1> QED BY <1>1, <1>2, <1>3, <1>4, <1>5 DEF Next

LEMMA InitHolds == Init => IInv
<1> SUFFICES ASSUME Init PROVE IInv
  OBVIOUS
<1>1. AtLoop \in Jobs /\ AtLoop.step = "loop"
  BY ResilientConsumerAssumption DEF AtLoop, Jobs, Steps, ResilientConsumerAssumption
<1>2. TypeOK
  <2>1. reader \in [Readers -> Jobs]
    BY <1>1 DEF Init
  <2>2. closer \in [Closers -> ClosingJobs]
    BY DEF Init, ClosingJobs, CloserSteps
  <2>3. breaks \in 0..MaxBreaks
    BY ResilientConsumerAssumption DEF Init, ResilientConsumerAssumption
  <2>4. closes \in [Handles -> 0..2]
    BY DEF Init
  <2> QED BY <2>1, <2>2, <2>3, <2>4 DEF Init, TypeOK
<1>3. ConsumersClosedOnce
  BY DEF Init, ConsumersClosedOnce, NoConsumerLeak, ClosedOnce
<1>4. HeldHandles /\ OneClosing /\ OpenNotClosed
  BY <1>1 DEF Init, HeldHandles, OneClosing, OpenNotClosed, At
<1> QED BY <1>2, <1>3, <1>4 DEF IInv

\* The inductive invariant holds for any readers, callers of Stop and breaks
\* (resilient_consumer.go:111-155: Close, getOrCreate and invalidate).
THEOREM ConsumerInvariant == Spec => []IInv
BY InitHolds, NextKeeps, PTL DEF Spec

\* Every variable keeps its type; the delay stays between its two limits
\* (nextReconnectDelay, resilient_consumer.go:185).
THEOREM ConsumerTypes == Spec => []TypeOK
<1>1. IInv => TypeOK
  BY DEF IInv
<1> QED BY <1>1, ConsumerInvariant, PTL

\* No consumer is lost and none is closed twice, in whatever order Close and
\* the readers' reconnections come (resilient_consumer.go:111-155).
THEOREM EveryConsumerClosedOnce == Spec => []ConsumersClosedOnce
<1>1. IInv => ConsumersClosedOnce
  BY DEF IInv
<1> QED BY <1>1, ConsumerInvariant, PTL
=============================================================================
