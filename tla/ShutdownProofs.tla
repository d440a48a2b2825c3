--------------------------- MODULE ShutdownProofs ---------------------------
(***************************************************************************)
(* Proofs about Shutdown, for every number of updates, requests, ticks and *)
(* polling errors.  IInv adds to the types what the order of the signal    *)
(* handler guarantees at each of its stages.                               *)
(***************************************************************************)
EXTENDS Shutdown, TLAPS

(* Every delivery in the tracker was launched by a request that has left.  *)
Launched == requests.inside + pipelines <= requests.total

(* Before the signal nothing is awaited, skipped, drained or closed.       *)
BeforeSignal ==
  /\ flag <=> pc # "no"
  /\ ~flag => gated = {} /\ ~awaited.poll /\ ~drained /\ db = "open"

(* What the handler captured covers what still runs.                       *)
Captured ==
  flag =>
    /\ polling = "running" => awaited.poll
    /\ retry # "idle" => awaited.retry
    /\ ~awaited.http => requests.inside = 0

(* The stages: no request after app.close(), no delivery of a request      *)
(* after the drain, no captured run after the pool was asked to close.     *)
Stages ==
  /\ pc \in {"draining", "closeDb", "exit0"} => ~awaited.http
  /\ drained => flag /\ ~awaited.http /\ pipelines = 0
  /\ pc \in {"closeDb", "exit0"} \/ db = "closed" => flag /\ drained /\ RunsEnded
  /\ db = "closed" => pc \in {"closeDb", "exit0", "exit1"}

(* A batch is a run of updates after the last one tried, and only a        *)
(* running loop holds one.                                                 *)
Batches ==
  /\ polling # "running" => ~handling /\ batch = {}
  /\ \E n \in tried..MaxUpdates : batch = (tried + 1)..n
  /\ confirmed <= tried

IInv ==
  /\ TypeOK /\ Launched /\ BeforeSignal /\ Captured /\ Stages /\ Batches
  /\ SkippedStaysQueued

-----------------------------------------------------------------------------
(* The first update of a batch is the one after the last one tried.        *)
LEMMA FirstOfBatch ==
  ASSUME TypeOK, Batches, batch # {}
  PROVE  /\ (CHOOSE u \in batch : \A v \in batch : u <= v) = tried + 1
         /\ tried + 1 \in batch
         /\ \E n \in (tried + 1)..MaxUpdates : batch \ {tried + 1} = (tried + 2)..n
  <1>1. PICK n \in tried..MaxUpdates : batch = (tried + 1)..n
    BY DEF Batches
  <1>2. tried \in Nat /\ MaxUpdates \in Nat
    BY ShutdownAssumption DEF ShutdownAssumption, TypeOK
  <1>3. tried + 1 \in batch /\ \A v \in batch : tried + 1 <= v
    BY <1>1, <1>2
  <1>4. \A u \in batch : (\A v \in batch : u <= v) => u = tried + 1
    BY <1>1, <1>2, <1>3
  <1>5. n \in (tried + 1)..MaxUpdates /\ batch \ {tried + 1} = (tried + 2)..n
    BY <1>1, <1>2
  <1> QED BY <1>3, <1>4, <1>5

(* Initially nothing runs and nothing was fetched.                         *)
LEMMA InitIInv == Init => IInv
  <1> SUFFICES ASSUME Init PROVE IInv
    OBVIOUS
  <1> USE ShutdownAssumption DEF ShutdownAssumption, Init
  <1>0. flag \in BOOLEAN /\ drained \in BOOLEAN /\ handling \in BOOLEAN
    BY Zenon
  <1>1. TypeOK
    BY <1>0 DEF TypeOK
  <1>2. Launched /\ BeforeSignal /\ Captured /\ Stages /\ SkippedStaysQueued
    BY DEF Launched, BeforeSignal, Captured, Stages, SkippedStaysQueued
  <1>3. 0 \in tried..MaxUpdates /\ batch = (tried + 1)..0
    OBVIOUS
  <1>4. Batches
    BY <1>3 DEF Batches
  <1> QED BY <1>1, <1>2, <1>4 DEF IInv

(* Steps of the polling loop leave the shutdown and the other work alone.  *)
LEMMA PollingKeeps ==
  ASSUME IInv, StartPolling \/ RestartPolling \/ Fetch \/ TryUpdate \/ EndHandler \/ PollingEnds
  PROVE  IInv'
  <1> USE ShutdownAssumption DEF ShutdownAssumption, IInv, TypeOK
  <1>1. CASE StartPolling
    <2> USE <1>1 DEF StartPolling, MayPoll, sequence, work
    <2>1. TypeOK'
      OBVIOUS
    <2>2. Launched' /\ BeforeSignal' /\ Captured' /\ Stages'
      BY DEF Launched, BeforeSignal, Captured, Stages, RunsEnded
    <2>3. Batches' /\ SkippedStaysQueued'
      BY DEF Batches, SkippedStaysQueued
    <2> QED BY <2>1, <2>2, <2>3
  <1>2. CASE RestartPolling
    <2> USE <1>2 DEF RestartPolling, sequence, work
    <2>1. TypeOK'
      OBVIOUS
    <2>2. Launched' /\ BeforeSignal' /\ Captured' /\ Stages'
      BY DEF Launched, BeforeSignal, Captured, Stages, RunsEnded
    <2>3. Batches' /\ SkippedStaysQueued'
      BY DEF Batches, SkippedStaysQueued
    <2> QED BY <2>1, <2>2, <2>3
  <1>3. CASE Fetch
    <2> USE <1>3 DEF Fetch, sequence, work
    <2>1. PICK n \in (tried + 1)..MaxUpdates : batch' = (tried + 1)..n
      OBVIOUS
    <2>2. TypeOK'
      BY <2>1
    <2>3. Launched' /\ BeforeSignal' /\ Captured' /\ Stages'
      BY DEF Launched, BeforeSignal, Captured, Stages, RunsEnded
    <2>4. gated = {}
      BY DEF Captured, BeforeSignal
    <2>5. SkippedStaysQueued'
      BY <2>4 DEF SkippedStaysQueued
    <2>6. Batches'
      BY <2>1 DEF Batches
    <2> QED BY <2>2, <2>3, <2>5, <2>6
  <1>4. CASE TryUpdate
    <2>1. tried' = tried + 1 /\ tried + 1 \in batch
      BY <1>4, FirstOfBatch DEF TryUpdate
    <2>2. \E n \in tried'..MaxUpdates : batch' = (tried' + 1)..n
      BY <1>4, <2>1, FirstOfBatch DEF TryUpdate
    <2>3. /\ UNCHANGED <<sequence, work, polling, errors, confirmed>>
          /\ polling = "running" /\ batch' = batch \ {tried'}
      BY <1>4 DEF TryUpdate
    <2>4. handling' \in BOOLEAN
      BY <1>4, Zenon DEF TryUpdate
    <2>5. gated' = gated \/ (flag /\ gated' = gated \cup {tried'})
      <3>1. CASE flag
        BY <1>4, <3>1, Zenon DEF TryUpdate, Admitted
      <3>2. CASE ~flag
        BY <1>4, <3>2, Zenon DEF TryUpdate, Admitted
      <3> QED BY <3>1, <3>2
    <2>6. TypeOK'
      <3>1. gated' \subseteq 1..MaxUpdates
        BY <2>1, <2>5
      <3>2. tried' \in 0..MaxUpdates
        BY <2>1
      <3> QED BY <2>3, <2>4, <3>1, <3>2 DEF sequence, work
    <2>7. Launched' /\ BeforeSignal' /\ Captured' /\ Stages'
      BY <2>3, <2>5 DEF Launched, BeforeSignal, Captured, Stages, RunsEnded, sequence, work
    <2>8. Batches'
      BY <2>1, <2>2, <2>3 DEF Batches
    <2>9. SkippedStaysQueued'
      <3>1. confirmed' = confirmed /\ tried' > confirmed
        BY <2>1, <2>3 DEF Batches
      <3>2. \A u \in gated' : u \in gated \/ u = tried'
        BY <2>5
      <3> QED BY <3>1, <3>2 DEF SkippedStaysQueued
    <2> QED BY <2>6, <2>7, <2>8, <2>9
  <1>5. CASE EndHandler
    <2> USE <1>5 DEF EndHandler, sequence, work
    <2>0. handling' \in BOOLEAN
      BY Zenon
    <2>1. TypeOK'
      BY <2>0
    <2>2. Launched' /\ BeforeSignal' /\ Captured' /\ Stages'
      BY DEF Launched, BeforeSignal, Captured, Stages, RunsEnded
    <2>3. Batches' /\ SkippedStaysQueued'
      BY DEF Batches, SkippedStaysQueued
    <2> QED BY <2>1, <2>2, <2>3
  <1>6. CASE PollingEnds
    <2> USE <1>6 DEF PollingEnds, work
    <2>0. awaited' \in [poll : BOOLEAN, retry : BOOLEAN, http : BOOLEAN, bot : BOOLEAN]
      BY Zenon
    <2>1. TypeOK'
      BY <2>0
    <2>2. Launched' /\ BeforeSignal' /\ Captured' /\ Stages'
      BY DEF Launched, BeforeSignal, Captured, Stages, RunsEnded
    <2>3. Batches' /\ SkippedStaysQueued'
      BY DEF Batches, SkippedStaysQueued
    <2> QED BY <2>1, <2>2, <2>3
  <1> QED BY <1>1, <1>2, <1>3, <1>4, <1>5, <1>6

(* Requests, deliveries and the retry runner leave the bot alone.          *)
LEMMA WorkKeeps ==
  ASSUME IInv,
         Request \/ Answer \/ PipelineEnds \/ RetryTick \/ RetryNext \/ RetryClaim \/ RetryDelivered
  PROVE  IInv'
  <1> USE ShutdownAssumption DEF ShutdownAssumption, IInv, TypeOK
  <1>0. UNCHANGED bot
    BY DEF Request, Answer, PipelineEnds, RetryTick, RetryNext, RetryClaim, RetryDelivered
  <1>1. Batches' /\ SkippedStaysQueued'
    BY <1>0 DEF bot, Batches, SkippedStaysQueued
  <1>2. TypeOK' /\ Launched'
    <2>1. CASE Request
      BY <2>1 DEF Request, Launched, sequence, bot
    <2>2. CASE Answer
      BY <2>2 DEF Answer, Launched, sequence, bot
    <2>3. CASE PipelineEnds
      BY <2>3 DEF PipelineEnds, Launched, sequence, bot
    <2>4. CASE RetryTick
      BY <2>4 DEF RetryTick, Launched, sequence, bot
    <2>5. CASE RetryNext
      BY <2>5 DEF RetryNext, Launched, bot
    <2>6. CASE RetryClaim
      BY <2>6 DEF RetryClaim, Launched, sequence, bot
    <2>7. CASE RetryDelivered
      BY <2>7 DEF RetryDelivered, Launched, sequence, bot
    <2> QED BY <2>1, <2>2, <2>3, <2>4, <2>5, <2>6, <2>7
  <1>3. BeforeSignal' /\ Captured' /\ Stages'
    <2> USE DEF BeforeSignal, Captured, Stages, RunsEnded, sequence, bot
    <2>1. CASE Request
      BY <2>1 DEF Request
    <2>2. CASE Answer
      BY <2>2 DEF Answer
    <2>3. CASE PipelineEnds
      BY <2>3 DEF PipelineEnds
    <2>4. CASE RetryTick
      BY <2>4 DEF RetryTick
    <2>5. CASE RetryNext
      BY <2>5 DEF RetryNext
    <2>6. CASE RetryClaim
      BY <2>6 DEF RetryClaim
    <2>7. CASE RetryDelivered
      BY <2>7 DEF RetryDelivered
    <2> QED BY <2>1, <2>2, <2>3, <2>4, <2>5, <2>6, <2>7
  <1> QED BY <1>1, <1>2, <1>3

(* The first turn of the handler captures what runs.                       *)
LEMMA SignalKeeps == ASSUME IInv, Signal PROVE IInv'
  <1> USE ShutdownAssumption DEF ShutdownAssumption, IInv, TypeOK, Signal, StopConfirms, work
  <1>1. TypeOK'
    OBVIOUS
  <1>2. Launched' /\ BeforeSignal' /\ Captured' /\ Stages'
    BY DEF Launched, BeforeSignal, Captured, Stages, RunsEnded
  <1>3. Batches' /\ SkippedStaysQueued'
    BY DEF Batches, SkippedStaysQueued, BeforeSignal
  <1> QED BY <1>1, <1>2, <1>3

(* The later stages of the handler leave the bot and the work alone.       *)
LEMMA HandlerKeeps ==
  ASSUME IInv,
         HttpCloses \/ BotStops \/ BeginDrain \/ DrainResolves \/ BeginCloseDb \/ DbCloses
           \/ Finish \/ StepFails \/ Deadline
  PROVE  IInv'
  <1> USE ShutdownAssumption DEF ShutdownAssumption, IInv, TypeOK
  <1>0. UNCHANGED <<bot, work, flag>>
    BY DEF HttpCloses, BotStops, BeginDrain, DrainResolves, BeginCloseDb, DbCloses, Finish,
           StepFails, Deadline
  <1>1. Batches' /\ SkippedStaysQueued' /\ Launched'
    BY <1>0 DEF bot, work, Batches, SkippedStaysQueued, Launched
  <1>2. TypeOK'
    BY <1>0 DEF bot, work, HttpCloses, BotStops, BeginDrain, DrainResolves, BeginCloseDb,
                DbCloses, Finish, StepFails, Deadline
  <1>3. InFlight = 0 => pipelines = 0
    BY DEF InFlight
  <1>4. BeforeSignal' /\ Captured' /\ Stages'
    <2> USE <1>0, <1>3 DEF bot, work, BeforeSignal, Captured, Stages, RunsEnded
    <2>1. CASE HttpCloses
      BY <2>1 DEF HttpCloses
    <2>2. CASE BotStops
      BY <2>2 DEF BotStops
    <2>3. CASE BeginDrain
      BY <2>3 DEF BeginDrain
    <2>4. CASE DrainResolves
      BY <2>4 DEF DrainResolves
    <2>5. CASE BeginCloseDb
      BY <2>5 DEF BeginCloseDb
    <2>6. CASE DbCloses
      BY <2>6 DEF DbCloses
    <2>7. CASE Finish \/ StepFails \/ Deadline
      BY <2>7 DEF Finish, StepFails, Deadline
    <2> QED BY <2>1, <2>2, <2>3, <2>4, <2>5, <2>6, <2>7
  <1> QED BY <1>1, <1>2, <1>4

(* IInv is an invariant of the shutdown.                                   *)
THEOREM Inductive == Spec => []IInv
  <1>1. IInv /\ [Next]_vars => IInv'
    <2> SUFFICES ASSUME IInv, [Next]_vars PROVE IInv'
      OBVIOUS
    <2>1. CASE UNCHANGED vars
      BY <2>1 DEF vars, IInv, TypeOK, Launched, BeforeSignal, Captured, Stages, RunsEnded,
                  Batches, SkippedStaysQueued
    <2> QED BY <2>1, PollingKeeps, WorkKeeps, SignalKeeps, HandlerKeeps DEF Next
  <1> QED BY <1>1, InitIInv, PTL DEF Spec

(* The pool never closes under a delivery, a retry run, a handler or a     *)
(* request, and exit 0 means that nothing was cut (shutdown.ts).           *)
THEOREM DbOutlivesWorkHolds == Spec => []DbOutlivesWork
  <1>1. IInv => DbOutlivesWork
    BY DEF IInv, TypeOK, DbOutlivesWork, InFlight, Stages, RunsEnded, Captured, Batches
  <1> QED BY <1>1, Inductive, PTL

(* An update the admission gate skipped is never confirmed to Telegram     *)
(* (updateGates.ts, polling.ts).                                           *)
THEOREM SkippedStaysQueuedHolds == Spec => []SkippedStaysQueued
  <1>1. IInv => SkippedStaysQueued
    BY DEF IInv
  <1> QED BY <1>1, Inductive, PTL
=============================================================================
