------------------------------ MODULE Shutdown ------------------------------
(***************************************************************************)
(* The end of the process: the signal handler (src/src/startup/shutdown.ts *)
(* wired in src/src/index.ts), against the work it must not cut: Telegram  *)
(* updates (telegram/polling.ts, updateGates.ts), HTTP requests and the    *)
(* deliveries they launch (utils/inFlight.ts), and the retry runner        *)
(* (email/retry.ts).                                                       *)
(*                                                                         *)
(* Updates are numbered as Telegram queues them; `confirmed` is how far    *)
(* Telegram has dropped them.  grammY's polling loop and Fastify's close   *)
(* are external and modelled from how the code relies on them.             *)
(***************************************************************************)
EXTENDS Integers, FiniteSets

CONSTANTS
    MaxUpdates,    \* updates waiting at Telegram
    MaxRequests,   \* bound: HTTP requests
    MaxTicks,      \* bound: cron ticks that start a retry run
    MaxErrors      \* bound: polling errors

ASSUME ShutdownAssumption ==
    {MaxUpdates, MaxRequests, MaxTicks, MaxErrors} \subseteq Nat

VARIABLES
    pc,         \* the signal handler
    flag,       \* shuttingDown, and the retry runner's stop flag
    awaited,    \* runs captured when the handler began that have not ended
    drained,    \* the drain has resolved
    polling,    \* the polling controller: "off", "timer", "starting", "running"
    errors,     \* polling errors so far
    tried,      \* grammY's lastTriedUpdateId
    batch,      \* updates fetched, not yet tried
    handling,   \* an update's handler is in progress
    confirmed,  \* updates Telegram has dropped
    gated,      \* history: updates the admission gate skipped
    requests,   \* HTTP requests in a route: [inside, total]
    pipelines,  \* live deliveries of the tracker that requests launched
    retry,      \* the retry runner: "idle", "loop", "claim", "deliver"
    ticks,      \* retry runs started
    db          \* the pool: "open", "closed"

vars == <<pc, flag, awaited, drained, polling, errors, tried, batch, handling, confirmed,
          gated, requests, pipelines, retry, ticks, db>>

sequence == <<pc, flag, awaited, drained, db>>
bot      == <<polling, errors, tried, batch, handling, confirmed, gated>>
work     == <<requests, pipelines, retry, ticks>>

Exited == pc \in {"exit0", "exit1"}

TypeOK ==
    /\ pc \in {"no", "closing", "draining", "closeDb", "exit0", "exit1"}
    /\ flag \in BOOLEAN /\ drained \in BOOLEAN /\ handling \in BOOLEAN
    /\ awaited \in [poll : BOOLEAN, retry : BOOLEAN, http : BOOLEAN, bot : BOOLEAN]
    /\ polling \in {"off", "timer", "starting", "running"}
    /\ errors \in 0..MaxErrors /\ ticks \in 0..MaxTicks
    /\ tried \in 0..MaxUpdates /\ confirmed \in 0..MaxUpdates
    /\ batch \subseteq 1..MaxUpdates /\ gated \subseteq 1..MaxUpdates
    /\ requests \in [inside : 0..MaxRequests, total : 0..MaxRequests]
    /\ pipelines \in 0..MaxRequests
    /\ retry \in {"idle", "loop", "claim", "deliver"}
    /\ db \in {"open", "closed"}

Init ==
    /\ pc = "no" /\ flag = FALSE /\ drained = FALSE /\ db = "open"
    /\ awaited = [poll |-> FALSE, retry |-> FALSE, http |-> FALSE, bot |-> FALSE]
    /\ polling = "starting" /\ errors = 0
    /\ tried = 0 /\ batch = {} /\ handling = FALSE /\ confirmed = 0 /\ gated = {}
    /\ requests = [inside |-> 0, total |-> 0] /\ pipelines = 0
    /\ retry = "idle" /\ ticks = 0

\* pipelineTracker.inFlight.
InFlight == pipelines + (IF retry = "deliver" THEN 1 ELSE 0)

-----------------------------------------------------------------------------
(* Polling. *)

\* isShuttingDown(), right before bot.start().
MayPoll == ~flag

\* start(): getMe, syncCommands and getWebhookInfo have answered, or one failed.
StartPolling ==
    /\ ~Exited /\ polling = "starting"
    /\ \/ /\ MayPoll /\ polling' = "running" /\ UNCHANGED errors
       \/ /\ flag /\ polling' = "off" /\ UNCHANGED errors
       \/ /\ ~flag /\ errors < MaxErrors
          /\ errors' = errors + 1 /\ polling' = "timer"
    /\ UNCHANGED <<sequence, work, tried, batch, handling, confirmed, gated>>

\* The restart timer fires.
RestartPolling ==
    /\ ~Exited /\ polling = "timer"
    /\ polling' = IF flag THEN "off" ELSE "starting"
    /\ UNCHANGED <<sequence, work, errors, tried, batch, handling, confirmed, gated>>

\* getUpdates: the offset confirms what was tried, the rest comes as a batch.
\* bot.stop() has ended the loop once it was called.
Fetch ==
    /\ ~Exited /\ polling = "running" /\ ~handling /\ batch = {}
    /\ ~awaited.poll /\ tried < MaxUpdates
    /\ confirmed' = tried
    /\ \E n \in (tried + 1)..MaxUpdates : batch' = (tried + 1)..n
    /\ UNCHANGED <<sequence, work, polling, errors, tried, handling, gated>>

\* admissionGate.
Admitted == ~flag

\* handleUpdates: the next update of the batch is tried, and handled unless the
\* gate skips it.
TryUpdate ==
    /\ ~Exited /\ polling = "running" /\ ~handling /\ batch # {}
    /\ tried' = CHOOSE u \in batch : \A v \in batch : u <= v
    /\ batch' = batch \ {tried'}
    /\ IF Admitted
       THEN handling' = TRUE /\ UNCHANGED gated
       ELSE gated' = gated \cup {tried'} /\ UNCHANGED handling
    /\ UNCHANGED <<sequence, work, polling, errors, confirmed>>

EndHandler ==
    /\ ~Exited /\ handling
    /\ handling' = FALSE
    /\ UNCHANGED <<sequence, work, polling, errors, tried, batch, confirmed, gated>>

\* The run ends with an error between two batches: restart in 5 s, unless the
\* shutdown has begun; or it ends because bot.stop() was called.
PollingEnds ==
    /\ ~Exited /\ polling = "running" /\ ~handling /\ batch = {}
    /\ \/ /\ ~flag /\ errors < MaxErrors
          /\ errors' = errors + 1 /\ polling' = "timer"
       \/ /\ flag /\ polling' = "off" /\ UNCHANGED errors
    /\ awaited' = [awaited EXCEPT !.poll = FALSE]
    /\ UNCHANGED <<pc, flag, drained, db, work, tried, batch, handling, confirmed, gated>>

-----------------------------------------------------------------------------
(* HTTP and the retry runner. *)

\* Fastify takes no new request once it is closing.
Request ==
    /\ pc = "no" /\ requests.total < MaxRequests
    /\ requests' = [inside |-> requests.inside + 1, total |-> requests.total + 1]
    /\ UNCHANGED <<sequence, bot, pipelines, retry, ticks>>

\* The route answers; an accepted mail's delivery enters the tracker in the turn
\* in which the answer is out, before the connection closes.
Answer ==
    /\ ~Exited /\ requests.inside > 0
    /\ requests' = [requests EXCEPT !.inside = @ - 1]
    /\ pipelines' \in {pipelines, pipelines + 1}
    /\ UNCHANGED <<sequence, bot, retry, ticks>>

PipelineEnds ==
    /\ ~Exited /\ pipelines > 0
    /\ pipelines' = pipelines - 1
    /\ UNCHANGED <<sequence, bot, requests, retry, ticks>>

\* tick(): crons are stopped and the runner refuses once the flag is set.
RetryTick ==
    /\ ~Exited /\ ~flag /\ retry = "idle" /\ ticks < MaxTicks
    /\ retry' = "loop" /\ ticks' = ticks + 1
    /\ UNCHANGED <<sequence, bot, requests, pipelines>>

\* The next pending file or log of the run: shouldStop() before the claim.
RetryNext ==
    /\ ~Exited /\ retry = "loop"
    /\ retry' \in {"idle"} \cup (IF flag THEN {} ELSE {"claim"})
    /\ awaited' = [awaited EXCEPT !.retry = @ /\ retry' # "idle"]
    /\ UNCHANGED <<pc, flag, drained, db, bot, requests, pipelines, ticks>>

\* The mail is queued or the log claimed, and only then the tracker entered.
RetryClaim ==
    /\ ~Exited /\ retry = "claim"
    /\ retry' \in {"deliver", "loop"}
    /\ UNCHANGED <<sequence, bot, requests, pipelines, ticks>>

RetryDelivered ==
    /\ ~Exited /\ retry = "deliver"
    /\ retry' = "loop"
    /\ UNCHANGED <<sequence, bot, requests, pipelines, ticks>>

-----------------------------------------------------------------------------
(* The signal handler. *)

\* Mutant: the stop confirms the whole batch that was fetched.
StopConfirmsBatch == IF batch = {} THEN tried ELSE CHOOSE u \in batch : \A v \in batch : u >= v

\* bot.stop(): getUpdates with the offset after the update in progress.
StopConfirms == tried

\* The first turn of the handler: begin(), the runs captured, closeHttp() and
\* bot.stop() called.  A second signal finds it started.
Signal ==
    /\ pc = "no"
    /\ pc' = "closing" /\ flag' = TRUE
    /\ awaited' = [poll |-> polling = "running", retry |-> retry # "idle", http |-> TRUE, bot |-> TRUE]
    /\ polling' = IF polling = "timer" THEN "off" ELSE polling
    /\ \/ confirmed' = IF polling = "running" THEN StopConfirms ELSE confirmed
       \/ UNCHANGED confirmed
    /\ UNCHANGED <<drained, db, work, errors, tried, batch, handling, gated>>

\* app.close() resolves when no request is open.
HttpCloses ==
    /\ pc = "closing" /\ requests.inside = 0
    /\ awaited' = [awaited EXCEPT !.http = FALSE]
    /\ UNCHANGED <<pc, flag, drained, db, bot, work>>

\* bot.stop() resolves or fails.
BotStops ==
    /\ pc = "closing"
    /\ awaited' = [awaited EXCEPT !.bot = FALSE]
    /\ UNCHANGED <<pc, flag, drained, db, bot, work>>

\* drain() is asked for only now: it resolves at once when the count is zero.
BeginDrain ==
    /\ pc = "closing" /\ ~awaited.http /\ ~awaited.bot
    /\ pc' = "draining" /\ drained' = (InFlight = 0)
    /\ UNCHANGED <<flag, awaited, db, bot, work>>

DrainResolves ==
    /\ pc = "draining" /\ ~drained /\ InFlight = 0
    /\ drained' = TRUE
    /\ UNCHANGED <<pc, flag, awaited, db, bot, work>>

\* Mutant: the retry run is left to the drain.
RunsEndedButRetry == ~awaited.poll

\* Promise.all of the polling run, the drain and the retry run.
RunsEnded == ~awaited.poll /\ ~awaited.retry

\* The notices have stopped (2 s at most), the session store is gone, the pool
\* is asked to close.
BeginCloseDb ==
    /\ pc = "draining" /\ drained /\ RunsEnded
    /\ pc' = "closeDb"
    /\ UNCHANGED <<flag, awaited, drained, db, bot, work>>

DbCloses ==
    /\ pc = "closeDb" /\ db = "open"
    /\ db' = "closed"
    /\ UNCHANGED <<pc, flag, awaited, drained, bot, work>>

Finish ==
    /\ pc = "closeDb" /\ db = "closed"
    /\ pc' = "exit0"
    /\ UNCHANGED <<flag, awaited, drained, db, bot, work>>

\* A step rejects: the handler gives up.
StepFails ==
    /\ pc \in {"closing", "closeDb"}
    /\ pc' = "exit1"
    /\ UNCHANGED <<flag, awaited, drained, db, bot, work>>

\* Mutant: only the drain has a deadline.
DeadlineOfDrain ==
    /\ pc = "draining"
    /\ pc' = "exit1"
    /\ UNCHANGED <<flag, awaited, drained, db, bot, work>>

\* The watchdog, or a drain that runs into the same deadline.
Deadline ==
    /\ pc \in {"closing", "draining", "closeDb"}
    /\ pc' = "exit1"
    /\ UNCHANGED <<flag, awaited, drained, db, bot, work>>

Next ==
    \/ StartPolling \/ RestartPolling \/ Fetch \/ TryUpdate \/ EndHandler \/ PollingEnds
    \/ Request \/ Answer \/ PipelineEnds \/ RetryTick \/ RetryNext \/ RetryClaim
    \/ RetryDelivered \/ Signal \/ HttpCloses \/ BotStops \/ BeginDrain \/ DrainResolves \/ BeginCloseDb
    \/ DbCloses \/ Finish \/ StepFails \/ Deadline

Spec == Init /\ [][Next]_vars

\* The only fairness: timers fire.  Handlers, requests and sends may hang.
FairSpec == Spec /\ WF_vars(Deadline)

-----------------------------------------------------------------------------
(* Properties. *)

\* The pool never closes under a delivery, a retry run, a handler or a request:
\* "the DB never closes under a live delivery" (shutdown.ts), although a delivery
\* can start after the count was zero, and exit 0 means that nothing was cut.
DbOutlivesWork ==
    db = "closed" \/ pc = "exit0" =>
        /\ InFlight = 0 /\ retry = "idle"
        /\ requests.inside = 0 /\ ~handling /\ polling # "running"

\* An update that Telegram has dropped was given to its handler: those the gate
\* skips stay queued for the next process, whenever polling was started,
\* restarted or stopped.
SkippedStaysQueued ==
    \A u \in gated : u > confirmed

\* Whatever hangs, a shutdown that has begun ends the process.
ShutdownEnds == pc = "closing" ~> Exited
=============================================================================
