------------------------------ MODULE Delivery ------------------------------
(***************************************************************************)
(* The life of an accepted e-mail: one row of delivery_logs, the job that  *)
(* the raw route starts for it, the retry worker, the retention cleanup,   *)
(* pausing of the alias, Telegram's answers, database faults and a crash   *)
(* of the process.                                                         *)
(*                                                                         *)
(* Two kinds of job can work on a log: "live" is deliverQueuedEmail        *)
(* (started by a request or by the recovery of a pending raw e-mail) and   *)
(* "retry" is retryDelivery (started by the retry worker).  They run the   *)
(* same tail: send, persist the outcome, refund or send the photos.  Every *)
(* job has its own control state, so that nothing but the code's tracker,  *)
(* claim and ages keeps two of them apart.                                 *)
(***************************************************************************)
EXTENDS Naturals, FiniteSets

CONSTANTS
  Log,          \* delivery log ids
  Alias,        \* e-mail aliases
  AliasOf,      \* the alias a log belongs to
  MaxRetries,   \* MAX_RETRIES of retry.ts
  SendTries,    \* tries of one send call (RETRY_DELAYS_MS of sender.ts)
  MaxInflight,  \* config.maxInflightDeliveries
  MaxSends,     \* bound: send calls per log
  MaxFaults,    \* bound: database faults and crashes
  None          \* the worker holds no log

ASSUME DeliveryAssumption ==
  /\ AliasOf \in [Log -> Alias]
  /\ MaxRetries \in Nat \ {0}
  /\ SendTries \in Nat \ {0}
  /\ MaxInflight \in Nat \ {0}
  /\ MaxSends \in Nat
  /\ MaxFaults \in Nat
  /\ None \notin Log

VARIABLES
  active,    \* alias -> its status is "active"
  status,    \* log -> final_status ("none": no row yet)
  path,      \* log -> raw_email_path is not null
  file,      \* log -> the raw .eml is on disk
  rows,      \* log -> its delivery_attempts rows
  prepared,  \* log -> the attachments were written to disk and recorded
  refunds,   \* log -> refunds of its quota charge
  age,       \* log -> 0 young, 1 older than STALE_DELIVERY_MS, 2 raw TTL over
  stale,     \* log -> processing_started_at older than PROCESSING_STALE_MS
  pc,        \* kind -> log -> control state of that job
  out,       \* kind -> log -> answer of the job's text send
  seen,      \* log -> attempt counts the retry job read
  worker,    \* the retry worker's run
  cleaning,  \* logs whose file is unlinked and whose row is not yet updated
  sends,     \* history: send calls per log
  landed,    \* history: text messages Telegram accepted per log
  excused,   \* history: acceptances whose record was lost, or given up
  faults     \* database faults and crashes so far

db == <<status, path, rows, prepared, refunds>>
jobs == <<pc, out, seen>>
history == <<sends, landed, excused>>
vars == <<active, db, file, age, stale, jobs, worker, cleaning, history, faults>>

Kind == {"live", "retry"}

(* NON_FINAL_DELIVERY_STATUSES and the two statuses called final.          *)
NonFinal == {"received", "processing", "retrying", "failed"}
Final == {"delivered", "permanently_failed"}
Status == NonFinal \cup Final \cup {"none"}

(* What sendTelegramMessage reports, by retryDispositionForError: "ok",    *)
(* "permanent" (fail_permanently), "counted" and "uncounted" failures.     *)
Out == {"ok", "uncounted", "counted", "permanent"}

(* "queued" is the live job between the commit of the queue transaction    *)
(* and the tracker's runFor; every later state is tracked.                 *)
Pc == {"none", "queued", "prep", "inspect", "route", "close", "send",
       "persist", "refund", "photos", "threw"}

NoRows == [n |-> 0, counted |-> 0, ok |-> FALSE]
Rows == [n : Nat, counted : Nat, ok : BOOLEAN]
Idle == [pc |-> "idle", log |-> None, todo |-> {}]

Init ==
  /\ active = [a \in Alias |-> TRUE]
  /\ status = [l \in Log |-> "none"]
  /\ path = [l \in Log |-> FALSE]
  /\ file = [l \in Log |-> FALSE]
  /\ rows = [l \in Log |-> NoRows]
  /\ prepared = [l \in Log |-> FALSE]
  /\ refunds = [l \in Log |-> 0]
  /\ age = [l \in Log |-> 0]
  /\ stale = [l \in Log |-> FALSE]
  /\ pc = [k \in Kind |-> [l \in Log |-> "none"]]
  /\ out = [k \in Kind |-> [l \in Log |-> "ok"]]
  /\ seen = [l \in Log |-> [n |-> 0, counted |-> 0]]
  /\ worker = Idle
  /\ cleaning = {}
  /\ sends = [l \in Log |-> 0]
  /\ landed = [l \in Log |-> 0]
  /\ excused = [l \in Log |-> 0]
  /\ faults = 0

-----------------------------------------------------------------------------
(* Shared pieces.                                                          *)

Goto(k, l, p) == pc' = [pc EXCEPT ![k][l] = p]

(* updateDeliveryLogStatus: no condition on the current status.            *)
SetStatus(l, s) == status' = [status EXCEPT ![l] = s]

(* InFlightTracker.isActive and .inFlight; the retry loop's catch is       *)
(* outside runFor.                                                         *)
LiveActive(l) == pc["live"][l] \notin {"none", "queued"}
RetryActive(l) == pc["retry"][l] \notin {"none", "threw"}
Active(l) == LiveActive(l) \/ RetryActive(l)
InFlight == Cardinality({l \in Log : LiveActive(l)}) + Cardinality({l \in Log : RetryActive(l)})

(* A statement or transaction that fails; the bound keeps runs finite.     *)
Fault == faults < MaxFaults /\ faults' = faults + 1

-----------------------------------------------------------------------------
(* Faulty variants of definitions below, each a plausible slip in the code *)
(* that one of the properties must catch.                                  *)

(* An uncertain answer (timeout, network) is taken for success.            *)
OutcomeStatusOptimistic(k, l) ==
  CASE out[k][l] \in {"ok", "uncounted"} -> "delivered"
    [] out[k][l] = "permanent" -> "permanently_failed"
    [] k = "retry" /\ out[k][l] = "counted" /\ seen[l].counted + 1 >= MaxRetries
         -> "permanently_failed"
    [] OTHER -> "failed"

(* The retry job numbers its attempts like the live one: the row conflicts *)
(* with the first one and is dropped.                                      *)
AttemptNoAlwaysFirst(k, l) == 1

(* The tracker is not consulted.                                           *)
PickUntracked(l) ==
  /\ worker.pc = "next"
  /\ l \in worker.todo
  /\ worker' = [pc |-> "claim", log |-> l, todo |-> worker.todo \ {l}]
  /\ UNCHANGED <<active, db, file, age, stale, jobs, cleaning, history, faults>>

(* The claim does not look at the status.                                  *)
ClaimAny ==
  /\ worker.pc = "claim"
  /\ SetStatus(worker.log, "retrying")
  /\ Goto("retry", worker.log, "inspect")
  /\ worker' = [worker EXCEPT !.pc = "busy"]
  /\ UNCHANGED <<active, path, rows, prepared, refunds, file, age, stale, out,
                 seen, cleaning, history, faults>>

(* The worker waits for a log it cannot claim.                             *)
ClaimWaits ==
  /\ worker.pc = "claim"
  /\ status[worker.log] \in NonFinal
  /\ SetStatus(worker.log, "retrying")
  /\ Goto("retry", worker.log, "inspect")
  /\ worker' = [worker EXCEPT !.pc = "busy"]
  /\ UNCHANGED <<active, path, rows, prepared, refunds, file, age, stale, out,
                 seen, cleaning, history, faults>>

(* The worker keeps its hold on a log it is done with.                     *)
RetryDoneHolds ==
  /\ worker.pc = "busy"
  /\ pc["retry"][worker.log] = "none"
  /\ worker' = [worker EXCEPT !.pc = "next"]
  /\ UNCHANGED <<active, db, file, age, stale, jobs, cleaning, history, faults>>

(* The retry job relies on the post-send check for its budget.             *)
InspectUnbudgeted(l) ==
  /\ pc["retry"][l] = "inspect"
  /\ seen' = [seen EXCEPT ![l] = [n |-> rows[l].n, counted |-> rows[l].counted]]
  /\ Goto("retry", l, IF active[AliasOf[l]] /\ file[l] THEN "send" ELSE "close")
  /\ UNCHANGED <<active, db, file, age, stale, out, worker, cleaning, history, faults>>

(* Every failed send is refunded.                                          *)
AfterPersistRefundsFailures(k, l) == IF out[k][l] = "ok" THEN "photos" ELSE "refund"

(* A failed unlink does not skip the row.                                  *)
CleanUnlinkUnchecked(l) ==
  /\ path[l] /\ age[l] = 2
  /\ l \notin cleaning
  /\ file' \in {file, [file EXCEPT ![l] = FALSE]}
  /\ cleaning' = cleaning \cup {l}
  /\ UNCHANGED <<active, db, age, stale, jobs, worker, history, faults>>

(* Only the raw e-mails of finished logs expire.                           *)
CleanUnlinkFinished(l) ==
  /\ path[l] /\ age[l] = 2
  /\ status[l] \in Final
  /\ l \notin cleaning
  /\ file' = [file EXCEPT ![l] = FALSE]
  /\ cleaning' = cleaning \cup {l}
  /\ UNCHANGED <<active, db, age, stale, jobs, worker, history, faults>>

(* The closing update has no status guard.                                 *)
CleanCloseAll(l) ==
  /\ l \in cleaning
  /\ SetStatus(l, "permanently_failed")
  /\ path' = [path EXCEPT ![l] = FALSE]
  /\ cleaning' = cleaning \ {l}
  /\ UNCHANGED <<active, rows, prepared, refunds, file, age, stale, jobs,
                 worker, history, faults>>

-----------------------------------------------------------------------------
(* The record of an attempt.                                               *)

(* insertDeliveryAttempt: ON CONFLICT (log, attempt_no) DO NOTHING; the    *)
(* rows of a log are numbered 1..n.                                        *)
InsertAttempt(l, no, o) ==
  rows' = [rows EXCEPT ![l] =
             IF no <= @.n THEN @
             ELSE [n |-> @.n + 1,
                   counted |-> @.counted + (IF o \in {"counted", "permanent"} THEN 1 ELSE 0),
                   ok |-> @.ok \/ o = "ok"]]

(* The status a send outcome maps to.  Only the retry job looks at the     *)
(* budget: countedAfterSend >= MAX_RETRIES.                                *)
OutcomeStatus(k, l) ==
  CASE out[k][l] = "ok" -> "delivered"
    [] out[k][l] = "permanent" -> "permanently_failed"
    [] k = "retry" /\ out[k][l] = "counted" /\ seen[l].counted + 1 >= MaxRetries
         -> "permanently_failed"
    [] OTHER -> "failed"

AttemptNo(k, l) == IF k = "live" THEN 1 ELSE seen[l].n + 1

(* The post-send transaction: attempt row and status together.             *)
RecordOutcome(k, l) ==
  /\ InsertAttempt(l, AttemptNo(k, l), out[k][l])
  /\ SetStatus(l, OutcomeStatus(k, l))
  /\ UNCHANGED <<path, prepared, refunds>>

-----------------------------------------------------------------------------
(* Acceptance and the live job.                                            *)

(* The queue transaction commits.  The alias was active when it was looked *)
(* up, before the transaction; it may have been paused since.              *)
CreateLog(l) ==
  /\ status[l] = "none"
  /\ SetStatus(l, "received")
  /\ path' = [path EXCEPT ![l] = TRUE]
  /\ file' = [file EXCEPT ![l] = TRUE]
  /\ UNCHANGED <<active, rows, prepared, refunds, age, stale, out, seen,
                 cleaning, history, faults>>

Accept(l) ==
  /\ CreateLog(l)
  /\ Goto("live", l, "queued")
  /\ UNCHANGED worker

(* After the 202: over the in-flight cap the log stays "received" for the  *)
(* retry worker, otherwise the job starts.  Check and start are one        *)
(* synchronous step.                                                       *)
Dispatch(l) ==
  /\ pc["live"][l] = "queued"
  /\ Goto("live", l, IF InFlight >= MaxInflight THEN "none" ELSE "prep")
  /\ UNCHANGED <<active, db, file, age, stale, out, seen, worker, cleaning,
                 history, faults>>

(* The preparation transaction, under the owner's advisory lock: the alias *)
(* must still be active, the log becomes "processing", the attachments are *)
(* written and recorded.  An inactive alias ends the job with the status   *)
(* as it was.                                                              *)
Prepare(l) ==
  /\ pc["live"][l] = "prep"
  /\ \/ /\ active[AliasOf[l]]
        /\ SetStatus(l, "processing")
        /\ stale' = [stale EXCEPT ![l] = FALSE]
        /\ prepared' = [prepared EXCEPT ![l] = TRUE]
        /\ Goto("live", l, "route")
     \/ /\ ~active[AliasOf[l]]
        /\ Goto("live", l, "none")
        /\ UNCHANGED <<status, stale, prepared>>
  /\ UNCHANGED <<active, path, file, rows, refunds, age, out, seen, worker,
                 cleaning, history, faults>>

(* The second locked check and readAttemptRoute: the last read before the  *)
(* irreversible send.                                                      *)
Route(l) ==
  /\ pc["live"][l] = "route"
  /\ Goto("live", l, IF active[AliasOf[l]] THEN "send" ELSE "none")
  /\ UNCHANGED <<active, db, file, age, stale, out, seen, worker, cleaning,
                 history, faults>>

-----------------------------------------------------------------------------
(* The retry worker's run: recovery of pending raw e-mails, then the list. *)

Tick ==
  /\ worker.pc = "idle"
  /\ worker' = [worker EXCEPT !.pc = "recover"]
  /\ UNCHANGED <<active, db, file, age, stale, jobs, cleaning, history, faults>>

(* Recovery queues a pending raw e-mail and delivers it itself, outside    *)
(* the in-flight cap; the run waits for that delivery.                     *)
Recover(l) ==
  /\ worker.pc = "recover"
  /\ CreateLog(l)
  /\ Goto("live", l, "prep")
  /\ worker' = [worker EXCEPT !.pc = "recovering", !.log = l]

Recovered ==
  /\ worker.pc = "recovering"
  /\ pc["live"][worker.log] = "none"
  /\ worker' = [worker EXCEPT !.pc = "recover", !.log = None]
  /\ UNCHANGED <<active, db, file, age, stale, jobs, cleaning, history, faults>>

(* findLogsNeedingRetry.                                                   *)
Due(l) ==
  /\ path[l]
  /\ age[l] >= 1
  /\ \/ status[l] \in {"failed", "received", "retrying"}
     \/ status[l] = "processing" /\ stale[l]

Snapshot ==
  /\ worker.pc = "recover"
  /\ worker' = [worker EXCEPT !.pc = "next",
                              !.todo = {l \in Log : Due(l) /\ sends[l] < MaxSends}]
  /\ UNCHANGED <<active, db, file, age, stale, jobs, cleaning, history, faults>>

(* One log of the list: skipped while the tracker has a job for it.        *)
Pick(l) ==
  /\ worker.pc = "next"
  /\ l \in worker.todo
  /\ worker' = IF Active(l)
               THEN [worker EXCEPT !.todo = @ \ {l}]
               ELSE [pc |-> "claim", log |-> l, todo |-> worker.todo \ {l}]
  /\ UNCHANGED <<active, db, file, age, stale, jobs, cleaning, history, faults>>

(* claimDeliveryLogForRetry: one conditional UPDATE.                       *)
Claim ==
  /\ worker.pc = "claim"
  /\ LET l == worker.log IN
       \/ /\ status[l] \in NonFinal
          /\ SetStatus(l, "retrying")
          /\ Goto("retry", l, "inspect")
          /\ worker' = [worker EXCEPT !.pc = "busy"]
       \/ /\ status[l] \notin NonFinal
          /\ worker' = [worker EXCEPT !.pc = "next", !.log = None]
          /\ UNCHANGED <<status, pc>>
  /\ UNCHANGED <<active, path, rows, prepared, refunds, file, age, stale, out,
                 seen, cleaning, history, faults>>

(* The claim is outside the per-log try: its failure ends the run.         *)
ClaimFails ==
  /\ worker.pc = "claim"
  /\ Fault
  /\ worker' = Idle
  /\ UNCHANGED <<active, db, file, age, stale, jobs, cleaning, history>>

RetryDone ==
  /\ worker.pc = "busy"
  /\ pc["retry"][worker.log] = "none"
  /\ worker' = [worker EXCEPT !.pc = "next", !.log = None]
  /\ UNCHANGED <<active, db, file, age, stale, jobs, cleaning, history, faults>>

RunEnds ==
  /\ worker.pc = "next"
  /\ worker.todo = {}
  /\ worker' = Idle
  /\ UNCHANGED <<active, db, file, age, stale, jobs, cleaning, history, faults>>

-----------------------------------------------------------------------------
(* The retry job up to its send.                                           *)

(* retryDelivery reads the attempt counts, the alias and the raw file, and *)
(* closes the log when the budget is spent or either is unavailable.  The  *)
(* three reads are one step: the counts belong to this job, and a raw file *)
(* never comes back, so no other order of the reads decides differently.   *)
Inspect(l) ==
  /\ pc["retry"][l] = "inspect"
  /\ seen' = [seen EXCEPT ![l] = [n |-> rows[l].n, counted |-> rows[l].counted]]
  /\ Goto("retry", l, IF rows[l].counted < MaxRetries /\ active[AliasOf[l]] /\ file[l]
                      THEN "send" ELSE "close")
  /\ UNCHANGED <<active, db, file, age, stale, out, worker, cleaning, history, faults>>

(* Any error of readRawEmail, a missing file or not, closes the log.       *)
RawReadFails(l) ==
  /\ pc["retry"][l] = "inspect"
  /\ Fault
  /\ Goto("retry", l, "close")
  /\ UNCHANGED <<active, db, file, age, stale, out, seen, worker, cleaning, history>>

(* closePermanentlyFailed: the status first, then the refund.              *)
Close(l) ==
  /\ pc["retry"][l] = "close"
  /\ SetStatus(l, "permanently_failed")
  /\ Goto("retry", l, "refund")
  /\ UNCHANGED <<active, path, rows, prepared, refunds, file, age, stale, out,
                 seen, worker, cleaning, history, faults>>

-----------------------------------------------------------------------------
(* The tail both jobs share.                                               *)

(* sendTelegramMessage repeats the call up to SendTries times.  A try that *)
(* times out may have been accepted: such a copy is lost to the code and   *)
(* excuses one more.  The last try gives the answer; if that is a timeout  *)
(* too ("uncounted"), it may be lost as well.                              *)
Send(k, l) ==
  /\ pc[k][l] = "send"
  /\ \E o \in Out, lost \in 0..SendTries :
       /\ o # "uncounted" => lost < SendTries
       /\ out' = [out EXCEPT ![k][l] = o]
       /\ landed' = [landed EXCEPT ![l] = @ + lost + (IF o = "ok" THEN 1 ELSE 0)]
       /\ excused' = [excused EXCEPT ![l] = @ + lost]
  /\ sends' = [sends EXCEPT ![l] = @ + 1]
  /\ Goto(k, l, "persist")
  /\ UNCHANGED <<active, db, file, age, stale, seen, worker, cleaning, faults>>

(* What follows the persisted outcome: the photos of a delivered mail, the *)
(* refund of a permanently failed one.                                     *)
AfterPersist(k, l) ==
  CASE OutcomeStatus(k, l) = "delivered" -> "photos"
    [] OutcomeStatus(k, l) = "permanently_failed" -> "refund"
    [] OTHER -> "none"

Persist(k, l) ==
  /\ pc[k][l] = "persist"
  /\ RecordOutcome(k, l)
  /\ Goto(k, l, AfterPersist(k, l))
  /\ UNCHANGED <<active, file, age, stale, out, seen, worker, cleaning, history, faults>>

(* Every attempt of retryAsync failed.  The last commit may nevertheless   *)
(* have been applied.  The handler treats the outcome as lost.             *)
PersistFails(k, l) ==
  /\ pc[k][l] = "persist"
  /\ Fault
  /\ RecordOutcome(k, l) \/ UNCHANGED db
  /\ excused' = [excused EXCEPT ![l] = @ + (IF out[k][l] = "ok" THEN 1 ELSE 0)]
  /\ Goto(k, l, "threw")
  /\ UNCHANGED <<active, file, age, stale, out, seen, worker, cleaning, sends, landed>>

(* refundAcceptedEmail: best effort, never throws.                         *)
Refund(k, l) ==
  /\ pc[k][l] = "refund"
  /\ refunds' = [refunds EXCEPT ![l] = @ + 1]
  /\ Goto(k, l, "none")
  /\ UNCHANGED <<active, status, path, rows, prepared, file, age, stale, out,
                 seen, worker, cleaning, history, faults>>

RefundFails(k, l) ==
  /\ pc[k][l] = "refund"
  /\ Fault
  /\ Goto(k, l, "none")
  /\ UNCHANGED <<active, db, file, age, stale, out, seen, worker, cleaning, history>>

(* Photos and the fallback links: their failure leaves the mail delivered. *)
PhotosDone(k, l) ==
  /\ pc[k][l] = "photos"
  /\ Goto(k, l, "none")
  /\ UNCHANGED <<active, db, file, age, stale, out, seen, worker, cleaning,
                 history, faults>>

(* abortAttemptForMigration: the chat was upgraded after the text landed.  *)
(* The whole mail goes back to the retry worker; the second copy of the    *)
(* text is accepted in exchange for the photos.                            *)
AbortForMigration(k, l) ==
  /\ pc[k][l] = "photos"
  /\ prepared[l]
  /\ SetStatus(l, "failed")
  /\ excused' = [excused EXCEPT ![l] = @ + 1]
  /\ Goto(k, l, "none")
  /\ UNCHANGED <<active, path, rows, prepared, refunds, file, age, stale, out,
                 seen, worker, cleaning, sends, landed, faults>>

(* A database error in any step before the send, or in closing.  A failed  *)
(* status write may have been applied.                                     *)
StepThrows(k, l) ==
  /\ \/ k = "live" /\ pc[k][l] \in {"prep", "route"}
     \/ k = "retry" /\ pc[k][l] \in {"inspect", "close"}
  /\ Fault
  /\ \/ pc[k][l] = "close" /\ SetStatus(l, "permanently_failed")
     \/ UNCHANGED status
  /\ Goto(k, l, "threw")
  /\ UNCHANGED <<active, path, rows, prepared, refunds, file, age, stale, out,
                 seen, worker, cleaning, history>>

(* The catch of deliverQueuedEmail and of the retry loop: "failed",        *)
(* whatever the status is by now.                                          *)
CatchReset(k, l) ==
  /\ pc[k][l] = "threw"
  /\ SetStatus(l, "failed")
  /\ Goto(k, l, "none")
  /\ UNCHANGED <<active, path, rows, prepared, refunds, file, age, stale, out,
                 seen, worker, cleaning, history, faults>>

CatchResetFails(k, l) ==
  /\ pc[k][l] = "threw"
  /\ Fault
  /\ Goto(k, l, "none")
  /\ UNCHANGED <<active, db, file, age, stale, out, seen, worker, cleaning, history>>

-----------------------------------------------------------------------------
(* cleanRawEmails: unlink the file, then update the row.                   *)

CleanUnlink(l) ==
  /\ path[l] /\ age[l] = 2
  /\ l \notin cleaning
  /\ file' = [file EXCEPT ![l] = FALSE]
  /\ cleaning' = cleaning \cup {l}
  /\ UNCHANGED <<active, db, age, stale, jobs, worker, history, faults>>

(* A log that is not final is closed; the path goes in either case.        *)
CleanClose(l) ==
  /\ l \in cleaning
  /\ SetStatus(l, IF status[l] \in NonFinal THEN "permanently_failed" ELSE status[l])
  /\ path' = [path EXCEPT ![l] = FALSE]
  /\ cleaning' = cleaning \ {l}
  /\ UNCHANGED <<active, rows, prepared, refunds, file, age, stale, jobs,
                 worker, history, faults>>

(* The transaction fails: the next run unlinks a missing file and retries. *)
CleanFails(l) ==
  /\ l \in cleaning
  /\ Fault
  /\ cleaning' = cleaning \ {l}
  /\ UNCHANGED <<active, db, file, age, stale, jobs, worker, history>>

-----------------------------------------------------------------------------
(* The surroundings.                                                       *)

(* An alias is paused or soft-deleted, or resumed.                         *)
SetAliasStatus(a) ==
  /\ active' = [active EXCEPT ![a] = ~@]
  /\ UNCHANGED <<db, file, age, stale, jobs, worker, cleaning, history, faults>>

(* Time.  Two minutes do not pass between the commit of a log and the      *)
(* start of its job in the same request; see the README.                   *)
GrowOlder(l) ==
  /\ status[l] # "none"
  /\ age[l] < 2
  /\ pc["live"][l] # "queued"
  /\ age' = [age EXCEPT ![l] = @ + 1]
  /\ UNCHANGED <<active, db, file, stale, jobs, worker, cleaning, history, faults>>

(* Ten minutes after markDeliveryLogProcessing, even if that job is still  *)
(* at work.                                                                *)
ProcessingGoesStale(l) ==
  /\ status[l] = "processing"
  /\ ~stale[l]
  /\ stale' = [stale EXCEPT ![l] = TRUE]
  /\ UNCHANGED <<active, db, file, age, jobs, worker, cleaning, history, faults>>

(* The process dies and restarts: the tracker, the jobs, the worker's run  *)
(* and the cleanup are gone, the database and the files stay.              *)
Crash ==
  /\ Fault
  /\ pc' = [k \in Kind |-> [l \in Log |-> "none"]]
  /\ worker' = Idle
  /\ cleaning' = {}
  /\ excused' = [l \in Log |->
       excused[l] + (IF \E k \in Kind : pc[k][l] = "persist" /\ out[k][l] = "ok"
                     THEN 1 ELSE 0)]
  /\ UNCHANGED <<active, db, file, age, stale, out, seen, sends, landed>>

LiveStep(l) == Dispatch(l) \/ Prepare(l) \/ Route(l)

JobStep(k, l) ==
  \/ Send(k, l) \/ Persist(k, l) \/ PersistFails(k, l) \/ Refund(k, l)
  \/ RefundFails(k, l) \/ PhotosDone(k, l) \/ AbortForMigration(k, l)
  \/ StepThrows(k, l) \/ CatchReset(k, l) \/ CatchResetFails(k, l)

WorkerStep ==
  \/ Tick \/ Recovered \/ Snapshot \/ Claim \/ ClaimFails \/ RetryDone \/ RunEnds
  \/ \E l \in Log : Recover(l) \/ Pick(l) \/ Inspect(l) \/ RawReadFails(l) \/ Close(l)

CleanStep(l) == CleanUnlink(l) \/ CleanClose(l) \/ CleanFails(l)

Next ==
  \/ \E l \in Log : Accept(l) \/ LiveStep(l) \/ CleanStep(l) \/ GrowOlder(l)
                    \/ ProcessingGoesStale(l)
  \/ \E k \in Kind, l \in Log : JobStep(k, l)
  \/ WorkerStep
  \/ \E a \in Alias : SetAliasStatus(a)
  \/ Crash

Spec == Init /\ [][Next]_vars

(***************************************************************************)
(* Fairness: node runs every started job, retry run and transaction to its *)
(* end (Telegram calls time out), cron starts a cleanup again and again,   *)
(* and time passes.  Nothing is promised about Telegram's answers, the     *)
(* database's faults, the user's commands or new mail, nor about retry     *)
(* runs being started: they are skipped while Telegram is unreachable.     *)
(***************************************************************************)
Fairness ==
  /\ \A l \in Log :
       /\ WF_vars(LiveStep(l))
       /\ WF_vars(GrowOlder(l))
       /\ WF_vars(Inspect(l) \/ Close(l))
       /\ WF_vars(CleanUnlink(l) \/ CleanClose(l))
       /\ \A k \in Kind :
            WF_vars(Send(k, l) \/ Persist(k, l) \/ Refund(k, l) \/ PhotosDone(k, l)
                    \/ CatchReset(k, l))
  /\ WF_vars(Recovered \/ Snapshot \/ Claim \/ RetryDone \/ RunEnds
             \/ \E l \in Log : Pick(l))

FairSpec == Spec /\ Fairness

-----------------------------------------------------------------------------
(* Properties.                                                             *)

(* Every variable keeps its type; in particular the worker holds a log     *)
(* exactly while it recovers, claims or retries one.                       *)
TypeOK ==
  /\ active \in [Alias -> BOOLEAN]
  /\ status \in [Log -> Status]
  /\ path \in [Log -> BOOLEAN]
  /\ file \in [Log -> BOOLEAN]
  /\ rows \in [Log -> Rows]
  /\ prepared \in [Log -> BOOLEAN]
  /\ refunds \in [Log -> Nat]
  /\ age \in [Log -> 0..2]
  /\ stale \in [Log -> BOOLEAN]
  /\ pc \in [Kind -> [Log -> Pc]]
  /\ out \in [Kind -> [Log -> Out]]
  /\ seen \in [Log -> [n : Nat, counted : Nat]]
  /\ worker \in [pc : {"idle", "recover", "recovering", "next", "claim", "busy"},
                 log : Log \cup {None}, todo : SUBSET Log]
  /\ worker.log \in Log <=> worker.pc \in {"recovering", "claim", "busy"}
  /\ cleaning \in SUBSET Log
  /\ sends \in [Log -> Nat]
  /\ landed \in [Log -> Nat]
  /\ excused \in [Log -> Nat]
  /\ faults \in Nat

(* A log is never worked on by a live delivery and by the retry worker at  *)
(* the same time: the tracker check, the conditional claim and the minimum *)
(* age of a due log together keep them apart.                              *)
OneJobPerLog ==
  \A l \in Log : ~(pc["live"][l] # "none" /\ pc["retry"][l] # "none")

(* Telegram accepts the text of a mail twice only if an earlier acceptance *)
(* was lost (timeout, crash or failed write after the send) or given up    *)
(* for a chat migration.                                                   *)
NoUnexcusedDuplicate ==
  \A l \in Log : landed[l] <= 1 + excused[l]

(* The quota charge of a mail is refunded at most once, and a refunded log *)
(* is permanently failed for good, whatever job, retry or cleanup touches  *)
(* it afterwards.                                                          *)
RefundIsFinal ==
  \A l \in Log : refunds[l] <= 1 /\ (refunds[l] = 1 => status[l] = "permanently_failed")

(* No more than MAX_RETRIES failed attempts of a log count against its     *)
(* budget, across the live attempt, retries, crashes and restarts.         *)
RetryBudget ==
  \A l \in Log : rows[l].counted <= MaxRetries

(* "delivered" is never claimed without a recorded successful attempt and  *)
(* a message that Telegram accepted.                                       *)
DeliveredIsRecorded ==
  \A l \in Log : status[l] = "delivered" => rows[l].ok /\ landed[l] >= 1

(* The raw file is the only retry source: a log that still refers to it    *)
(* has it until the retention period is over, and a log that no longer     *)
(* refers to it leaves no file behind, even after a crash in the cleanup.  *)
RawFileLifecycle ==
  \A l \in Log : /\ path[l] /\ ~file[l] => age[l] = 2
                 /\ file[l] => path[l]

(* Deliveries started by requests never exceed the in-flight cap, whatever *)
(* the retry worker is doing; only its own delivery comes on top.          *)
InFlightBounded ==
  Cardinality({l \in Log : /\ LiveActive(l)
                           /\ ~(worker.pc = "recovering" /\ worker.log = l)}) <= MaxInflight

(* A final status is overwritten only by a job that is still running for   *)
(* that log and before any refund: a settled log stays settled.            *)
FinalKept ==
  \A l \in Log :
    status[l] \in Final /\ status'[l] # status[l]
      => refunds[l] = 0 /\ \E k \in Kind : pc[k][l] # "none"

FinalLeftOnlyByRunningJob == [][FinalKept]_vars

(* Every mail comes to its end, at the latest when retention ends: its raw *)
(* e-mail is gone, file and path, and its log is closed, even if no retry  *)
(* run is ever started again and whatever fails in between.                *)
RetentionCloses ==
  \A l \in Log : path[l] ~> (~path[l] /\ ~file[l] /\ status[l] \in Final)

(* A started retry run ends, whatever Telegram, cleanup, users and crashes *)
(* do meanwhile: a run that hung would block every later one, because the  *)
(* runner skips its ticks while one is active.                             *)
RetryRunEnds == worker.pc # "idle" ~> worker.pc = "idle"

-----------------------------------------------------------------------------
(* Refinement: the status column seen as the phase of a mail.              *)

Phase(s) ==
  CASE s = "none" -> "absent"
    [] s = "delivered" -> "delivered"
    [] s = "permanently_failed" -> "closed"
    [] OTHER -> "open"

Promise == INSTANCE DeliveryPromise
             WITH phase <- [l \in Log |-> Phase(status[l])],
                  refunded <- [l \in Log |-> refunds[l] > 0],
                  copies <- landed

(* The component implements DeliveryPromise: in particular no job, retry   *)
(* or restart sends a mail that is recorded as delivered or refunded, and  *)
(* nothing reopens a refunded one.                                         *)
KeepsPromise == Promise!Spec

-----------------------------------------------------------------------------
(* Statements of the repository about finished deliveries.                 *)

(* deliveryLogs.ts, on the logs without a final status: "cleanup closes    *)
(* them once the raw email expires"; cleanup.ts: "once it expires an       *)
(* undelivered log can never deliver, so close it out".  No log stays      *)
(* without a final status.                                                 *)
EveryMailSettles == \A l \in Log : status[l] \in NonFinal ~> status[l] \in Final

(* raw.ts, on a delivery over the in-flight cap: the retry worker "drains  *)
(* it"; monitoring.md: "It is delivered minutes later".  A delivered mail  *)
(* had its attachments stored, so that they were sent or linked.           *)
DeliveredWithAttachments ==
  \A l \in Log : status[l] = "delivered" => prepared[l]
=============================================================================
