------------------------------- MODULE Inbound -------------------------------
(***************************************************************************)
(* How an e-mail becomes a delivery log: the raw route, the queue          *)
(* transaction, the pending metadata beside the raw file, and the recovery *)
(* that the retry worker runs over it.                                     *)
(*                                                                         *)
(* A request works on a stored path of its own (a fresh UUID); a resent    *)
(* message comes back under another path.  After a crash or an error the   *)
(* recovery takes the same path through the same queue code, so that two   *)
(* kinds of actor, "request" and "recovery", can meet on one path.  All    *)
(* paths belong to one owner: owners share nothing that is modelled here.  *)
(* A message without a Message-ID is a message that no other path has.     *)
(***************************************************************************)
EXTENDS Naturals, FiniteSets

CONSTANTS
  Path,          \* stored paths of raw e-mails
  Message,       \* what dedup compares: the Message-ID, or the body hash
  MessageOf,     \* the message a path holds
  Alias,         \* aliases of the owner
  AliasOf,       \* the alias a path is addressed to
  MonthlyLimit,  \* plan.limits.deliveredEmailsMonth
  HourlyCap,     \* plan.limits.aliasEmailsPerHour
  Traffic,       \* bound: the sets of paths that requests arrive for
  MaxMonth,      \* bound: months that begin
  MaxUpsets,     \* bound: errors, crashes and new months, taken together
  None           \* nobody holds the owner's lock

ASSUME InboundAssumption ==
  /\ MessageOf \in [Path -> Message]
  /\ AliasOf \in [Path -> Alias]
  /\ IsFiniteSet(Path)
  /\ MonthlyLimit \in Nat
  /\ HourlyCap \in Nat
  /\ Traffic \subseteq SUBSET Path
  /\ MaxMonth \in Nat \ {0}
  /\ MaxUpsets \in Nat
  /\ None \notin {"request", "recovery"} \X Path

VARIABLES
  active,    \* alias -> its status is "active"
  file,      \* path -> the raw .eml is on disk
  meta,      \* path -> its .pending.json is on disk
  old,       \* path -> the metadata is older than PENDING_RAW_MIN_AGE_MS
  row,       \* path -> the delivery log that was created with this path
  over,      \* path -> the retention period of the log's raw e-mail is over
  received,  \* path -> month of the log's received_at
  refunded,  \* path -> the charge was refunded
  recent,    \* paths whose logs were received within the last hour
  usage,     \* month -> deliveredCount
  rejected,  \* month -> rejectedCount
  month,     \* the current month
  lock,      \* holder of pg_advisory_xact_lock(owner)
  pc,        \* kind -> path -> control state
  verdict,   \* kind -> path -> outcome of queueInboundEmail
  tx,        \* kind -> path -> months of the decision and of the BEGIN
  reply,     \* path -> answer to the request
  run,       \* the recovery's run: whether it is on, and what is left of its list
  faults     \* errors and crashes so far

disk == <<file, meta>>
logs == <<row, received, recent>>
counters == <<usage, rejected>>
local == <<verdict, tx>>
vars == <<active, disk, old, logs, over, refunded, counters, month, lock, pc,
          local, reply, run, faults>>

Kind == {"request", "recovery"}
Month == 1..MaxMonth

(* "held": raw_email_path is set; "expired": it was cleared by cleanup.    *)
Row == {"none", "held", "expired", "purged"}

(* "refused" stands for the sender rules, an inactive subscription and the *)
(* message size; "quota" for the monthly and the storage limit.            *)
Verdict == {"none", "queued", "duplicate", "rate_limited", "quota", "refused",
            "temperror", "alias_not_found"}

Pc == {"new", "none", "write", "describe", "lookup", "read", "queue", "begin",
       "lock", "check", "commit", "unlink", "unmeta", "reply"}

Reply == {"none", "accepted", "rejected", "error"}

NoTx == [decided |-> 0, begun |-> 0]

Init ==
  /\ active = [a \in Alias |-> TRUE]
  /\ file = [p \in Path |-> FALSE]
  /\ meta = [p \in Path |-> FALSE]
  /\ old = [p \in Path |-> FALSE]
  /\ row = [p \in Path |-> "none"]
  /\ over = [p \in Path |-> FALSE]
  /\ received = [p \in Path |-> 0]
  /\ refunded = [p \in Path |-> FALSE]
  /\ recent = {}
  /\ usage = [m \in Month |-> 0]
  /\ rejected = [m \in Month |-> 0]
  /\ month = 1
  /\ lock = None
  /\ pc = [k \in Kind |-> [p \in Path |-> IF k = "request" THEN "new" ELSE "none"]]
  /\ verdict = [k \in Kind |-> [p \in Path |-> "none"]]
  /\ tx = [k \in Kind |-> [p \in Path |-> NoTx]]
  /\ reply = [p \in Path |-> "none"]
  /\ run = [on |-> FALSE, todo |-> {}]
  /\ faults = 0

-----------------------------------------------------------------------------
(* Shared pieces.                                                          *)

Goto(k, p, s) == pc' = [pc EXCEPT ![k][p] = s]
Answer(p, r) == reply' = [reply EXCEPT ![p] = r]
UpsetsLeft == faults + (month - 1) < MaxUpsets
Fault == UpsetsLeft /\ faults' = faults + 1

(* isDuplicate, and what the unique dedup indexes enforce.                 *)
Duplicate(p) ==
  \E q \in Path : /\ row[q] \in {"held", "expired"}
                  /\ AliasOf[q] = AliasOf[p] /\ MessageOf[q] = MessageOf[p]

(* countRecentDeliveriesByAlias.                                           *)
RecentOf(a) == {q \in recent : AliasOf[q] = a}

-----------------------------------------------------------------------------
(* Faulty variants of definitions below, each a plausible slip in the code *)
(* that one of the properties must catch.                                  *)

(* A sender rejection has no status of its own and is answered with 202.   *)
ReplyForSilent(v) == IF v \in {"quota", "temperror"} THEN "rejected" ELSE "accepted"

(* The age of the metadata is not checked.                                 *)
NextPendingYoung(p) ==
  /\ p \in run.todo
  /\ \A q \in Path : pc["recovery"][q] = "none"
  /\ run' = [run EXCEPT !.todo = @ \ {p}]
  /\ Goto("recovery", p, "lookup")
  /\ UNCHANGED <<active, disk, old, logs, over, refunded, counters, month, lock,
                 local, reply, faults>>

(* The transaction does not wait for the lock.                             *)
LockFree(k, p) ==
  /\ pc[k][p] = "lock"
  /\ lock' = <<k, p>>
  /\ Goto(k, p, "check")
  /\ UNCHANGED <<active, disk, old, logs, over, refunded, counters, month,
                 local, reply, run, faults>>

(* The monthly limit is compared with > instead of >=.                     *)
CheckOffByOne(k, p) ==
  /\ pc[k][p] = "check"
  /\ \E v \in {"quota", "refused", "duplicate", "rate_limited", "queued"} :
       /\ v \in {"duplicate", "rate_limited", "queued"}
            => /\ usage[tx[k][p].decided] <= MonthlyLimit
               /\ v = "duplicate" <=> Duplicate(p)
       /\ v \in {"rate_limited", "queued"}
            => (v = "rate_limited"
                  <=> Cardinality(RecentOf(AliasOf[p])) >= HourlyCap)
       /\ verdict' = [verdict EXCEPT ![k][p] = v]
  /\ Goto(k, p, "commit")
  /\ UNCHANGED <<active, disk, old, logs, over, refunded, counters, month, lock,
                 tx, reply, run, faults>>

-----------------------------------------------------------------------------
(* The consequences of a verdict.                                          *)

(* shouldDeletePendingMeta: the route drops these rejections.              *)
RouteDrops == {"duplicate", "alias_not_found", "refused", "quota", "temperror"}

(* shouldDeletePendingRawEmail: the recovery keeps a mail whose sender     *)
(* check failed temporarily; the route answered 503 to it.                 *)
RecoveryDrops == {"duplicate", "alias_not_found", "refused", "quota"}

(* What follows queueInboundEmail: the route deletes a rejected file first *)
(* and the metadata after it, the recovery the other way round.            *)
AfterQueue(k, v) ==
  IF k = "request"
  THEN IF v = "queued" THEN "unmeta" ELSE IF v \in RouteDrops THEN "unlink" ELSE "reply"
  ELSE IF v \in RecoveryDrops \cup {"queued"} THEN "unmeta" ELSE "none"

(* statusForQueueRejection: without a status of its own a rejection is     *)
(* answered like an acceptance.                                            *)
ReplyFor(v) ==
  IF v \in {"quota", "refused", "temperror"} THEN "rejected" ELSE "accepted"

-----------------------------------------------------------------------------
(* The request up to the queue.                                            *)

(* Signature and nonce, alias lookup, block list and the unlocked limit    *)
(* check.  Only the monthly limit is modelled: a mail can be refused here  *)
(* for other reasons too, and a rejection for a quota is counted.          *)
Precheck(p) ==
  /\ pc["request"][p] = "new"
  /\ \E T \in Traffic : {p} \cup {q \in Path : pc["request"][q] # "new"} \subseteq T
  /\ \/ /\ active[AliasOf[p]]
        /\ usage[month] < MonthlyLimit
        /\ Goto("request", p, "write")
        /\ UNCHANGED <<reply, rejected>>
     \/ /\ rejected' = [rejected EXCEPT ![month] = @ + 1]
        /\ Answer(p, "rejected")
        /\ Goto("request", p, "none")
     \/ /\ Answer(p, "rejected")
        /\ Goto("request", p, "none")
        /\ UNCHANGED rejected
  /\ UNCHANGED <<active, disk, old, logs, over, refunded, usage, month, lock,
                 local, run, faults>>

WriteRaw(p) ==
  /\ pc["request"][p] = "write"
  /\ file' = [file EXCEPT ![p] = TRUE]
  /\ Goto("request", p, "describe")
  /\ UNCHANGED <<active, meta, old, logs, over, refunded, counters, month, lock,
                 local, reply, run, faults>>

(* writeFile failed, possibly after a part of the file; nothing removes it.*)
WriteRawFails(p) ==
  /\ pc["request"][p] = "write"
  /\ Fault
  /\ \E left \in BOOLEAN : file' = [file EXCEPT ![p] = left]
  /\ Answer(p, "error")
  /\ Goto("request", p, "none")
  /\ UNCHANGED <<active, meta, old, logs, over, refunded, counters, month, lock,
                 local, run>>

WriteMeta(p) ==
  /\ pc["request"][p] = "describe"
  /\ meta' = [meta EXCEPT ![p] = TRUE]
  /\ Goto("request", p, "queue")
  /\ UNCHANGED <<active, file, old, logs, over, refunded, counters, month, lock,
                 local, reply, run, faults>>

(* The raw file is deleted again; an error of that is swallowed.           *)
WriteMetaFails(p) ==
  /\ pc["request"][p] = "describe"
  /\ Fault
  /\ \E left \in BOOLEAN : file' = [file EXCEPT ![p] = left]
  /\ Answer(p, "error")
  /\ Goto("request", p, "none")
  /\ UNCHANGED <<active, meta, old, logs, over, refunded, counters, month, lock,
                 local, run>>

-----------------------------------------------------------------------------
(* The recovery up to the queue.                                           *)

Recovering == {p \in Path : pc["recovery"][p] # "none"}

(* recoverPendingRawEmails lists the pending metadata.                     *)
ListPending ==
  /\ ~run.on
  /\ run' = [on |-> TRUE, todo |-> {p \in Path : meta[p]}]
  /\ UNCHANGED <<active, disk, old, logs, over, refunded, counters, month, lock,
                 pc, local, reply, faults>>

(* The next listed mail; a young one may belong to a running request.      *)
NextPending(p) ==
  /\ p \in run.todo
  /\ Recovering = {}
  /\ run' = [run EXCEPT !.todo = @ \ {p}]
  /\ IF old[p] THEN Goto("recovery", p, "lookup") ELSE UNCHANGED pc
  /\ UNCHANGED <<active, disk, old, logs, over, refunded, counters, month, lock,
                 local, reply, faults>>

RecoveryEnds ==
  /\ run.on
  /\ run.todo = {}
  /\ Recovering = {}
  /\ run' = [run EXCEPT !.on = FALSE]
  /\ verdict' = [verdict EXCEPT !["recovery"] = [p \in Path |-> "none"]]
  /\ UNCHANGED <<active, disk, old, logs, over, refunded, counters, month, lock,
                 pc, tx, reply, faults>>

(* findDeliveryLogByRawEmailPath: a queued mail needs only its metadata    *)
(* deleted.                                                                *)
LookUpLog(p) ==
  /\ pc["recovery"][p] = "lookup"
  /\ IF row[p] = "held"
     THEN /\ verdict' = [verdict EXCEPT !["recovery"][p] = "queued"]
          /\ Goto("recovery", p, "unmeta")
     ELSE /\ Goto("recovery", p, "read")
          /\ UNCHANGED verdict
  /\ UNCHANGED <<active, disk, old, logs, over, refunded, counters, month, lock,
                 tx, reply, run, faults>>

(* readRawEmail; ENOENT drops the metadata.                                *)
ReadPending(p) ==
  /\ pc["recovery"][p] = "read"
  /\ IF file[p]
     THEN /\ Goto("recovery", p, "queue")
          /\ UNCHANGED meta
     ELSE /\ meta' = [meta EXCEPT ![p] = FALSE]
          /\ Goto("recovery", p, "none")
  /\ UNCHANGED <<active, file, old, logs, over, refunded, counters, month, lock,
                 local, reply, run, faults>>

(* Any other error, or a failed lookup: the mail waits for the next run.   *)
RecoveryThrows(p) ==
  /\ pc["recovery"][p] \in {"lookup", "read"}
  /\ Fault
  /\ Goto("recovery", p, "none")
  /\ UNCHANGED <<active, disk, old, logs, over, refunded, counters, month, lock,
                 local, reply, run>>

-----------------------------------------------------------------------------
(* queueInboundEmail, for both.                                            *)

(* Alias and sender rules, then the month for the whole decision.          *)
Admit(k, p) ==
  /\ pc[k][p] = "queue"
  /\ \/ /\ active[AliasOf[p]]
        /\ tx' = [tx EXCEPT ![k][p].decided = month]
        /\ Goto(k, p, "begin")
        /\ UNCHANGED verdict
     \/ \E v \in {"alias_not_found", "refused", "temperror"} :
          /\ v = "alias_not_found" <=> ~active[AliasOf[p]]
          /\ verdict' = [verdict EXCEPT ![k][p] = v]
          /\ Goto(k, p, AfterQueue(k, v))
          /\ UNCHANGED tx
  /\ UNCHANGED <<active, disk, old, logs, over, refunded, counters, month, lock,
                 reply, run, faults>>

(* BEGIN: the transaction's now() is what received_at will be.             *)
Begin(k, p) ==
  /\ pc[k][p] = "begin"
  /\ tx' = [tx EXCEPT ![k][p].begun = month]
  /\ Goto(k, p, "lock")
  /\ UNCHANGED <<active, disk, old, logs, over, refunded, counters, month, lock,
                 verdict, reply, run, faults>>

(* The owner's advisory lock; it covers the alias lock taken after it.     *)
Lock(k, p) ==
  /\ pc[k][p] = "lock"
  /\ lock = None
  /\ lock' = <<k, p>>
  /\ Goto(k, p, "check")
  /\ UNCHANGED <<active, disk, old, logs, over, refunded, counters, month,
                 local, reply, run, faults>>

(* Limit, then duplicate, then hourly cap.  Plan, size and storage are not *)
(* modelled: the limit check may refuse for them at any time.              *)
Check(k, p) ==
  /\ pc[k][p] = "check"
  /\ \E v \in {"quota", "refused", "duplicate", "rate_limited", "queued"} :
       /\ v \in {"duplicate", "rate_limited", "queued"}
            => /\ usage[tx[k][p].decided] < MonthlyLimit
               /\ v = "duplicate" <=> Duplicate(p)
       /\ v \in {"rate_limited", "queued"}
            => (v = "rate_limited"
                  <=> Cardinality(RecentOf(AliasOf[p])) >= HourlyCap)
       /\ verdict' = [verdict EXCEPT ![k][p] = v]
  /\ Goto(k, p, "commit")
  /\ UNCHANGED <<active, disk, old, logs, over, refunded, counters, month, lock,
                 tx, reply, run, faults>>

(* What the transaction writes: the log and its charge, or the count of a  *)
(* quota rejection.  The unique dedup indexes, a second net under the      *)
(* locks, are left out: the properties do not need them.                   *)
Apply(k, p) ==
  LET m == tx[k][p].decided IN
  \/ /\ verdict[k][p] = "queued"
     /\ row' = [row EXCEPT ![p] = "held"]
     /\ received' = [received EXCEPT ![p] = tx[k][p].begun]
     /\ recent' = recent \cup {p}
     /\ usage' = [usage EXCEPT ![m] = @ + 1]
     /\ UNCHANGED rejected
  \/ /\ verdict[k][p] = "quota"
     /\ rejected' = [rejected EXCEPT ![m] = @ + 1]
     /\ UNCHANGED <<logs, usage>>
  \/ /\ verdict[k][p] \notin {"queued", "quota"}
     /\ UNCHANGED <<logs, counters>>

(* Faulty variant of Commit: with a session lock instead of a transaction  *)
(* lock, COMMIT would not release it.                                      *)
CommitKeepsLock(k, p) ==
  /\ pc[k][p] = "commit"
  /\ Apply(k, p)
  /\ tx' = [tx EXCEPT ![k][p] = NoTx]
  /\ Goto(k, p, AfterQueue(k, verdict[k][p]))
  /\ UNCHANGED <<active, disk, old, over, refunded, month, lock, verdict, reply, run,
                 faults>>

(* COMMIT releases the lock.                                               *)
Commit(k, p) ==
  /\ pc[k][p] = "commit"
  /\ Apply(k, p)
  /\ lock' = None
  /\ tx' = [tx EXCEPT ![k][p] = NoTx]
  /\ Goto(k, p, AfterQueue(k, verdict[k][p]))
  /\ UNCHANGED <<active, disk, old, over, refunded, month, verdict, reply, run, faults>>

(* The queue throws.  A failed COMMIT may have been applied.  The route    *)
(* answers 500, the recovery goes on to the next mail; file and metadata   *)
(* stay.                                                                   *)
QueueThrows(k, p) ==
  /\ pc[k][p] \in {"queue", "begin", "lock", "check", "commit"}
  /\ Fault
  /\ \/ pc[k][p] = "commit" /\ Apply(k, p)
     \/ UNCHANGED <<logs, counters>>
  /\ lock' = IF lock = <<k, p>> THEN None ELSE lock
  /\ verdict' = [verdict EXCEPT ![k][p] = "none"]
  /\ tx' = [tx EXCEPT ![k][p] = NoTx]
  /\ Goto(k, p, "none")
  /\ reply' = [reply EXCEPT ![p] = IF k = "request" THEN "error" ELSE @]
  /\ UNCHANGED <<active, disk, old, over, refunded, month, run>>

-----------------------------------------------------------------------------
(* After the queue.                                                        *)

AfterUnlink(k) == IF k = "request" THEN "unmeta" ELSE "none"

Unlink(k, p) ==
  /\ pc[k][p] = "unlink"
  /\ file' = [file EXCEPT ![p] = FALSE]
  /\ Goto(k, p, AfterUnlink(k))
  /\ UNCHANGED <<active, meta, old, logs, over, refunded, counters, month, lock,
                 local, reply, run, faults>>

(* Logged, and passed over.                                                *)
UnlinkFails(k, p) ==
  /\ pc[k][p] = "unlink"
  /\ Fault
  /\ Goto(k, p, AfterUnlink(k))
  /\ UNCHANGED <<active, disk, old, logs, over, refunded, counters, month, lock,
                 local, reply, run>>

(* A queued mail goes on to its delivery, a rejected one of the recovery   *)
(* to the deletion of its file.                                            *)
Unmeta(k, p) ==
  /\ pc[k][p] = "unmeta"
  /\ meta' = [meta EXCEPT ![p] = FALSE]
  /\ Goto(k, p, IF k = "request" THEN "reply"
                ELSE IF verdict[k][p] = "queued" THEN "none" ELSE "unlink")
  /\ UNCHANGED <<active, file, old, logs, over, refunded, counters, month, lock,
                 local, reply, run, faults>>

(* The route logs it and answers; the recovery gives the mail up until its *)
(* next run.                                                               *)
UnmetaFails(k, p) ==
  /\ pc[k][p] = "unmeta"
  /\ Fault
  /\ Goto(k, p, IF k = "request" THEN "reply" ELSE "none")
  /\ UNCHANGED <<active, disk, old, logs, over, refunded, counters, month, lock,
                 local, reply, run>>

SendReply(p) ==
  /\ pc["request"][p] = "reply"
  /\ Answer(p, ReplyFor(verdict["request"][p]))
  /\ verdict' = [verdict EXCEPT !["request"][p] = "none"]
  /\ Goto("request", p, "none")
  /\ UNCHANGED <<active, disk, old, logs, over, refunded, counters, month, lock,
                 tx, run, faults>>

-----------------------------------------------------------------------------
(* The surroundings.                                                       *)

SetAliasStatus(a) ==
  /\ active' = [active EXCEPT ![a] = ~@]
  /\ UNCHANGED <<disk, old, logs, over, refunded, counters, month, lock, pc,
                 local, reply, run, faults>>

(* PENDING_RAW_MIN_AGE_MS after the metadata was written.  The code relies *)
(* on a request being through by then; see the README.                     *)
MetaGrowsOld(p) ==
  /\ meta[p] /\ ~old[p]
  /\ pc["request"][p] = "none"
  /\ old' = [old EXCEPT ![p] = TRUE]
  /\ UNCHANGED <<active, disk, logs, over, refunded, counters, month, lock, pc,
                 local, reply, run, faults>>

HourPasses ==
  /\ recent # {}
  /\ recent' = {}
  /\ UNCHANGED <<active, disk, old, row, received, over, refunded,
                 counters, month, lock, pc, local, reply, run, faults>>

NewMonth ==
  /\ month < MaxMonth /\ UpsetsLeft
  /\ month' = month + 1
  /\ UNCHANGED <<active, disk, old, logs, over, refunded, counters, lock, pc,
                 local, reply, run, faults>>

(* Cleanup at the end of retention, a whole number of hours and at least   *)
(* one: the file, then the row's path, much later the row itself.          *)
ExpireFile(p) ==
  /\ row[p] = "held" /\ p \notin recent
  /\ over' = [over EXCEPT ![p] = TRUE]
  /\ file' = [file EXCEPT ![p] = FALSE]
  /\ UNCHANGED <<active, meta, old, logs, refunded, counters, month, lock, pc,
                 local, reply, run, faults>>

ExpireRow(p) ==
  /\ row[p] = "held" /\ over[p]
  /\ row' = [row EXCEPT ![p] = "expired"]
  /\ UNCHANGED <<active, disk, old, received, recent, over, refunded,
                 counters, month, lock, pc, local, reply, run, faults>>

PurgeRow(p) ==
  /\ row[p] = "expired"
  /\ p \notin recent
  /\ row' = [row EXCEPT ![p] = "purged"]
  /\ UNCHANGED <<active, disk, old, received, recent, over, refunded,
                 counters, month, lock, pc, local, reply, run, faults>>

(* refundAcceptedEmail of a permanently failed delivery, outside the lock: *)
(* the counter of the month of received_at, clamped at zero.               *)
RefundCharge(p) ==
  /\ row[p] \in {"held", "expired"}
  /\ ~refunded[p]
  /\ refunded' = [refunded EXCEPT ![p] = TRUE]
  /\ usage' = [usage EXCEPT ![received[p]] = IF @ = 0 THEN 0 ELSE @ - 1]
  /\ UNCHANGED <<active, disk, old, logs, over, rejected, month, lock, pc,
                 local, reply, run, faults>>

(* The process dies: requests and the recovery are gone, the open          *)
(* transaction is rolled back unless its COMMIT got through.               *)
Crash ==
  /\ Fault
  /\ \/ \E k \in Kind, p \in Path : pc[k][p] = "commit" /\ Apply(k, p)
     \/ UNCHANGED <<logs, counters>>
  /\ pc' = [k \in Kind |-> [p \in Path |-> IF pc[k][p] = "new" THEN "new" ELSE "none"]]
  /\ lock' = None
  /\ tx' = [k \in Kind |-> [p \in Path |-> NoTx]]
  /\ verdict' = [k \in Kind |-> [p \in Path |-> "none"]]
  /\ run' = [on |-> FALSE, todo |-> {}]
  /\ UNCHANGED <<active, disk, old, over, refunded, month, reply>>

RequestStep(p) ==
  \/ Precheck(p) \/ WriteRaw(p) \/ WriteRawFails(p) \/ WriteMeta(p)
  \/ WriteMetaFails(p) \/ SendReply(p)

RecoveryStep(p) == NextPending(p) \/ LookUpLog(p) \/ ReadPending(p) \/ RecoveryThrows(p)

QueueStep(k, p) ==
  \/ Admit(k, p) \/ Begin(k, p) \/ Lock(k, p) \/ Check(k, p) \/ Commit(k, p)
  \/ QueueThrows(k, p) \/ Unlink(k, p) \/ UnlinkFails(k, p) \/ Unmeta(k, p)
  \/ UnmetaFails(k, p)

LogStep(p) == ExpireFile(p) \/ ExpireRow(p) \/ PurgeRow(p) \/ RefundCharge(p)

Next ==
  \/ \E p \in Path : RequestStep(p) \/ RecoveryStep(p) \/ LogStep(p) \/ MetaGrowsOld(p)
  \/ \E k \in Kind, p \in Path : QueueStep(k, p)
  \/ ListPending \/ RecoveryEnds \/ HourPasses \/ NewMonth \/ Crash
  \/ \E a \in Alias : SetAliasStatus(a)

Spec == Init /\ [][Next]_vars

(* The steps of the queue code that wait for nobody.                       *)
QueueProgress(k, p) ==
  \/ Admit(k, p) \/ Begin(k, p) \/ Check(k, p) \/ Commit(k, p)
  \/ Unlink(k, p) \/ Unmeta(k, p)

(***************************************************************************)
(* Fairness: node goes on with some request that can go on, and with a     *)
(* started recovery; PostgreSQL grants an advisory lock to its waiters in  *)
(* turn (SF).  A request has finitely many steps, so that fairness to all  *)
(* of them together leaves none of them behind.                            *)
(***************************************************************************)
Fairness ==
  /\ WF_vars(\E p \in Path : \/ WriteRaw(p) \/ WriteMeta(p) \/ SendReply(p)
                             \/ QueueProgress("request", p))
  /\ SF_vars(\E p \in Path : Lock("request", p))
  /\ WF_vars(\/ RecoveryEnds
             \/ \E p \in Path : \/ NextPending(p) \/ LookUpLog(p) \/ ReadPending(p)
                                \/ QueueProgress("recovery", p))
  /\ SF_vars(\E p \in Path : Lock("recovery", p))

FairSpec == Spec /\ Fairness

-----------------------------------------------------------------------------
(* Properties.                                                             *)

(* Every variable keeps its type.                                          *)
TypeOK ==
  /\ active \in [Alias -> BOOLEAN]
  /\ file \in [Path -> BOOLEAN]
  /\ meta \in [Path -> BOOLEAN]
  /\ old \in [Path -> BOOLEAN]
  /\ row \in [Path -> Row]
  /\ over \in [Path -> BOOLEAN]
  /\ received \in [Path -> 0..MaxMonth]
  /\ refunded \in [Path -> BOOLEAN]
  /\ recent \in SUBSET Path
  /\ usage \in [Month -> Nat]
  /\ rejected \in [Month -> Nat]
  /\ month \in Month
  /\ lock \in (Kind \X Path) \cup {None}
  /\ pc \in [Kind -> [Path -> Pc]]
  /\ verdict \in [Kind -> [Path -> Verdict]]
  /\ tx \in [Kind -> [Path -> [decided : 0..MaxMonth, begun : 0..MaxMonth]]]
  /\ reply \in [Path -> Reply]
  /\ run \in [on : BOOLEAN, todo : SUBSET Path]
  /\ faults \in Nat

(* What the queue transaction read is still true when it commits: the      *)
(* quota and the hourly cap have room and no other path has stored the     *)
(* same message, however many requests and recoveries queue at once.  The  *)
(* insert therefore never meets the unique dedup indexes.                  *)
DecisionStillTrue ==
  \A k \in Kind, p \in Path :
    pc[k][p] = "commit" /\ verdict[k][p] = "queued"
      => /\ usage[tx[k][p].decided] < MonthlyLimit
         /\ Cardinality(RecentOf(AliasOf[p])) < HourlyCap
         /\ ~Duplicate(p)

(* No month is charged beyond the limit or refunded below zero, not even   *)
(* by a refund that meets the counter of another month than its charge,    *)
(* and no alias takes more than its hourly cap.                            *)
LimitsKept ==
  /\ \A m \in Month : usage[m] \in 0..MonthlyLimit
  /\ \A a \in Alias : Cardinality(RecentOf(a)) <= HourlyCap

(* A message of an alias is stored, and hence charged and delivered, once, *)
(* however often it is resent, recovered, or its commit was in doubt.      *)
OneLogPerMessage ==
  \A p, q \in Path :
    /\ p # q /\ AliasOf[p] = AliasOf[q] /\ MessageOf[p] = MessageOf[q]
    => ~(row[p] \in {"held", "expired"} /\ row[q] \in {"held", "expired"})

(* A log keeps the raw e-mail it refers to until retention ends: neither   *)
(* the request nor the recovery deletes it as a rejected or duplicate one. *)
LogKeepsRawFile ==
  \A p \in Path : row[p] = "held" /\ ~file[p] => over[p]

(* There is a record of p: a log of its message, or the pending raw e-mail.*)
Recorded(p) ==
  \/ meta[p] /\ file[p]
  \/ \E q \in Path : /\ row[q] # "none"
                     /\ AliasOf[q] = AliasOf[p] /\ MessageOf[q] = MessageOf[p]

(* The mail of p was acknowledged and nothing is left of it.               *)
Lost(p) == reply[p] = "accepted" /\ ~Recorded(p)

(* An acknowledged mail goes away by two steps only: the answer to a mail  *)
(* whose alias the queue no longer found active, and the recovery dropping *)
(* a mail that it has just rejected.  No crash, error, lost COMMIT, resend *)
(* or retention step, and no race of the two on one path, loses one.       *)
LostOnlyByDecision ==
  [][\A p \in Path :
       ~Lost(p) /\ Lost(p)' =>
         \/ /\ pc["request"][p] = "reply"
            /\ verdict["request"][p] = "alias_not_found"
         \/ /\ pc["recovery"][p] = "unmeta"
            /\ verdict["recovery"][p] \in {"alias_not_found", "refused", "quota"}]_vars

(* What the route's comment says of its 202: by then there is a durable    *)
(* record of the mail, for retry and recovery.  The code breaks it.        *)
AcknowledgedIsKept == \A p \in Path : reply[p] = "accepted" => Recorded(p)

(* Every request is answered unless the process dies, and a recovery run   *)
(* ends: waiting for the owner's lock never becomes a deadlock.            *)
ActorsEnd ==
  []<>(~run.on /\ \A p \in Path : pc["request"][p] \in {"new", "none"})

=============================================================================
