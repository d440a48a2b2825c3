------------------------------ MODULE Ingress ------------------------------
(***************************************************************************)
(* From the sending mail server to the answer it gets: the Cloudflare      *)
(* worker (src/cloudflare-worker/src/worker.ts), the preflight route       *)
(* (src/src/http/routes/preflight.ts), the signature and nonce of the raw  *)
(* upload (src/src/utils/workerAuth.ts, db/repos/workerRequestNonces.ts),  *)
(* the decision of the raw route, and the quota notices that rejections    *)
(* and acceptances fire and forget (src/src/billing/quotaNotifier.ts).     *)
(*                                                                         *)
(* Module Inbound models what the raw route does with an upload it keeps;  *)
(* here its queue transaction is one step.  The network may lose an        *)
(* answer, delay an upload or deliver it twice; the process may restart.   *)
(* One alias and one hosted owner, whose plan does not change; the monthly *)
(* limit stands for the notifiable quota reasons, which share one code     *)
(* path.  A delivery that fails for good gives its charge back.            *)
(***************************************************************************)
EXTENDS Integers, FiniteSets, FiniteSetsExt

CONSTANTS
    Mail,          \* mails the sending server delivers
    MaxTries,      \* bound: deliveries it tries per mail
    MaxDeliveries, \* bound: deliveries it tries in all
    MaxCopies,     \* bound: uploads the network delivers twice
    Limit,         \* plan.limits.deliveredEmailsMonth
    Used,          \* what may have been used of it when the model begins
    MaxMonth,      \* bound on the UTC month
    MaxAge,        \* MAX_AGE_MS, in ticks
    MaxSkew,       \* MAX_FUTURE_SKEW_MS
    HandlerTicks,  \* ticks a request may spend between verification and nonce
    NonceTicks     \* the ten minutes a nonce is kept

ASSUME IngressAssumption ==
    /\ {MaxTries, MaxDeliveries, MaxCopies, Limit, MaxMonth} \subseteq Nat
    /\ {MaxAge, MaxSkew, HandlerTicks, NonceTicks} \subseteq Nat
    /\ MaxMonth > 0 /\ Used \subseteq 0..Limit
    \* 5 min + 30 s, and a handler that takes less than 4.5 min, against 10 min
    /\ MaxAge + MaxSkew + HandlerTicks <= NonceTicks

VARIABLES
    mta,        \* per mail: what the sending server knows of it, and its tries
    worker,     \* per mail: the invocation of the worker
    month,      \* the UTC month
    count,      \* user_usage_months.delivered_count, per month
    full,       \* history: months whose count has reached the limit
    queued,     \* mails with a delivery log
    charges,    \* charged mails and the month of received_at, not refunded
    wire,       \* signed uploads the network holds
    copies,     \* uploads the network delivered and kept
    handling,   \* uploads inside the raw route
    nonces,     \* worker_request_nonces
    processed,  \* history: how often an upload passed the nonce
    decided,    \* history: mails that a route turned down for good
    kept,       \* mails answered 202 and kept for the recovery
    tasks,      \* notices fired and not finished
    claims,     \* user_quota_notifications
    sends,      \* history: notices that reached the owner
    failed      \* history: months whose warning failed or died with the process

vars == <<mta, worker, month, count, full, queued, charges, wire, copies, handling,
          nonces, processed, decided, kept, tasks, claims, sends, failed>>

ledger == <<count, full, queued, charges>>

quota == <<tasks, claims, sends, failed>>
net   == <<wire, copies, handling, nonces, processed>>

Month == 1..MaxMonth

\* What a route finds besides the quota, and the owner may change at any time:
\* no active alias or a block, no allow rules, the hourly cap, or none of these.
Door  == {"open", "closed", "no_rules", "busy"}

\* The raw route looks the alias up twice: it may be gone at the second look.
RawDoor == Door \cup {"gone"}

Upload == Mail \X (1..MaxTries)

\* Answers of the two routes, by what the worker makes of them.
Answer == {"none", "accept", "reject", "202", "401", "403", "429", "503"}

\* The notices' keys: one row per reason and month.
Key == {"approaching", "monthly"} \X Month

\* An invocation of the worker; month is the one its preflight captured.
Invocation == [pc : {"idle", "preflight", "decide", "answered", "uploading"},
               month : Month, answer : Answer]

\* A signed upload by the age of its timestamp, negative when it is ahead.
Signed == [mail : Mail, try : 1..MaxTries, age : (0 - MaxSkew)..(MaxAge + 1)]

\* An upload inside the raw route.
Request == [mail : Mail, try : 1..MaxTries, copy : BOOLEAN, age : 0..HandlerTicks,
            pc : {"nonce", "decide"}, month : Month]

\* A row of worker_request_nonces.
Nonce == [sig : Upload, age : 0..(NonceTicks + 1)]

\* A notice that a route fired.
Fired == [mail : Mail, try : 0..MaxTries, reason : {"approaching", "monthly"},
          month : Month, used : 0..Limit, step : {"claim", "send"}]

\* APPROACHING_LIMIT_THRESHOLD: ceil(limit * 0.8).
Threshold == (4 * Limit + 4) \div 5

Init ==
    /\ mta = [m \in Mail |-> [state |-> "queued", tries |-> 0]]
    /\ worker = [m \in Mail |-> [pc |-> "idle", month |-> 1, answer |-> "none"]]
    /\ month = 1
    /\ \E used \in Used :
         count = [k \in Month |-> IF k = 1 THEN used ELSE 0]
    /\ claims = IF count[1] >= Threshold THEN {<<"approaching", 1>>} ELSE {}
    /\ full = {k \in Month : count[k] >= Limit}
    /\ queued = {} /\ charges = {} /\ wire = {} /\ copies = {} /\ handling = {} /\ nonces = {}
    /\ processed = [u \in Upload |-> 0]
    /\ decided = {} /\ kept = {}
    /\ tasks = {} /\ failed = {}
    /\ sends = [k \in Key |-> 0]

Goto(m, p) == worker' = [worker EXCEPT ![m].pc = p]

-----------------------------------------------------------------------------
(* Quota notices. *)

\* Mutant: the month is computed again when the notice is fired.
TaskOfToday(m, reason, k, used) ==
    [mail |-> m, try |-> mta[m].tries, reason |-> reason, month |-> month, used |-> used,
     step |-> "claim"]

\* notifyQuotaExhausted and notifyApproachingMonthlyLimit, as fired by a route.
\* The caller passes the month of its decision.
Task(m, reason, k, used) ==
    [mail |-> m, try |-> mta[m].tries, reason |-> reason, month |-> k, used |-> used,
     step |-> "claim"]

\* Mutant: the warning reads the usage again instead of using the count passed on.
InBandReread(t) == count[t.month] >= Threshold /\ count[t.month] < Limit

\* Top band of the limit, by the count of the queue transaction.
InBand(t) == t.used >= Threshold /\ t.used < Limit

KeyOf(t) == <<t.reason, t.month>>

\* Mutant: the row is looked up and written in two statements.
WinsAnyway(k) == TRUE

\* claimQuotaNotification: the insert wins or conflicts.
Wins(k) == k \notin claims

Notify(t) ==
    /\ t \in tasks
    /\ \/ /\ t.step = "claim"
          /\ t.reason = "approaching" => InBand(t)
          /\ Wins(KeyOf(t))
          /\ claims' = claims \cup {KeyOf(t)}
          /\ tasks' = (tasks \ {t}) \cup {[t EXCEPT !.step = "send"]}
          /\ UNCHANGED <<sends, failed>>
       \/ /\ t.step = "claim"
          /\ (t.reason = "approaching" /\ ~InBand(t)) \/ ~Wins(KeyOf(t))
          /\ tasks' = tasks \ {t}
          /\ UNCHANGED <<claims, sends, failed>>
       \/ /\ t.step = "send"
          /\ \E k \in {KeyOf(t)} : sends' = [sends EXCEPT ![k] = @ + 1]
          /\ tasks' = tasks \ {t}
          /\ UNCHANGED <<claims, failed>>
    /\ UNCHANGED <<mta, worker, month, ledger, net, decided, kept>>

Warned(ts) == {t.month : t \in {u \in ts : u.reason = "approaching"}}

\* The database or Telegram fails: caught and logged, the claim stays taken.
NotifyFails(t) ==
    /\ t \in tasks
    /\ tasks' = tasks \ {t}
    /\ failed' = failed \cup Warned({t})
    /\ UNCHANGED <<mta, worker, month, ledger, net, decided, kept, claims, sends>>

-----------------------------------------------------------------------------
(* The worker and the preflight route. *)

\* email(): the sending server hands the mail over.
Deliver(m) ==
    /\ mta[m].state = "queued" /\ worker[m].pc = "idle"
    /\ mta[m].tries < MaxTries
    /\ MapThenSumSet(LAMBDA x : mta[x].tries, Mail) < MaxDeliveries
    /\ mta' = [mta EXCEPT ![m].tries = @ + 1]
    /\ Goto(m, "preflight")
    /\ UNCHANGED <<month, ledger, net, decided, kept, quota>>

\* The route captures one month for the whole decision.
PreflightBegins(m) ==
    /\ worker[m].pc = "preflight"
    /\ worker' = [worker EXCEPT ![m].pc = "decide", ![m].month = month]
    /\ UNCHANGED <<mta, month, ledger, net, decided, kept, quota>>

\* The order of the checks: alias and blocklist, quota, rules, hourly cap.
Verdict(door, k) ==
    CASE door = "closed"   -> "reject"
      [] count[k] >= Limit /\ door # "closed" -> "quota"
      [] door = "no_rules" /\ count[k] < Limit -> "reject"
      [] door = "busy"     /\ count[k] < Limit -> "busy"
      [] door = "gone"     /\ count[k] < Limit -> "gone"
      [] OTHER -> "accept"

Final(v) == v \in {"reject", "quota"}

PreflightAnswer(v) == CASE v = "accept" -> "accept" [] v = "busy" -> "429" [] OTHER -> "reject"

PreflightDecides(m, door) ==
    /\ worker[m].pc = "decide"
    /\ LET v == Verdict(door, worker[m].month) IN
       /\ decided' = IF Final(v) THEN decided \cup {m} ELSE decided
       /\ tasks' = IF v = "quota" THEN tasks \cup {Task(m, "monthly", worker[m].month, 0)} ELSE tasks
       /\ worker' = [worker EXCEPT ![m].pc = "answered", ![m].answer = PreflightAnswer(v)]
    /\ UNCHANGED <<mta, month, ledger, net, kept, claims, sends, failed>>

\* sign(): the raw upload is signed with the worker's clock.
SignUpload(m) ==
    /\ worker[m].pc = "answered" /\ worker[m].answer = "accept"
    /\ \E skew \in 0..MaxSkew :
         wire' = wire \cup {[mail |-> m, try |-> mta[m].tries, age |-> 0 - skew]}
    /\ worker' = [worker EXCEPT ![m].pc = "uploading", ![m].answer = "none"]
    /\ UNCHANGED <<mta, month, ledger, copies, handling, nonces, processed, decided, kept, quota>>

\* Mutant: every client error of the upload bounces the mail.
PermanentAnyClientError(a) == a \in {"reject", "401", "403", "429"}

\* {accept: false}, and isPermanentRawUploadFailure.
Permanent(a) == a \in {"reject", "403"}

\* What the sending server is told: done, a 5xx bounce, or a thrown error that
\* makes it try again.
WorkerEnds(m) ==
    /\ worker[m].pc = "answered" /\ worker[m].answer # "accept"
    /\ LET a == worker[m].answer IN
       mta' = [mta EXCEPT ![m].state = IF a = "202" THEN "done"
                                       ELSE IF Permanent(a) THEN "bounced" ELSE "queued"]
    /\ worker' = [worker EXCEPT ![m].pc = "idle", ![m].answer = "none"]
    /\ UNCHANGED <<month, ledger, net, decided, kept, quota>>

\* A fetch fails or its answer is lost: the worker throws.
FetchFails(m) ==
    /\ worker[m].pc \in {"preflight", "uploading", "answered"}
    /\ worker' = [worker EXCEPT ![m].pc = "idle", ![m].answer = "none"]
    /\ UNCHANGED <<mta, month, ledger, net, decided, kept, quota>>

-----------------------------------------------------------------------------
(* The raw route. *)

\* The answer reaches the invocation that sent the upload, if it still waits.
Respond(h, a) ==
    worker' = IF worker[h.mail].pc = "uploading" /\ mta[h.mail].tries = h.try
              THEN [worker EXCEPT ![h.mail].pc = "answered", ![h.mail].answer = a]
              ELSE worker

\* verifyWorkerRequest: the timestamp window is one-sided.
Fresh(u) == u.age <= MaxAge /\ u.age >= 0 - MaxSkew

Arrive(u) ==
    /\ u \in wire
    /\ \/ wire' = wire \ {u} /\ UNCHANGED copies
       \/ /\ <<u.mail, u.try>> \notin copies /\ Cardinality(copies) < MaxCopies
          /\ copies' = copies \cup {<<u.mail, u.try>>}
          /\ UNCHANGED wire
    /\ LET h == [mail |-> u.mail, try |-> u.try, copy |-> <<u.mail, u.try>> \in copies, age |-> 0,
                 pc |-> "nonce", month |-> 1] IN
       \/ /\ Fresh(u)
          /\ handling' = handling \cup {h}
          /\ UNCHANGED worker
       \/ /\ ~Fresh(u)
          /\ Respond(h, "401")
          /\ UNCHANGED handling
    /\ UNCHANGED <<mta, month, ledger, nonces, processed, decided, kept, quota>>

\* Mutant: nonces are kept for the age window only.
ExpiredSoon(n) == n.age > MaxAge

\* claimWorkerRequestNonce deletes what is older than ten minutes first.
Expired(n) == n.age > NonceTicks

ClaimNonce(h) ==
    /\ h \in handling /\ h.pc = "nonce"
    /\ LET live == {n \in nonces : ~Expired(n)}
           sig  == <<h.mail, h.try>>
       IN  \/ /\ \A n \in live : n.sig # sig
              /\ nonces' = live \cup {[sig |-> sig, age |-> 0]}
              /\ processed' = [processed EXCEPT ![sig] = @ + 1]
              /\ handling' = (handling \ {h}) \cup {[h EXCEPT !.pc = "decide", !.month = month]}
              /\ UNCHANGED worker
           \/ /\ \E n \in live : n.sig = sig
              /\ nonces' = live
              /\ handling' = handling \ {h}
              /\ Respond(h, "401")
              /\ UNCHANGED processed
    /\ UNCHANGED <<mta, month, ledger, wire, copies, decided, kept, quota>>

\* Pre-check and queue transaction in the same order, and the status of the
\* outcome: a mail over the hourly cap is kept for the recovery and answered 202,
\* a temporary authentication error is answered 503, and a mail whose alias is
\* gone at the second look is dropped and answered 202.
RawAnswer(v) ==
    CASE v \in {"accept", "busy", "gone"} -> "202"
      [] v = "temperror" -> "503"
      [] OTHER -> "403"

\* incrementUserUsageMonth, next to the delivery log that received month r.
Charge(m, k, r) ==
    /\ queued' = queued \cup {m}
    /\ charges' = charges \cup {<<m, r>>}
    /\ count' = [count EXCEPT ![k] = @ + 1]
    /\ full' = IF count[k] + 1 >= Limit THEN full \cup {k} ELSE full

RawDecides(h, door, temperror) ==
    /\ h \in handling /\ h.pc = "decide"
    /\ handling' = handling \ {h}
    /\ LET v0 == Verdict(door, h.month)
           v == IF v0 = "accept" /\ temperror THEN "temperror" ELSE v0
           charged == v = "accept" /\ h.mail \notin queued
       IN  /\ decided' = IF Final(v) THEN decided \cup {h.mail} ELSE decided
           /\ kept' = IF v = "busy" /\ h.mail \notin queued THEN kept \cup {h.mail} ELSE kept
           /\ IF charged THEN \E r \in h.month..month : Charge(h.mail, h.month, r)
              ELSE UNCHANGED ledger
           /\ tasks' = IF charged
                       THEN tasks \cup {Task(h.mail, "approaching", h.month, count[h.month] + 1)}
                       ELSE IF v = "quota" THEN tasks \cup {Task(h.mail, "monthly", h.month, 0)}
                       ELSE tasks
           /\ Respond(h, RawAnswer(v))
    /\ UNCHANGED <<mta, month, wire, copies, nonces, processed, claims, sends, failed>>

\* The retry worker queues a kept mail, or drops it: it charges and warns like
\* the route, in the month of its own transaction.
Recover(m) ==
    /\ m \in kept
    /\ kept' = kept \ {m}
    /\ \/ /\ m \notin queued /\ count[month] < Limit
          /\ Charge(m, month, month)
          /\ tasks' = tasks \cup {Task(m, "approaching", month, count[month] + 1)}
       \/ UNCHANGED <<ledger, tasks>>
    /\ UNCHANGED <<mta, worker, month, net, decided, claims, sends, failed>>

\* refundAcceptedEmail: a delivery failed for good, and the month in which its
\* mail was received gets the charge back, never below zero.
Refund(c) ==
    /\ c \in charges
    /\ charges' = charges \ {c}
    /\ count' = [count EXCEPT ![c[2]] = IF @ = 0 THEN 0 ELSE @ - 1]
    /\ UNCHANGED <<mta, worker, month, full, queued, net, decided, kept, quota>>

\* The process restarts: requests and notices in memory are gone.
Restart ==
    /\ handling # {} \/ tasks # {}
    /\ handling' = {} /\ tasks' = {}
    /\ failed' = failed \cup Warned(tasks)
    /\ UNCHANGED <<mta, worker, month, ledger, wire, copies, nonces, processed,
                   decided, kept, claims, sends>>

-----------------------------------------------------------------------------
(* Time. *)

Older(x, bound) == [x EXCEPT !.age = IF @ > bound THEN @ ELSE @ + 1]

Tick ==
    /\ \A h \in handling : h.pc = "nonce" => h.age < HandlerTicks
    /\ wire' = {Older(u, MaxAge) : u \in wire}
    /\ handling' = {IF h.pc = "nonce" THEN Older(h, HandlerTicks) ELSE h : h \in handling}
    /\ nonces' = {Older(n, NonceTicks) : n \in nonces}
    /\ UNCHANGED <<mta, worker, month, ledger, copies, processed, decided, kept, quota>>

NewMonth ==
    /\ month < MaxMonth
    /\ month' = month + 1
    /\ UNCHANGED <<mta, worker, ledger, net, decided, kept, quota>>

Next ==
    \/ \E m \in Mail : \/ Deliver(m) \/ PreflightBegins(m) \/ SignUpload(m)
                       \/ WorkerEnds(m) \/ FetchFails(m) \/ Recover(m)
                       \/ \E d \in Door : PreflightDecides(m, d)
    \/ \E u \in wire : Arrive(u)
    \/ \E h \in handling : ClaimNonce(h) \/ (\E d \in RawDoor, b \in BOOLEAN : RawDecides(h, d, b))
    \/ \E c \in charges : Refund(c)
    \/ \E t \in tasks : Notify(t) \/ NotifyFails(t)
    \/ Restart \/ Tick \/ NewMonth

Spec == Init /\ [][Next]_vars

-----------------------------------------------------------------------------
(* Properties. *)

TypeOK ==
    /\ mta \in [Mail -> [state : {"queued", "bounced", "done"}, tries : 0..MaxTries]]
    /\ worker \in [Mail -> Invocation]
    /\ month \in Month /\ count \in [Month -> 0..Limit]
    /\ full \subseteq Month /\ charges \subseteq Mail \X Month
    /\ queued \subseteq Mail /\ decided \subseteq Mail /\ kept \subseteq Mail
    /\ wire \subseteq Signed /\ copies \subseteq Upload /\ handling \subseteq Request
    /\ nonces \subseteq Nonce /\ processed \in [Upload -> Nat]
    /\ tasks \subseteq Fired /\ claims \subseteq Key
    /\ sends \in [Key -> Nat] /\ failed \subseteq Month

\* No signed upload passes the nonce check twice, although nonces are deleted
\* after ten minutes and the network may hold a copy back (raw.ts,
\* workerRequestNonces.ts claimWorkerRequestNonce).
UploadPassesOnce == \A u \in Upload : processed[u] <= 1

\* A mail bounces only after a route decided against it for good.  A lost
\* answer, a stale or replayed signature, the hourly cap and a temporary
\* authentication error only ever make the sending server try again (worker.ts).
BounceIsDecided ==
    \A m \in Mail : mta[m].state = "bounced" => m \in decided

\* A quota notice is sent at most once per reason and month, and the month it
\* claims is one whose limit really was exhausted, also when the request that
\* was rejected straddles the month's end; a refund may have lowered the count
\* again before the claim (quotaNotifier.ts, preflight.ts, usageRefund.ts).
QuotaNoticeFits ==
    /\ \A k \in Key : sends[k] <= 1
    /\ \A k \in Month : <<"monthly", k>> \in claims => k \in full

\* Once usage has passed the warning band and no notice is under way, the
\* month's warning was claimed or one of its notices failed, however fast the
\* burst went on to the limit (quotaNotifier.ts notifyApproachingMonthlyLimit).
WarnedBeforeLimit ==
    \A k \in Month :
       /\ count[k] >= Threshold /\ Threshold < Limit
       /\ \A t \in tasks : t.month # k
       => <<"approaching", k>> \in claims \/ k \in failed
=============================================================================
