------------------------------ MODULE Notices ------------------------------
(***************************************************************************)
(* The bounce notice of an alias that has not delivered yet, and its       *)
(* one-tap "allow this domain" button.                                     *)
(*                                                                         *)
(* A bounced mail admits a job to the in-memory queue of                   *)
(* src/src/activation/noticeQueue.ts.  The job runs the phases of          *)
(* src/src/activation/notice.ts: gate and claim, authenticate the From     *)
(* domain, store it, revalidate, send.  The row alias_activation           *)
(* (src/src/db/repos/aliasActivation.ts) carries the claim budget, the     *)
(* token of the latest claim and the domain its button may add.  A tap     *)
(* (src/src/activation/allowButton.ts) spends the token and adds a rule.   *)
(* Deliveries, cleanup, moves, pauses and the shutdown run beside the jobs.*)
(*                                                                         *)
(* One alias is modelled: the row, the token and the rules belong to one   *)
(* alias, and the queue's counters count jobs whatever their alias.  A job *)
(* is one bounced mail, and names the token that its claim generates.      *)
(***************************************************************************)
EXTENDS Naturals, SequencesExt

CONSTANTS
    Job,           \* bounced mails that may admit a notice
    Domain,        \* header From domains
    None,          \* SQL null
    MaxAdmitted,   \* maxAdmittedJobs
    MaxHeldMime,   \* maxHeldMimeBytes, in messages
    AuthSlots,     \* maxConcurrentAuthentications
    ClaimBudget,   \* ACTIVATION_CLAIM_BUDGET
    RuleLimit,     \* plan.limits.allowRules
    MaxVersion     \* bound on routing_version

ASSUME NoticesAssumption ==
    /\ {MaxAdmitted, MaxHeldMime, AuthSlots, ClaimBudget, RuleLimit, MaxVersion} \subseteq Nat
    /\ AuthSlots > 0
    /\ None \notin Domain \cup Job

VARIABLES
    alias,     \* email_addresses row: status and routing version
    act,       \* alias_activation row
    rules,     \* allow rules of the alias
    accepted,  \* a mail of an allowed sender is queued for delivery
    logged,    \* a succeeded delivery attempt survives
    marking,   \* a delivery succeeded and its marker write is still to come
    worked,    \* history: the alias delivered once
    job,       \* jobs of the queue
    queue,     \* admittedJobs, heldMime, Slots (active, waiters), closed
    authing,   \* jobs whose authentication work runs and holds a slot
    notices,   \* notices on their way to the owner's chat, or arrived
    added,     \* history: rules added by a tap
    pass       \* the cleanup run: idle, or past its marker reconciliation

proof == <<accepted, logged, marking, worked, pass>>

world == <<alias, rules, proof>>

vars == <<world, act, job, queue, authing, notices, added>>

Status == {"active", "inactive", "deleted"}

\* alias_activation.  recent: inside the rolling window since last_claim_at;
\* live: expires_at is still ahead.
Row == [marked : BOOLEAN, claims : 0..ClaimBudget, recent : BOOLEAN,
        token : Job \cup {None}, live : BOOLEAN, domain : Domain \cup {None},
        version : 0..MaxVersion]

\* A job.  passes: its authentication passed for its From domain; version: the
\* gate's snapshot of the alias.
JobState == [pc : {"none", "refused", "admitted", "claim", "claiming", "auth", "waiting",
                   "authing", "domain", "revalidate", "reading", "send", "settling", "settled"},
             from : Domain \cup {None}, passes : BOOLEAN, mime : BOOLEAN,
             version : 0..MaxVersion]

Init ==
    /\ alias = [status |-> "active", version |-> 0, young |-> TRUE]
    /\ act = [marked |-> FALSE, claims |-> 0, recent |-> FALSE, token |-> None,
              live |-> FALSE, domain |-> None, version |-> 0]
    /\ rules = {}
    /\ accepted = FALSE /\ logged = FALSE /\ marking = FALSE /\ worked = FALSE
    /\ job = [j \in Job |-> [pc |-> "none", from |-> None, passes |-> FALSE,
                             mime |-> FALSE, version |-> 0]]
    /\ queue = [admitted |-> 0, held |-> 0, active |-> 0, waiters |-> <<>>, closed |-> FALSE]
    /\ authing = {} /\ notices = {} /\ added = {}
    /\ pass = "idle"

-----------------------------------------------------------------------------
(* What the phases read and decide. *)

Goto(j, p) == job' = [job EXCEPT ![j].pc = p]

\* beginPhase() lets the job on unless shutdown began.  It also stops a job past
\* its deadline, and a phase transaction may fail: a job may therefore end at
\* every phase, which the second disjunct of each phase says.
MayBegin == ~queue.closed

\* The working check of both reads: the durable marker or a surviving attempt.
Working == act.marked \/ logged

PassesGate == alias.status = "active" /\ ~Working /\ alias.young

\* The conflict clause of claimActivationNotice.
Claimable == ~act.marked /\ act.claims < ClaimBudget /\ ~act.recent

\* Mutant: a new claim keeps the domain that the previous claim's mail earned.
ClaimedKeepsDomain(j) ==
    [act EXCEPT !.claims = @ + 1, !.recent = TRUE, !.token = j, !.live = TRUE,
                !.version = job[j].version]

Claimed(j) ==
    [act EXCEPT !.claims = @ + 1, !.recent = TRUE, !.token = j, !.live = TRUE,
                !.domain = None, !.version = job[j].version]

\* isStillEligible: nothing about the alias or the claim changed since the claim.
StillEligible(j) ==
    /\ alias.status = "active"
    /\ alias.version = job[j].version
    /\ act.token = j /\ act.live
    /\ ~Working

\* The domain of the button: current.domain, when it is the mail's own domain.
OneTap(j) ==
    IF act.live /\ job[j].from # None /\ act.domain = job[j].from THEN act.domain ELSE None

-----------------------------------------------------------------------------
(* The queue: ActivationNoticeQueue and its semaphore. *)

\* Slots.release: the permit goes to the first waiter, which takes it at once.
Release(q) ==
    IF q.waiters = <<>> THEN [q EXCEPT !.active = @ - 1]
    ELSE [q EXCEPT !.waiters = Tail(@)]

\* admit(): a raw bounce names a usable From domain or not, a preflight bounce
\* never does; MIME is held only for a domain and only while it fits.
Admit(j, d) ==
    /\ job[j].pc = "none"
    /\ alias.status = "active"
    /\ d = None \/ d \notin rules
    /\ IF queue.closed \/ queue.admitted >= MaxAdmitted
       THEN Goto(j, "refused") /\ UNCHANGED queue
       ELSE LET mime == d # None /\ queue.held < MaxHeldMime
            IN  /\ job' = [job EXCEPT ![j] = [@ EXCEPT !.pc = "admitted", !.from = d,
                                                       !.mime = mime]]
                /\ queue' = [queue EXCEPT !.admitted = @ + 1,
                                          !.held = IF mime THEN @ + 1 ELSE @]
    /\ UNCHANGED <<world, act, authing, notices, added>>

\* run(): a job that is closed out or too old at its start is dropped.
Start(j) ==
    /\ job[j].pc = "admitted"
    /\ \/ ~queue.closed /\ Goto(j, "claim")
       \/ Goto(j, "settling")
    /\ UNCHANGED <<world, act, queue, authing, notices, added>>

\* Mutant: the job counts as settled while its authentication still runs.
SettleAtOnce(j) ==
    /\ job[j].pc = "settling"
    /\ Goto(j, "settled")
    /\ queue' = [queue EXCEPT !.admitted = @ - 1, !.held = IF job[j].mime THEN @ - 1 ELSE @]
    /\ UNCHANGED <<world, act, authing, notices, added>>

\* The finally blocks of run() and admit(): an abandoned authentication is
\* awaited before the job gives back its place and its MIME.
Settle(j) ==
    /\ job[j].pc = "settling" /\ j \notin authing
    /\ Goto(j, "settled")
    /\ queue' = [queue EXCEPT !.admitted = @ - 1, !.held = IF job[j].mime THEN @ - 1 ELSE @]
    /\ UNCHANGED <<world, act, authing, notices, added>>

\* shutdown(): closes admission and aborts; the jobs notice at their next phase.
Shutdown ==
    /\ ~queue.closed
    /\ queue' = [queue EXCEPT !.closed = TRUE]
    /\ UNCHANGED <<world, act, job, authing, notices, added>>

-----------------------------------------------------------------------------
(* The phases of runNotice. *)

\* Gate: one statement; beginPhase is called before it and again, in the same
\* turn as the claim is issued, after it.
ReadGate(j) ==
    /\ job[j].pc = "claim"
    /\ \/ /\ MayBegin /\ PassesGate
          /\ job' = [job EXCEPT ![j].pc = "claiming", ![j].version = alias.version]
       \/ Goto(j, "settling")              \* stopped, gated or failed
    /\ UNCHANGED <<world, act, queue, authing, notices, added>>

\* The upsert.  Whatever happened since the gate, only its own clause decides.
Claim(j) ==
    /\ job[j].pc = "claiming"
    /\ \/ /\ Claimable
          /\ act' = Claimed(j)
          /\ Goto(j, IF job[j].mime THEN "auth" ELSE "revalidate")
       \/ Goto(j, "settling") /\ UNCHANGED act    \* not_claimed or failed
    /\ UNCHANGED <<world, queue, authing, notices, added>>

\* ctx.authenticate: a free slot starts the work at once, otherwise the job waits.
BeginAuth(j) ==
    /\ job[j].pc = "auth"
    /\ \/ Goto(j, "settling") /\ UNCHANGED <<queue, authing>>
       \/ /\ MayBegin /\ queue.active < AuthSlots
          /\ queue' = [queue EXCEPT !.active = @ + 1]
          /\ authing' = authing \cup {j}
          /\ Goto(j, "authing")
       \/ /\ MayBegin /\ queue.active >= AuthSlots
          /\ queue' = [queue EXCEPT !.waiters = Append(@, j)]
          /\ Goto(j, "waiting")
          /\ UNCHANGED authing
    /\ UNCHANGED <<world, act, notices, added>>

\* The budget timer or the shutdown aborts a wait: the waiter leaves the line,
\* a running authentication keeps its slot, and the job goes on without it.
StopWaiting(j) ==
    /\ job[j].pc \in {"waiting", "authing"}
    /\ \/ \E i \in DOMAIN queue.waiters :
            queue.waiters[i] = j /\ queue' = [queue EXCEPT !.waiters = RemoveAt(@, i)]
       \/ (\A i \in DOMAIN queue.waiters : queue.waiters[i] # j) /\ UNCHANGED queue
    /\ Goto(j, "revalidate")
    /\ UNCHANGED <<world, act, authing, notices, added>>

\* The authentication settles and releases its slot; a job that still waits for
\* it goes on to store the domain when the domain passed.
AuthSettles(j, ok) ==
    /\ j \in authing
    /\ LET next == IF queue.waiters = <<>> THEN {} ELSE {Head(queue.waiters)} IN
       /\ queue' = Release(queue)
       /\ authing' = (authing \ {j}) \cup next
       /\ job' = [k \in Job |->
                    CASE k = j /\ job[j].pc = "authing" ->
                           [job[j] EXCEPT !.passes = ok, !.pc = IF ok THEN "domain" ELSE "revalidate"]
                      [] k \in next -> [job[k] EXCEPT !.pc = "authing"]
                      [] OTHER -> job[k]]
    /\ UNCHANGED <<world, act, notices, added>>

\* The where clause of setActivationDomain.
Stored(j) == act.token = j /\ act.live

StoreDomain(j) ==
    /\ job[j].pc = "domain"
    /\ \/ Goto(j, "settling") /\ UNCHANGED act
       \/ /\ MayBegin
          /\ act' = IF Stored(j) THEN [act EXCEPT !.domain = job[j].from] ELSE act
          /\ Goto(j, "revalidate")
       \/ MayBegin /\ Goto(j, "revalidate") /\ UNCHANGED act    \* domain_store_failed
    /\ UNCHANGED <<world, queue, authing, notices, added>>

\* The SELECT inside a bounded transaction: what it returns decides, and decides
\* the button.  The notice waits, with arrived = FALSE, for the COMMIT.
Revalidate(j) ==
    /\ job[j].pc = "revalidate"
    /\ \/ /\ MayBegin /\ StillEligible(j)
          /\ Goto(j, "reading")
          /\ notices' = notices \cup {[token |-> j, domain |-> OneTap(j), arrived |-> FALSE]}
       \/ Goto(j, "settling") /\ UNCHANGED notices    \* stopped, stale or failed
    /\ UNCHANGED <<world, act, queue, authing, added>>

\* The COMMIT has come back, or failed; the row is not read again.  beginPhase,
\* and in the same turn the start of the send.
BeginSend(j) ==
    /\ job[j].pc = "reading"
    /\ \/ MayBegin /\ Goto(j, "send") /\ UNCHANGED notices
       \/ /\ Goto(j, "settling")                      \* stopped or failed
          /\ notices' = {n \in notices : n.token # j}
    /\ UNCHANGED <<world, act, queue, authing, added>>

\* The send reaches the chat or not; a timeout or an abort may follow either.
Send(j) ==
    /\ job[j].pc = "send"
    /\ \E n \in notices, arrives \in BOOLEAN :
         /\ n.token = j
         /\ notices' = (notices \ {n}) \cup (IF arrives THEN {[n EXCEPT !.arrived = TRUE]} ELSE {})
    /\ Goto(j, "settling")
    /\ UNCHANGED <<world, act, queue, authing, added>>

-----------------------------------------------------------------------------
(* The button.  applyActivationAllow holds the owner's lock, the alias row and
   the activation row until it commits, so the tap is one step. *)

\* consumeActivationToken returns a row.
Consumes(t) == act.token = t /\ act.live

SameAlias ==
    alias.status = "active" /\ alias.version = act.version /\ act.domain # None

\* insertAllowRule: duplicate check, then the plan limit.
Inserts(d) == d \notin rules /\ Cardinality(rules) < RuleLimit

TapAllow(t) ==
    /\ \E n \in notices : n.token = t /\ n.arrived /\ n.domain # None
    /\ Consumes(t)
    /\ act' = [act EXCEPT !.token = None]
    /\ \/ /\ SameAlias /\ Inserts(act.domain)
          /\ rules' = rules \cup {act.domain}
          /\ added' = added \cup {[token |-> t, domain |-> act.domain, version |-> alias.version,
                                   status |-> alias.status]}
       \/ UNCHANGED <<rules, added>>     \* expired, duplicate, limit, or a failed savepoint
    /\ UNCHANGED <<alias, proof, job, queue, authing, notices>>

-----------------------------------------------------------------------------
(* The rules.  Every handler asks Telegram afresh whether the user manages the
   alias, which a deleted alias fails; the insert holds the owner's lock. *)

jobs == <<job, queue, authing, notices, added>>

Manageable == alias.status # "deleted"

\* addAllowRuleForAlias.
AddRule(d) == rules' = IF Inserts(d) THEN rules \cup {d} ELSE rules
RemoveRule(d) == rules' = rules \ {d}

\* /allow add and /allow remove.
AllowCommand(d) ==
    /\ Manageable
    /\ AddRule(d) \/ RemoveRule(d)
    /\ UNCHANGED <<alias, act, proof, jobs>>

\* The quick-allow buttons, and the delete button of the rules menu.
QuickAllow(d) ==
    /\ Manageable /\ AddRule(d)
    /\ UNCHANGED <<alias, act, proof, jobs>>

DeleteRule(d) ==
    /\ Manageable /\ d \in rules /\ RemoveRule(d)
    /\ UNCHANGED <<alias, act, proof, jobs>>

\* The answer to a prompt for a rule.  The session that remembers the prompt is
\* not kept here: the answer may come any time later, and is checked afresh.
RuleReply(d) ==
    /\ Manageable /\ AddRule(d)
    /\ UNCHANGED <<alias, act, proof, jobs>>

-----------------------------------------------------------------------------
(* Deliveries and cleanup: where the evidence that an alias works comes from. *)

\* A mail that a rule let through and whose delivery was prepared while the alias
\* was active; what happens to the rule or the alias from then on does not stop it.
AcceptMail ==
    /\ alias.status = "active" /\ rules # {} /\ ~accepted /\ ~logged
    /\ accepted' = TRUE
    /\ UNCHANGED <<alias, act, rules, logged, marking, worked, pass, jobs>>

DeliverySucceeds ==
    /\ accepted /\ ~marking
    /\ accepted' = FALSE
    /\ logged' = TRUE /\ worked' = TRUE /\ marking' = TRUE
    /\ UNCHANGED <<alias, act, rules, pass, jobs>>

\* markAliasFirstDelivered, in a bounded transaction of its own that may fail.
MarkFirstDelivered ==
    /\ marking
    /\ marking' = FALSE
    /\ \E ok \in BOOLEAN : act' = [act EXCEPT !.marked = @ \/ ok]
    /\ UNCHANGED <<alias, rules, accepted, logged, worked, pass, jobs>>

\* reconcileFirstDeliveredMarkers: a surviving succeeded attempt sets the marker.
Reconciled == [act EXCEPT !.marked = @ \/ logged]

\* Mutant: the logs are purged although the markers could not be reconciled.
ReconcileFailsOpen ==
    /\ pass = "idle" /\ logged
    /\ pass' = "purge"
    /\ act' \in {Reconciled, act}
    /\ UNCHANGED <<alias, rules, accepted, logged, marking, worked, jobs>>

\* reconcileActivationMarkers: a failure keeps the logs for this run.
Reconcile ==
    /\ pass = "idle" /\ logged
    /\ pass' = "purge"
    /\ act' = Reconciled
    /\ UNCHANGED <<alias, rules, accepted, logged, marking, worked, jobs>>

\* cleanDeliveryLogs purges the old log and its attempts.  A log that is old
\* enough was written long before this run's reconciliation.
PurgeLogs ==
    /\ pass = "purge"
    /\ pass' = "idle"
    /\ \/ ~marking /\ logged' = FALSE
       \/ UNCHANGED logged
    /\ UNCHANGED <<alias, act, rules, accepted, marking, worked, jobs>>

\* clearExpiredActivationTokens.
ClearExpired ==
    /\ ~act.live /\ (act.token # None \/ act.domain # None)
    /\ act' = [act EXCEPT !.token = None, !.domain = None]
    /\ UNCHANGED <<world, jobs>>

-----------------------------------------------------------------------------
(* The alias and the clock. *)

\* A move, a topic change or a chat repair: each bumps routing_version.
Reroute ==
    /\ alias.version < MaxVersion
    /\ alias' = [alias EXCEPT !.version = @ + 1]
    /\ UNCHANGED <<act, rules, proof, jobs>>

SetStatus(s) ==
    /\ alias.status # "deleted" /\ alias.status # s
    /\ alias' = [alias EXCEPT !.status = s]
    /\ UNCHANGED <<act, rules, proof, jobs>>

\* Neither a recently created alias nor an owner who never accepted mail.
Matures ==
    /\ alias.young
    /\ alias' = [alias EXCEPT !.young = FALSE]
    /\ UNCHANGED <<act, rules, proof, jobs>>

\* 24 hours outlast every phase of a job that took the claim (deadline 20 s, send 10 s).
WindowPasses ==
    /\ act.recent
    /\ \A j \in Job : job[j].pc \notin {"auth", "waiting", "authing", "domain", "revalidate",
                                    "reading", "send"}
    /\ act' = [act EXCEPT !.recent = FALSE]
    /\ UNCHANGED <<world, jobs>>

\* ACTIVATION_TOKEN_TTL_DAYS is longer than the window.
TokenExpires ==
    /\ act.live /\ ~act.recent
    /\ act' = [act EXCEPT !.live = FALSE]
    /\ UNCHANGED <<world, jobs>>

JobStep(j) ==
    \/ Start(j) \/ ReadGate(j) \/ Claim(j) \/ BeginAuth(j) \/ StopWaiting(j)
    \/ StoreDomain(j) \/ Revalidate(j) \/ BeginSend(j) \/ Send(j) \/ Settle(j)

Next ==
    \/ \E j \in Job :
         \/ JobStep(j) \/ TapAllow(j)
         \/ \E ok \in BOOLEAN : AuthSettles(j, ok)
         \/ \E d \in Domain \cup {None} : Admit(j, d)
    \/ Shutdown
    \/ \E d \in Domain : AllowCommand(d) \/ QuickAllow(d) \/ DeleteRule(d) \/ RuleReply(d)
    \/ AcceptMail \/ DeliverySucceeds \/ MarkFirstDelivered
    \/ Reconcile \/ PurgeLogs \/ ClearExpired
    \/ Reroute \/ (\E s \in Status : SetStatus(s)) \/ Matures
    \/ WindowPasses \/ TokenExpires

Spec == Init /\ [][Next]_vars

-----------------------------------------------------------------------------
(* Properties. *)

TypeOK ==
    /\ alias \in [status : Status, version : 0..MaxVersion, young : BOOLEAN]
    /\ act \in Row
    /\ rules \subseteq Domain
    /\ accepted \in BOOLEAN /\ logged \in BOOLEAN /\ marking \in BOOLEAN /\ worked \in BOOLEAN
    /\ job \in [Job -> JobState]
    /\ queue \in [admitted : 0..MaxAdmitted, held : 0..MaxHeldMime, active : 0..AuthSlots,
                  waiters : Seq(Job), closed : BOOLEAN]
    /\ authing \subseteq Job
    /\ notices \subseteq [token : Job, domain : Domain \cup {None}, arrived : BOOLEAN]
    /\ added \subseteq [token : Job, domain : Domain, version : 0..MaxVersion, status : Status]
    /\ pass \in {"idle", "purge"}

Held == {j \in Job : job[j].pc \notin {"none", "refused", "settled"}}

\* The queue's counters are exact whatever timed out, was abandoned or was
\* stopped (noticeQueue.ts admit, run, Slots): a place and its MIME belong to a
\* job that has not settled, a slot to an authentication that really runs for a
\* job that still holds its MIME, and nobody waits while a slot is free.
NothingLeaked ==
    /\ queue.admitted = Cardinality(Held)
    /\ queue.held = Cardinality({j \in Held : job[j].mime})
    /\ queue.active = Cardinality(authing)
    /\ authing \subseteq Held
    /\ {j \in Job : job[j].pc = "waiting"} = {queue.waiters[i] : i \in DOMAIN queue.waiters}
    /\ queue.waiters # <<>> => queue.active = AuthSlots

\* A rule added by a tap is for the From domain that the button showed and that
\* authenticated the very mail of that claim, and it was added while the alias
\* was active and routed as at that claim; a token adds at most one rule
\* (allowButton.ts applyActivationAllow, notice.ts oneTapDomainFor).
TapAddsEarnedDomain ==
    /\ \A n \in notices : n.domain # None => job[n.token].passes /\ job[n.token].from = n.domain
    /\ \A r \in added :
         /\ \E n \in notices : n.token = r.token /\ n.domain = r.domain
         /\ r.status = "active" /\ r.version = job[r.token].version
    /\ \A r, s \in added : r.token = s.token => r = s

\* The last check before a notice never passes for an alias that has delivered:
\* at the read that isStillEligible decides on, no delivery has ever succeeded,
\* although the marker write may have failed and the attempts that prove the
\* delivery may have been purged (notice.ts isStillEligible, cleanup.ts
\* runCleanup).  A delivery that succeeds between that read and the send, while
\* the COMMIT of the read is on its way, is not seen: the notice still goes out.
WorkingAliasIsQuiet ==
    [][\A j \in Job : job[j].pc = "revalidate" /\ job'[j].pc = "reading" => ~worked]_vars
=============================================================================
