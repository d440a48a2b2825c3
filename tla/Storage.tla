------------------------------ MODULE Storage ------------------------------
(***************************************************************************)
(* One stored mail of one hosted owner: its raw file, its attachment files *)
(* and rows, the links that open them, the bytes charged for them.         *)
(* Operations that meet on it: the preparation of its delivery             *)
(* (email/pipeline/deliver.ts), a resend (email/retry.ts), downloads and   *)
(* privacy views (http/routes/download.ts, view/index.ts), the retention   *)
(* cleanup (storage/cleanup.ts), the owner's erasure                       *)
(* (dataLifecycle/deleteUser.ts) and the encryption backfill of the CLI    *)
(* (security/storageMaintenance.ts, storage/disk.ts).                      *)
(*                                                                         *)
(* An operation occupies a slot and advances one file or one transaction   *)
(* at a time; the process may stop between any two.  A file's content is   *)
(* the sequence of data keys it was encrypted with, <<>> being plaintext;  *)
(* the key an operation draws for a path is named by the operation's slot. *)
(* Storage encryption is switched on; the mail predates it.                *)
(***************************************************************************)
EXTENDS Integers, Sequences, FiniteSets

CONSTANTS
    Att,          \* attachments of the mail
    Raw,          \* stands for the raw mail among the paths
    Size,         \* bytes of an attachment
    ViewSize,     \* bytes of the rendered privacy page
    Elsewhere,    \* bytes the owner's other mails take, raw and attachments each
    EgressLimit,  \* plan.limits.egressBytesMonth
    MaxOps,       \* bound: operations started
    MaxCrashes    \* bound: the process or the CLI job stops

ASSUME StorageAssumption ==
    /\ Size \in Nat /\ ViewSize \in Nat /\ Elsewhere \in Nat /\ EgressLimit \in Nat
    /\ MaxOps \in Nat /\ MaxCrashes \in Nat
    /\ Raw \notin Att /\ IsFiniteSet(Att)

VARIABLES
    time,     \* 0: fresh, 1: links have expired, 2: past retention
    user,     \* the owner's row exists
    privacy,  \* the alias is in privacy mode
    log,      \* the delivery log: [here, raw: its path is set, dek, final, stage]
    rows,     \* attachment rows, with the key id in each
    disk,     \* per path: [file, body, note], note being its .backfill.json
    pending,  \* the .pending.json of the raw mail: [here, dek]
    usage,    \* user_storage_usage
    egress,   \* user_usage_months.egress_bytes
    links,    \* attachment_links: <<attachment, slot that issued it>>
    used,     \* those with downloaded_at
    view,     \* delivery_view_links of the log: [here, viewed]
    issued,   \* history: view links sent out
    served,   \* history: bytes that left through links, an open stream counted in full
    ops,      \* operations, by slot
    crashes,
    overlap,  \* history: two cleanup runs were under way at once
    lost      \* history: paths a crash, a rollback or a failed unlink left behind

vars == <<time, user, privacy, log, rows, disk, pending, usage, egress, links,
          used, view, issued, served, ops, crashes, overlap, lost>>

clock  == <<time, privacy, crashes, overlap>>
owner  == <<user, usage, egress, served>>
store  == <<log, rows, disk, pending>>
shares == <<links, used, view, issued>>

Path == Att \cup {Raw}
Slot == 1..MaxOps
None == 0

Kind == {"idle", "prep", "resend", "download", "view", "cleanup", "erase", "backfill"}

\* The backfill's passes.
Phase == {"att", "raw", "pending"}

Pc == {"end", "begin", "store", "insert", "claim", "open", "stream", "att", "attTx", "raw",
       "rawTx", "logs", "links", "rows", "files", "read", "replace", "row", "clear"}

\* An operation: the paths before and behind it, the path at hand, the slot or
\* count n, the bytes it got, the key it looked up, the backfill's pass.
Operation == [kind : Kind, pc : Pc, phase : Phase, todo : SUBSET Path, done : SUBSET Path,
              p : Path, n : Nat, got : Nat, dek : Nat, ok : BOOLEAN]

Idle == [kind |-> "idle", pc |-> "end", phase |-> "att", todo |-> {}, done |-> {}, p |-> Raw,
         n |-> 0, got |-> 0, dek |-> None, ok |-> TRUE]

Op(kind, pc, todo) == [Idle EXCEPT !.kind = kind, !.pc = pc, !.todo = todo]

Live(k)   == {i \in Slot : ops[i].kind = k /\ ops[i].pc # "end"}
Step(i, o) == ops' = [ops EXCEPT ![i] = o]
At(i, k, pc) == ops[i].kind = k /\ ops[i].pc = pc

\* Slots are filled in order.
Start(i, o) ==
    /\ ops[i].kind = "idle" /\ \A j \in 1..(i - 1) : ops[j].kind # "idle"
    /\ Step(i, o)

\* What a finished operation leaves for the history: its link and what it sent.
Finish(i, got) ==
    Step(i, [Idle EXCEPT !.kind = ops[i].kind, !.p = ops[i].p, !.n = ops[i].n, !.got = got])

\* A row's attachments: present with key d (None: encryption mode "none").
HasRow(a)  == rows[a].here
Existing   == {a \in Att : HasRow(a)}
Bytes(S)   == Size * Cardinality(S)
Sub(x, y)  == IF x > y THEN x - y ELSE 0

Init ==
    /\ time = 0 /\ user = TRUE /\ privacy \in BOOLEAN
    /\ \E stored \in BOOLEAN :
         /\ log = [here |-> TRUE, raw |-> TRUE, dek |-> None, final |-> FALSE,
                   stage |-> IF stored THEN "prepared" ELSE "queued"]
         /\ rows = [a \in Att |-> [here |-> stored, dek |-> None]]
         /\ disk = [p \in Path |-> [file |-> stored \/ p = Raw, body |-> <<>>, note |-> None]]
         /\ links = IF stored /\ ~privacy THEN Att \X {0} ELSE {}
         /\ view = [here |-> stored /\ privacy, viewed |-> FALSE]
         /\ issued = IF stored /\ privacy THEN 1 ELSE 0
    /\ \E kept \in BOOLEAN : pending = [here |-> kept, dek |-> None]
    /\ usage = [raw |-> Elsewhere + 1, att |-> Elsewhere + Bytes(Att)]
    /\ egress = 0 /\ served = 0 /\ used = {}
    /\ ops = [i \in Slot |-> Idle]
    /\ crashes = 0 /\ overlap = FALSE /\ lost = {}

\* Transactions of several steps: a preparation, which holds the log's row it has
\* marked as processing as well as the owner's lock, and an erasure.
Preparing == {i \in Live("prep") : ops[i].pc # "begin"}
Erasing   == {i \in Live("erase") : ops[i].pc = "rows"}
RowIsFree == Preparing = {}

-----------------------------------------------------------------------------
(* The preparation of the delivery: deliverQueuedEmail, first transaction. *)

BeginPrep(i) ==
    /\ log.here /\ log.stage = "queued"
    /\ Start(i, Op("prep", "begin", Att))
    /\ log' = [log EXCEPT !.stage = "prepared"]
    /\ UNCHANGED <<clock, owner, shares, rows, disk, pending, lost>>

\* Mutant: nobody asks for the owner's lock.
LockIsFreeUnasked == TRUE

\* pg_advisory_xact_lock(owner).
LockIsFree == Preparing \cup Erasing = {}

\* The lock, then the alias is read again: it is gone with its owner, or no
\* longer active.
LockPrep(i) ==
    /\ At(i, "prep", "begin")
    /\ LockIsFree
    /\ \/ user /\ Step(i, [ops[i] EXCEPT !.pc = "store"])
       \/ Finish(i, 0)
    /\ UNCHANGED <<clock, owner, store, shares, lost>>

\* writeAttachment, or its failure: the file is removed again and the bytes
\* reserved for it are released, unless the transaction is already aborted.
WriteAttachment(i) ==
    /\ At(i, "prep", "store")
    /\ \E a \in ops[i].todo :
         \/ /\ disk' = [disk EXCEPT ![a] = [@ EXCEPT !.file = TRUE, !.body = <<i>>]]
            /\ Step(i, [ops[i] EXCEPT !.pc = "insert", !.p = a, !.todo = @ \ {a}])
         \/ /\ Step(i, [ops[i] EXCEPT !.todo = @ \ {a}, !.n = IF ops[i].ok THEN @ + 1 ELSE @])
            /\ UNCHANGED disk
    /\ UNCHANGED <<clock, owner, shares, log, rows, pending, lost>>

\* createAttachment and createAttachmentLink.  An error, as when the log is gone,
\* aborts the transaction; the file is removed when the row was not created,
\* if the unlink works, and stays when it was.
InsertAttachment(i) ==
    LET a == ops[i].p IN
    /\ At(i, "prep", "insert")
    /\ \/ /\ ops[i].ok /\ log.here
          /\ \E linked \in BOOLEAN :
               Step(i, [ops[i] EXCEPT !.pc = "store", !.done = @ \cup {a}, !.ok = linked])
          /\ UNCHANGED <<disk, lost>>
       \/ /\ Step(i, [ops[i] EXCEPT !.pc = "store", !.ok = FALSE])
          /\ \/ disk' = [disk EXCEPT ![a].file = FALSE] /\ UNCHANGED lost
             \/ lost' = lost \cup {a} /\ UNCHANGED disk
    /\ UNCHANGED <<clock, owner, shares, log, rows, pending>>

\* The links of a message that goes out: one per attachment, or in privacy mode
\* createDeliveryViewLink, which resets the link of the log in place.
Issue(i, S) ==
    IF privacy
    THEN /\ view' = [here |-> TRUE, viewed |-> FALSE]
         /\ issued' = issued + 1
         /\ UNCHANGED links
    ELSE links' = links \cup (S \X {i}) /\ UNCHANGED <<view, issued>>

\* The view link hangs on the log by a foreign key, like the rows.
CommitPrep(i) ==
    /\ At(i, "prep", "store") /\ ops[i].todo = {}
    /\ IF ops[i].ok /\ (privacy => log.here)
       THEN /\ rows' = [a \in Att |-> IF a \in ops[i].done
                                      THEN [here |-> TRUE, dek |-> i] ELSE rows[a]]
            /\ usage' = [usage EXCEPT !.att = Sub(@, Size * ops[i].n)]
            /\ Issue(i, ops[i].done)
            /\ UNCHANGED lost
       ELSE /\ lost' = lost \cup ops[i].done
            /\ UNCHANGED <<rows, usage, links, view, issued>>
    /\ Step(i, [Idle EXCEPT !.kind = "prep"])
    /\ UNCHANGED <<clock, user, log, disk, pending, egress, served, used>>

\* readRawEmail: the file opens with the key its log names.
RawReadable == disk[Raw].file /\ (log.dek # None => disk[Raw].body = <<log.dek>>)

\* retryDelivery: the raw mail is read, links are issued again.  A mail that
\* cannot be read is closed.
Resend(i) ==
    /\ log.here /\ log.raw /\ ~log.final /\ log.stage = "prepared" /\ Live("prep") = {}
    /\ Start(i, Op("resend", "end", {}))
    /\ IF RawReadable
       THEN Issue(i, Existing) /\ UNCHANGED log
       ELSE log' = [log EXCEPT !.final = TRUE] /\ UNCHANGED <<links, view, issued>>
    /\ UNCHANGED <<clock, owner, rows, disk, pending, used, lost>>

\* The delivery succeeds or is given up.
Settle ==
    /\ log.here /\ ~log.final /\ log.stage = "prepared" /\ Live("prep") = {}
    /\ log' = [log EXCEPT !.final = TRUE]
    /\ UNCHANGED <<clock, owner, shares, rows, disk, pending, ops, lost>>

-----------------------------------------------------------------------------
(* Downloads and privacy views. *)

\* findAttachmentLinkByToken, expiry and downloaded_at.
BeginDownload(i) ==
    /\ time = 0
    /\ \E l \in links \ used :
         Start(i, [Op("download", "claim", {}) EXCEPT !.p = l[1], !.n = l[2], !.dek = rows[l[1]].dek])
    /\ UNCHANGED <<clock, owner, store, shares, lost>>

LinkOf(i) == <<ops[i].p, ops[i].n>>

\* Mutant: the claim trusts the look-up.
UnclaimedAnyway(l) == l \in links

\* markLinkDownloaded: where downloaded_at is null.
Unclaimed(l) == l \in links /\ l \notin used

\* checkEgressLimit.
Allowed(bytes) == user /\ egress + bytes <= EgressLimit

ClaimDownload(i) ==
    /\ At(i, "download", "claim")
    /\ LockIsFree
    /\ IF Allowed(Size) /\ Unclaimed(LinkOf(i))
       THEN /\ used' = used \cup {LinkOf(i)}
            /\ egress' = egress + Size
            /\ Step(i, [ops[i] EXCEPT !.pc = "open"])
       ELSE Finish(i, 0) /\ UNCHANGED <<used, egress>>
    /\ UNCHANGED <<clock, store, user, usage, served, links, view, issued, lost>>

\* decrementUserUsageMonth; a failure is logged and the bytes stay charged.
Release(bytes) ==
    egress' \in {egress, Sub(egress, bytes)}

\* openAttachmentStream: mode "none" streams the file as it is, otherwise it has
\* to decrypt before a byte is served.
Streams(p, dek) == disk[p].file /\ (dek # None => disk[p].body = <<dek>>)

\* The key is that of the row as it was looked up.  Any error gives up.
OpenDownload(i) ==
    /\ At(i, "download", "open")
    /\ \/ /\ Streams(ops[i].p, ops[i].dek)
          /\ Step(i, [ops[i] EXCEPT !.pc = "stream", !.got = Size])
          /\ served' = served + Size
          /\ UNCHANGED egress
       \/ /\ Finish(i, 0)
          /\ Release(Size)
          /\ UNCHANGED served
    /\ UNCHANGED <<clock, store, shares, user, usage, lost>>

\* Mutant: an aborted stream gives the whole reservation back.
UnsentAll(bytes, sent) == bytes

Unsent(bytes, sent) == bytes - sent

\* trackReservedEgressUsage: complete, or closed early after some bytes.
EndStream(i) ==
    /\ ops[i].pc = "stream" /\ ops[i].kind \in {"download", "view"}
    /\ \/ Finish(i, ops[i].got) /\ UNCHANGED <<egress, served>>
       \/ \E sent \in 0..(ops[i].got - 1) :
            /\ Finish(i, sent)
            /\ served' = served - (ops[i].got - sent)
            /\ Release(Unsent(ops[i].got, sent))
    /\ UNCHANGED <<clock, store, shares, user, usage, lost>>

\* POST /view: the link is loaded and checked, the raw mail read, the
\* attachments listed.
BeginView(i) ==
    /\ time = 0 /\ log.here /\ view.here /\ ~view.viewed
    /\ log.raw /\ RawReadable
    /\ Start(i, Op("view", "claim", Existing))
    /\ UNCHANGED <<clock, owner, store, shares, lost>>

\* markDeliveryViewLinkViewed: by the link's id, whatever its token is by now.
Unviewed == view.here /\ ~view.viewed

\* One transaction: links for the listed attachments, the egress check, the
\* claim and the charge.  A listed attachment that is gone makes its insert
\* fail, and with it the transaction.
ClaimView(i) ==
    /\ At(i, "view", "claim")
    /\ LockIsFree
    /\ IF ops[i].todo \subseteq Existing /\ Allowed(ViewSize) /\ Unviewed
       THEN /\ view' = [view EXCEPT !.viewed = TRUE]
            /\ egress' = egress + ViewSize
            /\ served' = served + ViewSize
            /\ links' = links \cup (ops[i].todo \X {i})
            /\ Step(i, [ops[i] EXCEPT !.pc = "stream", !.n = 1, !.got = ViewSize, !.todo = {}])
       ELSE Finish(i, 0) /\ UNCHANGED <<view, egress, served, links>>
    /\ UNCHANGED <<clock, store, user, usage, used, issued, lost>>

-----------------------------------------------------------------------------
(* The retention cleanup.  Nothing keeps two runs of the cron job apart. *)

\* isExpiredByRetention, isExpiredByDeliveryLogRetention.
Expired == time = 2

BeginCleanup(i) ==
    /\ Start(i, Op("cleanup", "att", IF Expired THEN Existing ELSE {}))
    /\ overlap' = (overlap \/ Live("cleanup") # {})
    /\ UNCHANGED <<owner, store, shares, time, privacy, crashes, lost>>

\* deleteFile of a candidate; one that cannot be unlinked is left for a later run.
Unlink(i) ==
    /\ ops[i].kind = "cleanup" /\ ops[i].pc \in {"att", "raw"}
    /\ \E p \in ops[i].todo :
         \/ /\ disk' = [disk EXCEPT ![p].file = FALSE]
            /\ Step(i, [ops[i] EXCEPT !.todo = @ \ {p}, !.p = p,
                                      !.pc = IF @ = "att" THEN "attTx" ELSE "rawTx"])
         \/ /\ Step(i, [ops[i] EXCEPT !.todo = @ \ {p}])
            /\ UNCHANGED disk
    /\ UNCHANGED <<clock, owner, shares, log, rows, pending, lost>>

\* Mutant: the bytes are released whether or not this run deleted the row.
ReleasedAnyway(a) == Size

\* rowCount > 0.
ReleasedFor(a) == IF HasRow(a) THEN Size ELSE 0

\* The row and its bytes go in one transaction; links cascade.
DeleteRow(i) ==
    LET a == ops[i].p IN
    /\ At(i, "cleanup", "attTx")
    /\ rows' = [rows EXCEPT ![a] = [here |-> FALSE, dek |-> None]]
    /\ links' = {l \in links : l[1] # a}
    /\ used' = {l \in used : l[1] # a}
    /\ usage' = [usage EXCEPT !.att = IF user THEN Sub(@, ReleasedFor(a)) ELSE @]
    /\ Step(i, [ops[i] EXCEPT !.pc = "att"])
    /\ UNCHANGED <<clock, user, log, disk, pending, egress, served, view, issued, lost>>

\* A failed transaction ends the pass; the row is listed again by the next run.
CleanupFails(i) ==
    /\ ops[i].kind = "cleanup" /\ ops[i].pc \in {"attTx", "rawTx"}
    /\ Step(i, [ops[i] EXCEPT !.todo = {}, !.pc = IF @ = "attTx" THEN "att" ELSE "raw"])
    /\ UNCHANGED <<clock, owner, store, shares, lost>>

\* The next pass selects its candidates; without reconciled activation markers
\* the logs are kept.
NextPass(i) ==
    /\ ops[i].kind = "cleanup" /\ ops[i].todo = {}
    /\ \/ /\ ops[i].pc = "att"
          /\ Step(i, [ops[i] EXCEPT !.pc = "raw",
                        !.todo = IF Expired /\ log.here /\ log.raw THEN {Raw} ELSE {}])
       \/ /\ ops[i].pc = "raw"
          /\ \E reconciled \in BOOLEAN :
               Step(i, [ops[i] EXCEPT !.pc = "logs",
                                      !.ok = reconciled /\ Expired /\ log.here /\ ~log.raw])
    /\ UNCHANGED <<clock, owner, store, shares, lost>>

\* cleanRawEmails' transaction: an open log is closed, then the update by id
\* matches whether or not the path was still set.
ClearRaw(i) ==
    /\ At(i, "cleanup", "rawTx")
    /\ RowIsFree
    /\ IF log.here
       THEN /\ log' = [log EXCEPT !.raw = FALSE, !.dek = None, !.final = TRUE]
            /\ usage' = [usage EXCEPT !.raw = Sub(@, 1)]
       ELSE UNCHANGED <<log, usage>>
    /\ Step(i, [ops[i] EXCEPT !.pc = "raw"])
    /\ UNCHANGED <<clock, shares, user, rows, disk, pending, egress, served, lost>>

\* cleanDeliveryLogs: a candidate goes when its raw path and attachments are gone.
PurgeLog(i) ==
    /\ At(i, "cleanup", "logs")
    /\ RowIsFree
    /\ IF ops[i].ok /\ log.here /\ ~log.raw /\ Existing = {}
       THEN /\ log' = [log EXCEPT !.here = FALSE]
            /\ view' = [view EXCEPT !.here = FALSE]
       ELSE UNCHANGED <<log, view>>
    /\ Step(i, [ops[i] EXCEPT !.pc = "links"])
    /\ UNCHANGED <<clock, owner, rows, disk, pending, links, used, issued, lost>>

PurgeLinks(i) ==
    /\ At(i, "cleanup", "links")
    /\ IF time > 0
       THEN links' = {} /\ used' = {} /\ view' = [view EXCEPT !.here = FALSE]
       ELSE UNCHANGED <<links, used, view>>
    /\ Step(i, [Idle EXCEPT !.kind = "cleanup"])
    /\ UNCHANGED <<clock, owner, store, issued, lost>>

-----------------------------------------------------------------------------
(* The owner's erasure: rows in one transaction, files after its commit. *)

\* Under the owner's lock the paths are listed first.
BeginErase(i) ==
    /\ user
    /\ LockIsFree
    /\ Start(i, Op("erase", "rows", Existing \cup (IF log.here /\ log.raw THEN {Raw} ELSE {})))
    /\ UNCHANGED <<clock, owner, store, shares, lost>>

\* Then the rows go, attachments and links by cascade.
Erase(i) ==
    /\ At(i, "erase", "rows")
    /\ RowIsFree
    /\ Step(i, [ops[i] EXCEPT !.pc = "files"])
    /\ user' = FALSE
    /\ log' = [log EXCEPT !.here = FALSE]
    /\ rows' = [a \in Att |-> [here |-> FALSE, dek |-> None]]
    /\ links' = {} /\ used' = {}
    /\ view' = [view EXCEPT !.here = FALSE]
    /\ usage' = [raw |-> 0, att |-> 0] /\ egress' = 0
    /\ UNCHANGED <<clock, disk, pending, served, issued, lost>>

EraseFile(i) ==
    /\ At(i, "erase", "files")
    /\ IF ops[i].todo = {}
       THEN Finish(i, 0) /\ UNCHANGED <<disk, lost>>
       ELSE \E p \in ops[i].todo :
              /\ Step(i, [ops[i] EXCEPT !.todo = @ \ {p}])
              /\ \/ disk' = [disk EXCEPT ![p].file = FALSE] /\ UNCHANGED lost
                 \/ lost' = lost \cup {p} /\ UNCHANGED disk
    /\ UNCHANGED <<clock, owner, shares, log, rows, pending>>

-----------------------------------------------------------------------------
(* The encryption backfill: attachments, then the raw mail, then its pending *)
(* metadata.  The operator runs one job at a time.                           *)

BeginBackfill(i) ==
    /\ Live("backfill") = {}
    /\ Start(i, Op("backfill", "read", {a \in Existing : rows[a].dek = None}))
    /\ UNCHANGED <<clock, owner, store, shares, lost>>

\* Mutant: an interrupted job's note is dropped and the file encrypted anew.
ResumesNever(p) == FALSE

\* readStorageBackfillMeta and isEncryptedStorageBlob.
Resumes(p) == disk[p].note # None /\ disk[p].body # <<>>

\* writeStorageBackfillMeta: before the file is replaced.
Noted(p, i) == [disk EXCEPT ![p].note = i]

\* backfillAttachmentFile / backfillRawEmailFile, first half: a missing file is
\* left out, an interrupted one resumed, any other read.
ReadPlain(i, p) ==
    \/ /\ ~disk[p].file
       /\ Step(i, [ops[i] EXCEPT !.todo = @ \ {p}])
       /\ UNCHANGED disk
    \/ /\ disk[p].file /\ Resumes(p)
       /\ Step(i, [ops[i] EXCEPT !.todo = @ \ {p}, !.p = p, !.n = disk[p].note, !.pc = "row"])
       /\ UNCHANGED disk
    \/ /\ disk[p].file /\ ~Resumes(p)
       /\ disk' = Noted(p, i)
       /\ Step(i, [ops[i] EXCEPT !.todo = @ \ {p}, !.p = p, !.n = i, !.got = Len(disk[p].body),
                                 !.pc = "replace"])

ReadFile(i) ==
    /\ At(i, "backfill", "read")
    /\ \E p \in ops[i].todo : ReadPlain(i, p)
    /\ UNCHANGED <<clock, owner, shares, log, rows, pending, lost>>

\* replaceFileAtomically with what was read, encrypted: the rename creates the
\* path anew when somebody unlinked it meanwhile.
ReplaceFile(i) ==
    LET p == ops[i].p IN
    /\ At(i, "backfill", "replace")
    /\ Step(i, [ops[i] EXCEPT !.pc = "row", !.got = 0])
    /\ disk' = [disk EXCEPT ![p].file = TRUE,
                            ![p].body = Append(IF ops[i].got = 0 THEN <<>> ELSE @, ops[i].n)]
    /\ lost' = IF disk[p].file THEN lost ELSE lost \cup {p}
    /\ UNCHANGED <<clock, owner, shares, log, rows, pending>>

\* The row is updated by id, or the pending metadata overwritten.
RecordKey(i) ==
    LET p == ops[i].p IN
    /\ At(i, "backfill", "row")
    /\ \/ /\ ops[i].phase = "att"
          /\ rows' = [rows EXCEPT ![p].dek = IF HasRow(p) THEN ops[i].n ELSE @]
          /\ Step(i, [ops[i] EXCEPT !.pc = "clear"])
          /\ UNCHANGED <<log, pending>>
       \/ /\ ops[i].phase = "raw"
          /\ RowIsFree
          /\ log' = [log EXCEPT !.dek = IF log.here THEN ops[i].n ELSE @]
          /\ Step(i, [ops[i] EXCEPT !.pc = "clear", !.done = {Raw}])
          /\ UNCHANGED <<rows, pending>>
       \/ /\ ops[i].phase = "pending"
          /\ pending' = [here |-> TRUE, dek |-> ops[i].n]
          /\ Step(i, [ops[i] EXCEPT !.pc = "clear"])
          /\ UNCHANGED <<rows, log>>
    /\ UNCHANGED <<clock, owner, shares, disk, lost>>

\* clearStorageBackfillMeta.
ClearNote(i) ==
    /\ At(i, "backfill", "clear")
    /\ Step(i, [ops[i] EXCEPT !.pc = "read"])
    /\ disk' = [disk EXCEPT ![ops[i].p].note = None]
    /\ UNCHANGED <<clock, owner, shares, log, rows, pending, lost>>

\* The next phase selects its rows; a raw mail this job has just rewritten
\* gets its pending metadata from memory.
NextPhase(i) ==
    /\ At(i, "backfill", "read") /\ ops[i].todo = {}
    /\ \/ /\ ops[i].phase = "att"
          /\ Step(i, [ops[i] EXCEPT !.phase = "raw",
                        !.todo = IF log.here /\ log.raw /\ log.dek = None THEN {Raw} ELSE {}])
       \/ /\ ops[i].phase = "raw"
          /\ LET bare == pending.here /\ pending.dek = None IN
             IF bare /\ Raw \in ops[i].done
             THEN Step(i, [ops[i] EXCEPT !.phase = "pending", !.pc = "row", !.p = Raw])
             ELSE Step(i, [ops[i] EXCEPT !.phase = "pending", !.todo = IF bare THEN {Raw} ELSE {}])
       \/ /\ ops[i].phase = "pending"
          /\ Step(i, [Idle EXCEPT !.kind = "backfill"])
    /\ UNCHANGED <<clock, owner, store, shares, lost>>

\* recoverPendingRawEmails: the log exists, or the queue turns the mail down.
RecoverPending ==
    /\ pending.here
    /\ pending' = [here |-> FALSE, dek |-> None]
    /\ disk' = IF log.here THEN disk ELSE [disk EXCEPT ![Raw].file = FALSE]
    /\ UNCHANGED <<clock, owner, shares, log, rows, ops, lost>>

-----------------------------------------------------------------------------
Tick ==
    /\ time < 2 /\ time' = time + 1
    /\ UNCHANGED <<owner, store, shares, privacy, ops, crashes, overlap, lost>>

\* Paths a row, a pending file or an unfinished operation still answers for.
Held(p, os) ==
    \/ p \in Existing
    \/ p = Raw /\ (pending.here \/ (log.here /\ log.raw))
    \/ \E i \in Slot :
         /\ os[i].pc # "end"
         /\ \/ os[i].kind = "prep" /\ p \in os[i].done
            \/ os[i].kind = "prep" /\ os[i].pc = "insert" /\ p = os[i].p
            \/ os[i].kind = "erase" /\ p \in os[i].todo

Stopped(S) == [i \in Slot |-> IF i \in S /\ ops[i].pc # "end"
                              THEN [Idle EXCEPT !.kind = ops[i].kind, !.p = ops[i].p,
                                                !.n = ops[i].n, !.got = ops[i].got]
                              ELSE ops[i]]

\* The service stops: what its operations held stays as it is on disk.  The
\* open transaction is rolled back; bytes in a stream count as sent.
Crash ==
    /\ crashes < MaxCrashes /\ crashes' = crashes + 1
    /\ ops' = Stopped(Slot \ Live("backfill"))
    /\ lost' = lost \cup {p \in Path : disk[p].file /\ Held(p, ops) /\ ~Held(p, ops')}
    /\ UNCHANGED <<owner, store, shares, time, privacy, overlap>>

\* The backfill job stops, or an error ends it.
BackfillStops ==
    /\ crashes < MaxCrashes /\ crashes' = crashes + 1
    /\ Live("backfill") # {}
    /\ ops' = Stopped(Live("backfill"))
    /\ UNCHANGED <<owner, store, shares, time, privacy, overlap, lost>>

Next ==
    \/ Settle \/ RecoverPending \/ Tick \/ Crash \/ BackfillStops
    \/ \E i \in Slot :
         \/ BeginPrep(i) \/ Resend(i) \/ BeginDownload(i) \/ BeginView(i) \/ BeginCleanup(i)
         \/ BeginErase(i) \/ BeginBackfill(i)
         \/ LockPrep(i) \/ WriteAttachment(i) \/ InsertAttachment(i) \/ CommitPrep(i)
         \/ ClaimDownload(i) \/ OpenDownload(i) \/ EndStream(i) \/ ClaimView(i)
         \/ Unlink(i) \/ DeleteRow(i) \/ CleanupFails(i) \/ NextPass(i)
         \/ ClearRaw(i) \/ PurgeLog(i) \/ PurgeLinks(i) \/ Erase(i) \/ EraseFile(i)
         \/ ReadFile(i) \/ ReplaceFile(i) \/ RecordKey(i) \/ ClearNote(i) \/ NextPhase(i)

Spec == Init /\ [][Next]_vars

-----------------------------------------------------------------------------
(* Properties. *)

\* Every variable keeps its type.
TypeOK ==
    /\ time \in 0..2 /\ crashes \in Nat /\ issued \in Nat /\ egress \in Nat /\ served \in Int
    /\ user \in BOOLEAN /\ privacy \in BOOLEAN /\ overlap \in BOOLEAN
    /\ log \in [here : BOOLEAN, raw : BOOLEAN, dek : Nat, final : BOOLEAN,
                stage : {"queued", "prepared"}]
    /\ rows \in [Att -> [here : BOOLEAN, dek : Nat]]
    /\ disk \in [Path -> [file : BOOLEAN, body : Seq(Nat), note : Nat]]
    /\ pending \in [here : BOOLEAN, dek : Nat]
    /\ usage \in [raw : Nat, att : Nat]
    /\ links \in SUBSET (Att \X Nat) /\ used \in SUBSET (Att \X Nat)
    /\ view \in [here : BOOLEAN, viewed : BOOLEAN]
    /\ ops \in [Slot -> Operation]
    /\ lost \in SUBSET Path

\* No file outlives whoever answers for it: whatever the order of a delivery
\* storing attachments, a cleanup and the owner's erasure, a file on disk has a
\* row, a pending file or an operation that will remove it, unless a crash, a
\* rollback, a failed unlink or the backfill's rename left it.
NoStrandedFile ==
    \A p \in Path : disk[p].file => Held(p, ops) \/ p \in lost

\* Storage accounting under overlapping cleanup runs (no guard in index.ts) and
\* failed attachments: attachment bytes are never released twice, and raw bytes
\* are exact as long as two cleanup runs never overlapped.
StorageCharged ==
    user => /\ usage.att >= Elsewhere + Bytes(Existing)
            /\ ~overlap => usage.raw = Elsewhere + (IF log.here /\ log.raw THEN 1 ELSE 0)

\* Every byte that left through a link was charged to the owner's month and the
\* charge never passes the plan's limit, whatever was reserved, aborted or given
\* back in between.
EgressCharged ==
    user => served <= egress /\ egress <= EgressLimit

Served(i) == ops[i].kind = "download" /\ (ops[i].got > 0 \/ ops[i].pc = "stream")
Shown     == {i \in Slot : ops[i].kind = "view" /\ ops[i].n = 1}

\* A download link opens its attachment for one request, and the mail is shown
\* at most as often as view links were issued, with any number of requests that
\* passed the look-up at the same time.
ServedOnce ==
    /\ \A i, j \in Slot : i # j /\ Served(i) /\ Served(j) => LinkOf(i) # LinkOf(j)
    /\ Cardinality(Shown) <= issued

Opens(p, dek) ==
    \/ disk[p].body = (IF dek = None THEN <<>> ELSE <<dek>>)
    \/ dek = None /\ disk[p].note # None /\ disk[p].body = <<disk[p].note>>

\* An attachment opens with the key its row names, or the next backfill can tell
\* which key that is, wherever the previous one was interrupted.
AttachmentReadable ==
    \A a \in Existing : disk[a].file => Opens(a, rows[a].dek)

\* "resumes interrupted backfills from persisted metadata without re-encrypting
\* the files again" (tests/unit/security/storageMaintenance.test.ts).
EncryptedOnce ==
    \A p \in Path : Len(disk[p].body) <= 1
=============================================================================
