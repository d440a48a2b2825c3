---------------------------- MODULE InboundProofs ----------------------------
(***************************************************************************)
(* Proofs about Inbound, for every finite set of paths, every assignment   *)
(* of messages and aliases to them, and all limits and bounds.             *)
(*                                                                         *)
(* IInv has a global part, what the owner's lock protects, and a part for  *)
(* each path: whose turn it is, what is on disk, and what a verdict means  *)
(* for the log.                                                            *)
(***************************************************************************)
EXTENDS Inbound, TLAPS, FiniteSetTheorems

(* The steps of queueInboundEmail up to the COMMIT.                        *)
Queueing == {"queue", "begin", "lock", "check", "commit"}

(* A log of the path's message has been written.                           *)
Logged(p) ==
  \E q \in Path : row[q] # "none" /\ AliasOf[q] = AliasOf[p] /\ MessageOf[q] = MessageOf[p]

(* The lock: who checks or commits holds it.                               *)
LockHeld ==
  \A k \in Kind, p \in Path : pc[k][p] \in {"check", "commit"} <=> lock = <<k, p>>

Global == LockHeld /\ DecisionStillTrue /\ LimitsKept /\ OneLogPerMessage

(* Whose turn it is: a mail is the request's until its metadata is old,    *)
(* and the recovery's from then on.                                        *)
Turns(p) ==
  /\ pc["request"][p] \notin {"lookup", "read"}
  /\ pc["recovery"][p] \notin {"new", "write", "describe", "reply"}
  /\ old[p] => pc["request"][p] = "none"
  /\ pc["recovery"][p] # "none" => old[p] /\ run.on /\ p \notin run.todo
  /\ p \in run.todo => run.on /\ (old[p] => meta[p])

(* The months a transaction uses.                                          *)
Months(p) ==
  /\ \A k \in Kind :
       /\ pc[k][p] \in {"begin", "lock", "check", "commit"} => tx[k][p].decided \in Month
       /\ pc[k][p] \in {"lock", "check", "commit"} => tx[k][p].begun \in Month
  /\ row[p] # "none" => received[p] \in Month

(* What is on disk while the mail is worked on.                            *)
Stored(p) ==
  /\ \A k \in Kind : pc[k][p] \in Queueing => meta[p] /\ file[p]
  /\ pc["request"][p] = "describe" => file[p]
  /\ pc["recovery"][p] \in {"lookup", "read", "unmeta"} => meta[p]
  /\ pc["recovery"][p] = "unlink" => ~meta[p]

(* A mail that is not queued yet, or is about to be deleted, has no log    *)
(* that refers to its file.                                                *)
Unlogged(p) ==
  /\ pc["request"][p] \in Queueing \cup {"new", "write", "describe"} => row[p] = "none"
  /\ pc["recovery"][p] \in Queueing \cup {"read"} => row[p] # "held"
  /\ \A k \in Kind :
       /\ pc[k][p] = "unlink" => row[p] # "held"
       /\ pc[k][p] = "unmeta" /\ verdict[k][p] # "queued" => row[p] # "held"

(* What a verdict means after the queue.                                   *)
Decided(p) ==
  /\ \A k \in Kind :
       /\ pc[k][p] = "commit" =>
            verdict[k][p] \in {"quota", "refused", "duplicate", "rate_limited", "queued"}
       /\ pc[k][p] = "commit" /\ verdict[k][p] = "duplicate" => Logged(p)
       /\ pc[k][p] \in {"unlink", "unmeta", "reply"} =>
            /\ verdict[k][p] # "none"
            /\ verdict[k][p] \in {"queued", "duplicate"} => Logged(p)
  /\ pc["request"][p] \in {"unlink", "unmeta"} => verdict["request"][p] # "rate_limited"
  /\ pc["request"][p] = "reply" /\ verdict["request"][p] = "rate_limited" =>
       meta[p] /\ file[p] /\ row[p] = "none"
  /\ pc["recovery"][p] \in {"unlink", "unmeta"} =>
       verdict["recovery"][p] \in RecoveryDrops \cup {"queued"}

(* An accepted mail is no longer the request's.                            *)
Kept(p) == reply[p] = "accepted" => pc["request"][p] = "none"

RawKept(p) == row[p] = "held" /\ ~file[p] => over[p]

PathInv(p) ==
  /\ Turns(p) /\ Months(p) /\ Stored(p) /\ Unlogged(p) /\ Decided(p) /\ Kept(p)
  /\ RawKept(p)

IInv == TypeOK /\ Global /\ \A p \in Path : PathInv(p)

-----------------------------------------------------------------------------
(* Frames.                                                                 *)

(* A step leaves everything about a path alone.                            *)
Untouched(q) ==
  /\ file'[q] = file[q] /\ meta'[q] = meta[q] /\ old'[q] = old[q]
  /\ row'[q] = row[q] /\ over'[q] = over[q] /\ received'[q] = received[q]
  /\ reply'[q] = reply[q]
  /\ \A k \in Kind : /\ pc'[k][q] = pc[k][q]
                     /\ verdict'[k][q] = verdict[k][q]
                     /\ tx'[k][q] = tx[k][q]
  /\ q \in run'.todo <=> q \in run.todo
  /\ run'.on <=> run.on

(* Logs are not undone.                                                    *)
RowsStay == \A q \in Path : row[q] # "none" => row'[q] # "none"

(* Nor is what Logged says of a message.                                   *)
LEMMA LoggedStays ==
  ASSUME NEW q \in Path, RowsStay
  PROVE  Logged(q) => Logged(q)'
  BY DEF Logged, RowsStay

(* An untouched path keeps its invariant.                                  *)
LEMMA UntouchedKeeps ==
  ASSUME NEW q \in Path, PathInv(q), Untouched(q), RowsStay
  PROVE  PathInv(q)'
  <1>1. Logged(q) => Logged(q)'
    BY LoggedStays
  <1>2. Turns(q)' /\ Months(q)' /\ Stored(q)' /\ Unlogged(q)' /\ RawKept(q)'
    BY DEF PathInv, Untouched, Turns, Months, Stored, Unlogged, RawKept, Kind
  <1>3. Decided(q)' /\ Kept(q)'
    BY <1>1 DEF PathInv, Untouched, Decided, Kept, Kind
  <1> QED BY <1>2, <1>3 DEF PathInv

(* A step that works on one path.                                          *)
LEMMA PathStep ==
  ASSUME IInv, TypeOK', Global', RowsStay,
         NEW p \in Path, PathInv(p)',
         \A q \in Path : q # p => Untouched(q)
  PROVE  IInv'
  BY UntouchedKeeps DEF IInv

(* A step that leaves the logs, the charges and the lock alone.            *)
LEMMA GlobalFrame ==
  ASSUME Global, UNCHANGED <<lock, logs, usage>>,
         \A k \in Kind, q \in Path :
           \/ pc'[k][q] = pc[k][q] /\ verdict'[k][q] = verdict[k][q] /\ tx'[k][q] = tx[k][q]
           \/ pc[k][q] \notin {"check", "commit"} /\ pc'[k][q] \notin {"check", "commit"}
  PROVE  Global'
  <1>1. UNCHANGED <<row, recent>>
    BY DEF logs
  <1>2. LockHeld'
    BY DEF Global, LockHeld
  <1>3. DecisionStillTrue'
    BY <1>1 DEF Global, DecisionStillTrue, RecentOf, Duplicate
  <1>4. LimitsKept' /\ OneLogPerMessage'
    BY <1>1 DEF Global, LimitsKept, OneLogPerMessage, RecentOf
  <1> QED BY <1>2, <1>3, <1>4 DEF Global

(* An actor moves: only its own control state changes.                     *)
Moved(k, p, s) ==
  /\ pc' \in [Kind -> [Path -> Pc]]
  /\ pc'[k][p] = s
  /\ \A kk \in Kind, q \in Path : kk # k \/ q # p => pc'[kk][q] = pc[kk][q]

(* Goto is such a move.                                                    *)
LEMMA GotoMoves ==
  ASSUME TypeOK, NEW k \in Kind, NEW p \in Path, NEW s \in Pc, Goto(k, p, s)
  PROVE  Moved(k, p, s)
  BY DEF TypeOK, Goto, Moved

(* An actor's verdict is set: no other one changes.                        *)
Judged(k, p, v) ==
  /\ verdict' \in [Kind -> [Path -> Verdict]]
  /\ verdict'[k][p] = v
  /\ \A kk \in Kind, q \in Path : kk # k \/ q # p => verdict'[kk][q] = verdict[kk][q]

(* Setting a verdict is such a step.                                       *)
LEMMA VerdictMoves ==
  ASSUME TypeOK, NEW k \in Kind, NEW p \in Path, NEW v \in Verdict,
         verdict' = [verdict EXCEPT ![k][p] = v]
  PROVE  Judged(k, p, v)
  BY DEF TypeOK, Judged

(* Both kinds are kinds.                                                   *)
LEMMA Kinds ==
  /\ "request" \in Kind /\ "recovery" \in Kind
  /\ \A k \in Kind : k \in {"request", "recovery"}
  BY DEF Kind

(* Initially no request has begun.                                         *)
LEMMA InitIInv == Init => IInv
  <1> SUFFICES ASSUME Init PROVE IInv
    OBVIOUS
  <1> USE InboundAssumption DEF InboundAssumption, Init
  <1>1. TypeOK
    BY DEF TypeOK, Row, Kind, Month, Pc, Verdict, NoTx, Reply
  <1>2. Global
    <2>1. LockHeld
      <3> SUFFICES ASSUME NEW k \in Kind, NEW p \in Path
                   PROVE  pc[k][p] \notin {"check", "commit"} /\ lock # <<k, p>>
        BY DEF LockHeld
      <3>1. <<k, p>> \in {"request", "recovery"} \X Path
        BY DEF Kind
      <3> QED BY <3>1
    <2>2. DecisionStillTrue /\ OneLogPerMessage
      BY DEF DecisionStillTrue, OneLogPerMessage, Kind
    <2>3. \A a \in Alias : RecentOf(a) = {}
      BY DEF RecentOf
    <2>4. \A a \in Alias : Cardinality(RecentOf(a)) = 0
      BY <2>3, FS_EmptySet
    <2>5. LimitsKept
      BY <2>4 DEF LimitsKept, Month
    <2> QED BY <2>1, <2>2, <2>5 DEF Global
  <1>3. ASSUME NEW p \in Path PROVE PathInv(p)
    BY <1>3 DEF PathInv, Turns, Months, Stored, Unlogged, Decided, Kept, RawKept, Kind, Queueing
  <1> QED BY <1>1, <1>2, <1>3 DEF IInv

-----------------------------------------------------------------------------
(* Steps that move one actor of one path to one place.                     *)

(* The raw file is written before anything refers to it.                   *)
LEMMA WriteRawIInv ==
  ASSUME IInv, NEW p \in Path, WriteRaw(p)
  PROVE  IInv'
  <1> USE Kinds DEF IInv, WriteRaw, disk, logs, counters, local, Moved, Queueing
  <1>1. Moved("request", p, "describe")
    BY GotoMoves DEF Pc
  <1>2. TypeOK'
    BY <1>1 DEF TypeOK
  <1>3. Global'
    BY <1>1, GlobalFrame
  <1>4. RowsStay /\ \A q \in Path : q # p => Untouched(q)
    BY <1>1 DEF Untouched, RowsStay, TypeOK
  <1>5. PathInv(p)'
    <2>1. Logged(p) => Logged(p)'
      BY <1>4, LoggedStays
    <2>2. file'[p] = TRUE
      BY <1>1 DEF TypeOK
    <2>3. Turns(p)' /\ Months(p)' /\ Stored(p)'
      BY <1>1, <2>2 DEF PathInv, Turns, Months, Stored, Unlogged
    <2>4. Unlogged(p)' /\ RawKept(p)'
      BY <1>1, <2>2 DEF PathInv, Turns, Stored, Unlogged, RawKept
    <2>5. Decided(p)'
      BY <1>1, <2>2, <2>1 DEF PathInv, Turns, Stored, Decided, Unlogged
    <2>6. Kept(p)'
      BY <1>1, <2>2, <2>1 DEF PathInv, Turns, Stored, Decided, Kept
    <2> QED BY <2>3, <2>4, <2>5, <2>6 DEF PathInv
  <1> QED BY <1>2, <1>3, <1>4, <1>5, PathStep

(* A write that fails is answered with an error.                           *)
LEMMA WriteRawFailsIInv ==
  ASSUME IInv, NEW p \in Path, WriteRawFails(p)
  PROVE  IInv'
  <1> USE Kinds DEF IInv, WriteRawFails, disk, logs, counters, local, Moved, Queueing, Fault, Answer
  <1>1. Moved("request", p, "none")
    BY GotoMoves DEF Pc
  <1>2. TypeOK'
    BY <1>1 DEF TypeOK, Reply
  <1>3. Global'
    BY <1>1, GlobalFrame
  <1>4. RowsStay /\ \A q \in Path : q # p => Untouched(q)
    BY <1>1 DEF Untouched, RowsStay, TypeOK
  <1>5. PathInv(p)'
    <2>1. Logged(p) => Logged(p)'
      BY <1>4, LoggedStays
    <2>2. reply'[p] = "error"
      BY <1>1 DEF TypeOK
    <2>3. Turns(p)' /\ Months(p)' /\ Stored(p)'
      BY <1>1, <2>2 DEF PathInv, Turns, Months, Stored, Unlogged
    <2>4. Unlogged(p)' /\ RawKept(p)'
      BY <1>1, <2>2 DEF PathInv, Turns, Stored, Unlogged, RawKept
    <2>5. Decided(p)'
      BY <1>1, <2>2, <2>1 DEF PathInv, Turns, Stored, Decided, Unlogged
    <2>6. Kept(p)'
      BY <1>1, <2>2, <2>1 DEF PathInv, Turns, Stored, Decided, Kept
    <2> QED BY <2>3, <2>4, <2>5, <2>6 DEF PathInv
  <1> QED BY <1>2, <1>3, <1>4, <1>5, PathStep

(* The metadata follows the file.                                          *)
LEMMA WriteMetaIInv ==
  ASSUME IInv, NEW p \in Path, WriteMeta(p)
  PROVE  IInv'
  <1> USE Kinds DEF IInv, WriteMeta, disk, logs, counters, local, Moved, Queueing
  <1>1. Moved("request", p, "queue")
    BY GotoMoves DEF Pc
  <1>2. TypeOK'
    BY <1>1 DEF TypeOK
  <1>3. Global'
    BY <1>1, GlobalFrame
  <1>4. RowsStay /\ \A q \in Path : q # p => Untouched(q)
    BY <1>1 DEF Untouched, RowsStay, TypeOK
  <1>5. PathInv(p)'
    <2>1. Logged(p) => Logged(p)'
      BY <1>4, LoggedStays
    <2>2. meta'[p] = TRUE
      BY <1>1 DEF TypeOK
    <2>3. Turns(p)' /\ Months(p)' /\ Stored(p)'
      BY <1>1, <2>2 DEF PathInv, Turns, Months, Stored, Unlogged
    <2>4. Unlogged(p)' /\ RawKept(p)'
      BY <1>1, <2>2 DEF PathInv, Turns, Stored, Unlogged, RawKept
    <2>5. Decided(p)'
      BY <1>1, <2>2, <2>1 DEF PathInv, Turns, Stored, Decided, Unlogged
    <2>6. Kept(p)'
      BY <1>1, <2>2, <2>1 DEF PathInv, Turns, Stored, Decided, Kept
    <2> QED BY <2>3, <2>4, <2>5, <2>6 DEF PathInv
  <1> QED BY <1>2, <1>3, <1>4, <1>5, PathStep

(* So is metadata that cannot be written.                                  *)
LEMMA WriteMetaFailsIInv ==
  ASSUME IInv, NEW p \in Path, WriteMetaFails(p)
  PROVE  IInv'
  <1> USE Kinds DEF IInv, WriteMetaFails, disk, logs, counters, local, Moved, Queueing, Fault,
      Answer
  <1>1. Moved("request", p, "none")
    BY GotoMoves DEF Pc
  <1>2. TypeOK'
    BY <1>1 DEF TypeOK, Reply
  <1>3. Global'
    BY <1>1, GlobalFrame
  <1>4. RowsStay /\ \A q \in Path : q # p => Untouched(q)
    BY <1>1 DEF Untouched, RowsStay, TypeOK
  <1>5. PathInv(p)'
    <2>1. Logged(p) => Logged(p)'
      BY <1>4, LoggedStays
    <2>2. reply'[p] = "error"
      BY <1>1 DEF TypeOK
    <2>3. Turns(p)' /\ Months(p)' /\ Stored(p)'
      BY <1>1, <2>2 DEF PathInv, Turns, Months, Stored, Unlogged
    <2>4. Unlogged(p)' /\ RawKept(p)'
      BY <1>1, <2>2 DEF PathInv, Turns, Stored, Unlogged, RawKept
    <2>5. Decided(p)'
      BY <1>1, <2>2, <2>1 DEF PathInv, Turns, Stored, Decided, Unlogged
    <2>6. Kept(p)'
      BY <1>1, <2>2, <2>1 DEF PathInv, Turns, Stored, Decided, Kept
    <2> QED BY <2>3, <2>4, <2>5, <2>6 DEF PathInv
  <1> QED BY <1>2, <1>3, <1>4, <1>5, PathStep

(* The answer: an acceptance has a record by now.                          *)
LEMMA SendReplyIInv ==
  ASSUME IInv, NEW p \in Path, SendReply(p)
  PROVE  IInv'
  <1> USE Kinds DEF IInv, SendReply, disk, logs, counters, local, Moved, Queueing, Answer, ReplyFor
  <1>1. Moved("request", p, "none")
    BY GotoMoves DEF Pc
  <1>2. TypeOK'
    <2>1. Judged("request", p, "none")
      BY VerdictMoves DEF Verdict
    <2> QED BY <1>1, <2>1 DEF TypeOK, Reply, Judged
  <1>3. Global'
    BY <1>1, GlobalFrame
  <1>4. RowsStay /\ \A q \in Path : q # p => Untouched(q)
    BY <1>1 DEF Untouched, RowsStay, TypeOK
  <1>5. PathInv(p)'
    <2>1. Logged(p) => Logged(p)'
      BY <1>4, LoggedStays
    <2>2. reply'[p] = ReplyFor(verdict["request"][p]) /\ verdict["request"][p] \in Verdict
      BY <1>1 DEF TypeOK
    <2>3. Turns(p)' /\ Months(p)' /\ Stored(p)'
      BY <1>1, <2>2 DEF PathInv, Turns, Months, Stored, Unlogged, Verdict
    <2>4. Unlogged(p)' /\ RawKept(p)'
      BY <1>1, <2>2 DEF PathInv, Turns, Stored, Unlogged, RawKept, Verdict
    <2>5. Decided(p)'
      BY <1>1, <2>2, <2>1 DEF PathInv, Turns, Stored, Decided, Unlogged, Verdict
    <2>6. Kept(p)'
      BY <1>1, <2>2, <2>1 DEF PathInv, Turns, Stored, Decided, Kept, Verdict
    <2> QED BY <2>3, <2>4, <2>5, <2>6 DEF PathInv
  <1> QED BY <1>2, <1>3, <1>4, <1>5, PathStep

(* A recovery that throws leaves the mail as it is.                        *)
LEMMA RecoveryThrowsIInv ==
  ASSUME IInv, NEW p \in Path, RecoveryThrows(p)
  PROVE  IInv'
  <1> USE Kinds DEF IInv, RecoveryThrows, disk, logs, counters, local, Moved, Queueing, Fault
  <1>1. Moved("recovery", p, "none")
    BY GotoMoves DEF Pc
  <1>2. TypeOK'
    BY <1>1 DEF TypeOK
  <1>3. Global'
    BY <1>1, GlobalFrame
  <1>4. RowsStay /\ \A q \in Path : q # p => Untouched(q)
    BY <1>1 DEF Untouched, RowsStay, TypeOK
  <1>5. PathInv(p)'
    <2>1. Logged(p) => Logged(p)'
      BY <1>4, LoggedStays
    <2>3. Turns(p)' /\ Months(p)' /\ Stored(p)'
      BY <1>1 DEF PathInv, Turns, Months, Stored, Unlogged
    <2>4. Unlogged(p)' /\ RawKept(p)'
      BY <1>1 DEF PathInv, Turns, Stored, Unlogged, RawKept
    <2>5. Decided(p)'
      BY <1>1, <2>1 DEF PathInv, Turns, Stored, Decided, Unlogged
    <2>6. Kept(p)'
      BY <1>1, <2>1 DEF PathInv, Turns, Stored, Decided, Kept
    <2> QED BY <2>3, <2>4, <2>5, <2>6 DEF PathInv
  <1> QED BY <1>2, <1>3, <1>4, <1>5, PathStep

(* BEGIN fixes the month of received_at.                                   *)
LEMMA BeginIInv ==
  ASSUME IInv, NEW k \in Kind, NEW p \in Path, Begin(k, p)
  PROVE  IInv'
  <1> USE Kinds DEF IInv, Begin, disk, logs, counters, local, Moved, Queueing
  <1>1. Moved(k, p, "lock")
    BY GotoMoves DEF Pc
  <1>2. TypeOK'
    <2>1. tx[k][p] \in [decided : 0..MaxMonth, begun : 0..MaxMonth]
      BY DEF TypeOK
    <2>2. month \in 0..MaxMonth
      BY DEF TypeOK, Month
    <2>3. [tx[k][p] EXCEPT !.begun = month] \in [decided : 0..MaxMonth, begun : 0..MaxMonth]
      BY <2>1, <2>2
    <2>4. tx' \in [Kind -> [Path -> [decided : 0..MaxMonth, begun : 0..MaxMonth]]]
      BY <2>3 DEF TypeOK
    <2> QED BY <1>1, <2>4 DEF TypeOK
  <1>3. Global'
    BY <1>1, GlobalFrame
  <1>4. RowsStay /\ \A q \in Path : q # p => Untouched(q)
    BY <1>1 DEF Untouched, RowsStay, TypeOK
  <1>5. PathInv(p)'
    <2>1. Logged(p) => Logged(p)'
      BY <1>4, LoggedStays
    <2>2. tx'[k][p].decided = tx[k][p].decided /\ tx'[k][p].begun = month /\ month \in Month
          /\ \A kk \in Kind : kk # k => tx'[kk][p] = tx[kk][p]
      BY <1>1 DEF TypeOK
    <2>3. Turns(p)' /\ Months(p)' /\ Stored(p)'
      BY <1>1, <2>2 DEF PathInv, Turns, Months, Stored, Unlogged
    <2>4. Unlogged(p)' /\ RawKept(p)'
      BY <1>1, <2>2 DEF PathInv, Turns, Stored, Unlogged, RawKept
    <2>5. Decided(p)'
      <3>1. UNCHANGED <<verdict, meta, file, row>>
        OBVIOUS
      <3>2. \A kk \in Kind : pc'[kk][p] = pc[kk][p] \/ pc'[kk][p] = "lock"
        BY <1>1
      <3>3. Decided(p)
        BY DEF PathInv
      <3> QED BY <2>1, <3>1, <3>2, <3>3 DEF Decided
    <2>6. Kept(p)'
      BY <1>1, <2>2, <2>1 DEF PathInv, Turns, Stored, Decided, Kept
    <2> QED BY <2>3, <2>4, <2>5, <2>6 DEF PathInv
  <1> QED BY <1>2, <1>3, <1>4, <1>5, PathStep

(* The file of a mail without a log is deleted.                            *)
LEMMA UnlinkIInv ==
  ASSUME IInv, NEW k \in Kind, NEW p \in Path, Unlink(k, p)
  PROVE  IInv'
  <1> USE Kinds DEF IInv, Unlink, disk, logs, counters, local, Moved, Queueing, AfterUnlink
  <1>1. Moved(k, p, AfterUnlink(k))
    BY GotoMoves DEF Pc
  <1>2. TypeOK'
    BY <1>1 DEF TypeOK
  <1>3. Global'
    BY <1>1, GlobalFrame
  <1>4. RowsStay /\ \A q \in Path : q # p => Untouched(q)
    BY <1>1 DEF Untouched, RowsStay, TypeOK
  <1>5. PathInv(p)'
    <2>1. Logged(p) => Logged(p)'
      BY <1>4, LoggedStays
    <2>2. file'[p] = FALSE
      BY <1>1 DEF TypeOK
    <2>3. Turns(p)' /\ Months(p)' /\ Stored(p)'
      BY <1>1, <2>2 DEF PathInv, Turns, Months, Stored, Unlogged, RecoveryDrops
    <2>4. Unlogged(p)' /\ RawKept(p)'
      BY <1>1, <2>2 DEF PathInv, Turns, Stored, Unlogged, RawKept, RecoveryDrops
    <2>5. Decided(p)'
      BY <1>1, <2>2, <2>1 DEF PathInv, Turns, Stored, Decided, Unlogged, RecoveryDrops
    <2>6. Kept(p)'
      BY <1>1, <2>2, <2>1 DEF PathInv, Turns, Stored, Decided, Kept, RecoveryDrops
    <2> QED BY <2>3, <2>4, <2>5, <2>6 DEF PathInv
  <1> QED BY <1>2, <1>3, <1>4, <1>5, PathStep

(* Or it stays.                                                            *)
LEMMA UnlinkFailsIInv ==
  ASSUME IInv, NEW k \in Kind, NEW p \in Path, UnlinkFails(k, p)
  PROVE  IInv'
  <1> USE Kinds DEF IInv, UnlinkFails, disk, logs, counters, local, Moved, Queueing, AfterUnlink,
      Fault
  <1>1. Moved(k, p, AfterUnlink(k))
    BY GotoMoves DEF Pc
  <1>2. TypeOK'
    BY <1>1 DEF TypeOK
  <1>3. Global'
    BY <1>1, GlobalFrame
  <1>4. RowsStay /\ \A q \in Path : q # p => Untouched(q)
    BY <1>1 DEF Untouched, RowsStay, TypeOK
  <1>5. PathInv(p)'
    <2>1. Logged(p) => Logged(p)'
      BY <1>4, LoggedStays
    <2>3. Turns(p)' /\ Months(p)' /\ Stored(p)'
      BY <1>1 DEF PathInv, Turns, Months, Stored, Unlogged
    <2>4. Unlogged(p)' /\ RawKept(p)'
      BY <1>1 DEF PathInv, Turns, Stored, Unlogged, RawKept
    <2>5. Decided(p)'
      BY <1>1, <2>1 DEF PathInv, Turns, Stored, Decided, Unlogged
    <2>6. Kept(p)'
      BY <1>1, <2>1 DEF PathInv, Turns, Stored, Decided, Kept
    <2> QED BY <2>3, <2>4, <2>5, <2>6 DEF PathInv
  <1> QED BY <1>2, <1>3, <1>4, <1>5, PathStep

(* Metadata that stays brings the mail back to the recovery.               *)
LEMMA UnmetaFailsIInv ==
  ASSUME IInv, NEW k \in Kind, NEW p \in Path, UnmetaFails(k, p)
  PROVE  IInv'
  <1> USE Kinds DEF IInv, UnmetaFails, disk, logs, counters, local, Moved, Queueing, Fault
  <1>1. Moved(k, p, IF k = "request" THEN "reply" ELSE "none")
    BY GotoMoves DEF Pc
  <1>2. TypeOK'
    BY <1>1 DEF TypeOK
  <1>3. Global'
    BY <1>1, GlobalFrame
  <1>4. RowsStay /\ \A q \in Path : q # p => Untouched(q)
    BY <1>1 DEF Untouched, RowsStay, TypeOK
  <1>5. PathInv(p)'
    <2>1. Logged(p) => Logged(p)'
      BY <1>4, LoggedStays
    <2>3. Turns(p)' /\ Months(p)' /\ Stored(p)'
      BY <1>1 DEF PathInv, Turns, Months, Stored, Unlogged
    <2>4. Unlogged(p)' /\ RawKept(p)'
      BY <1>1 DEF PathInv, Turns, Stored, Unlogged, RawKept
    <2>5. Decided(p)'
      BY <1>1, <2>1 DEF PathInv, Turns, Stored, Decided, Unlogged
    <2>6. Kept(p)'
      BY <1>1, <2>1 DEF PathInv, Turns, Stored, Decided, Kept
    <2> QED BY <2>3, <2>4, <2>5, <2>6 DEF PathInv
  <1> QED BY <1>2, <1>3, <1>4, <1>5, PathStep

(* The precheck writes nothing that a path's invariant speaks of.          *)
LEMMA PrecheckIInv ==
  ASSUME IInv, NEW p \in Path, Precheck(p)
  PROVE  IInv'
  <1> USE Kinds DEF IInv, disk, logs, counters, local, Moved, Queueing, Answer
  <1>1. PICK s \in {"write", "none"} : Moved("request", p, s)
    BY GotoMoves DEF Precheck, Pc
  <1>2. /\ UNCHANGED <<active, disk, old, logs, over, refunded, usage, month, lock,
                       local, run, faults>>
        /\ pc["request"][p] = "new"
        /\ reply' = reply \/ reply' = [reply EXCEPT ![p] = "rejected"]
        /\ rejected' = rejected \/ rejected' = [rejected EXCEPT ![month] = @ + 1]
    BY DEF Precheck
  <1>3. TypeOK'
    <2>1. reply' \in [Path -> Reply]
      BY <1>2 DEF TypeOK, Reply
    <2>2. rejected' \in [Month -> Nat]
      BY <1>2 DEF TypeOK
    <2> QED BY <1>1, <1>2, <2>1, <2>2 DEF TypeOK
  <1>4. RowsStay /\ \A q \in Path : q # p => Untouched(q)
    BY <1>1, <1>2 DEF Untouched, RowsStay, TypeOK
  <1>5. PathInv(p)'
    <2>1. Logged(p) => Logged(p)'
      BY <1>4, LoggedStays
    <2>2. reply'[p] = reply[p] \/ reply'[p] = "rejected"
      BY <1>2 DEF TypeOK
    <2>3. Turns(p)' /\ Months(p)' /\ Stored(p)'
      BY <1>1, <1>2 DEF PathInv, Turns, Months, Stored
    <2>4. Unlogged(p)' /\ RawKept(p)'
      BY <1>1, <1>2 DEF PathInv, Turns, Stored, Unlogged, RawKept
    <2>5. Decided(p)'
      BY <1>1, <1>2, <2>1 DEF PathInv, Turns, Stored, Decided
    <2>6. Kept(p)'
      BY <1>1, <1>2, <2>1, <2>2 DEF PathInv, Turns, Kept
    <2> QED BY <2>3, <2>4, <2>5, <2>6 DEF PathInv
  <1>6. Global'
    BY <1>1, <1>2, GlobalFrame
  <1> QED BY <1>3, <1>4, <1>5, <1>6, PathStep

-----------------------------------------------------------------------------
(* The recovery up to the queue.                                           *)

(* The recovery takes up a listed mail only when the request is through.   *)
LEMMA NextPendingIInv ==
  ASSUME IInv, NEW p \in Path, NextPending(p)
  PROVE  IInv'
  <1> DEFINE s == IF old[p] THEN "lookup" ELSE pc["recovery"][p]
  <1> USE Kinds DEF IInv, disk, logs, counters, local, Moved, Queueing
  <1>1. Moved("recovery", p, s)
    <2>1. CASE old[p]
      BY <2>1, GotoMoves DEF NextPending, Pc
    <2>2. CASE ~old[p]
      BY <2>2 DEF NextPending, TypeOK
    <2> QED BY <2>1, <2>2
  <1>2. /\ UNCHANGED <<active, disk, old, logs, over, refunded, counters, month, lock,
                       local, reply, faults>>
        /\ run' = [run EXCEPT !.todo = @ \ {p}] /\ p \in run.todo
    BY DEF NextPending
  <1>3. /\ run'.on = run.on /\ run'.todo = run.todo \ {p}
        /\ run' \in [on : BOOLEAN, todo : SUBSET Path]
    BY <1>2 DEF TypeOK
  <1>4. TypeOK'
    BY <1>1, <1>2, <1>3 DEF TypeOK
  <1>5. RowsStay /\ \A q \in Path : q # p => Untouched(q)
    BY <1>1, <1>2, <1>3 DEF Untouched, RowsStay
  <1>6. PathInv(p)'
    <2> USE <1>1, <1>2, <1>3
    <2>1. Logged(p) => Logged(p)'
      BY <1>5, LoggedStays
    <2>2. pc["recovery"][p] # "none" => FALSE
      BY DEF PathInv, Turns
    <2>3. Turns(p)' /\ Months(p)' /\ Stored(p)'
      BY <2>2 DEF PathInv, Turns, Months, Stored
    <2>4. Unlogged(p)' /\ RawKept(p)'
      BY <2>2 DEF PathInv, Unlogged, RawKept
    <2>5. Decided(p)' /\ Kept(p)'
      BY <2>1, <2>2 DEF PathInv, Decided, Kept
    <2> QED BY <2>3, <2>4, <2>5 DEF PathInv
  <1>7. Global'
    <2>1. pc["recovery"][p] = "none"
      BY <1>2 DEF PathInv, Turns
    <2> QED BY <1>1, <1>2, <2>1, GlobalFrame
  <1> QED BY <1>4, <1>5, <1>6, <1>7, PathStep

(* A mail whose log refers to it needs only its metadata deleted.          *)
LEMMA LookUpLogIInv ==
  ASSUME IInv, NEW p \in Path, LookUpLog(p)
  PROVE  IInv'
  <1> DEFINE s == IF row[p] = "held" THEN "unmeta" ELSE "read"
             v == IF row[p] = "held" THEN "queued" ELSE verdict["recovery"][p]
  <1> USE Kinds DEF IInv, disk, logs, counters, local, Moved, Judged, Queueing
  <1>1. Moved("recovery", p, s)
    BY GotoMoves DEF LookUpLog, Pc
  <1>2. /\ UNCHANGED <<active, disk, old, logs, over, refunded, counters, month, lock,
                       tx, reply, run, faults>>
        /\ pc["recovery"][p] = "lookup"
    BY DEF LookUpLog
  <1>3. Judged("recovery", p, v)
    <2>1. CASE row[p] = "held"
      BY <2>1, VerdictMoves DEF LookUpLog, Verdict
    <2>2. CASE row[p] # "held"
      BY <2>2 DEF LookUpLog, TypeOK, Judged
    <2> QED BY <2>1, <2>2
  <1>4. TypeOK'
    BY <1>1, <1>2, <1>3 DEF TypeOK
  <1>5. RowsStay /\ \A q \in Path : q # p => Untouched(q)
    BY <1>1, <1>2, <1>3 DEF Untouched, RowsStay
  <1>6. PathInv(p)'
    <2> USE <1>1, <1>2, <1>3
    <2>1. /\ Logged(p) => Logged(p)'
          /\ row[p] = "held" => Logged(p)
      BY <1>5, LoggedStays DEF Logged
    <2>2. \/ row[p] = "held" /\ pc'["recovery"][p] = "unmeta" /\ verdict'["recovery"][p] = "queued"
          \/ /\ row[p] # "held" /\ pc'["recovery"][p] = "read"
             /\ verdict'["recovery"][p] = verdict["recovery"][p]
      OBVIOUS
    <2>3. /\ pc'["request"][p] = pc["request"][p]
          /\ verdict'["request"][p] = verdict["request"][p]
      OBVIOUS
    <2> HIDE <1>1, <1>3
    <2>4. Turns(p)' /\ Months(p)' /\ Stored(p)'
      BY <2>2, <2>3 DEF PathInv, Turns, Months, Stored
    <2>5. Unlogged(p)' /\ RawKept(p)'
      BY <2>2, <2>3 DEF PathInv, Turns, Unlogged, RawKept
    <2>6. Decided(p)' /\ Kept(p)'
      BY <2>1, <2>2, <2>3 DEF PathInv, Turns, Decided, Kept
    <2> QED BY <2>4, <2>5, <2>6 DEF PathInv
  <1>7. Global'
    BY <1>1, <1>2, <1>3, GlobalFrame
  <1> QED BY <1>4, <1>5, <1>6, <1>7, PathStep

(* A file that is gone was expired or deleted with its verdict.            *)
LEMMA ReadPendingIInv ==
  ASSUME IInv, NEW p \in Path, ReadPending(p)
  PROVE  IInv'
  <1> DEFINE s == IF file[p] THEN "queue" ELSE "none"
  <1> USE Kinds DEF IInv, disk, logs, counters, local, Moved, Queueing
  <1>1. Moved("recovery", p, s)
    BY GotoMoves DEF ReadPending, Pc
  <1>2. /\ UNCHANGED <<active, file, old, logs, over, refunded, counters, month, lock,
                       local, reply, run, faults>>
        /\ pc["recovery"][p] = "read"
        /\ meta' = IF file[p] THEN meta ELSE [meta EXCEPT ![p] = FALSE]
    BY DEF ReadPending
  <1>3. TypeOK'
    BY <1>1, <1>2 DEF TypeOK
  <1>4. RowsStay /\ \A q \in Path : q # p => Untouched(q)
    BY <1>1, <1>2 DEF Untouched, RowsStay, TypeOK
  <1>5. PathInv(p)'
    <2>1. Logged(p) => Logged(p)'
      BY <1>4, LoggedStays
    <2>2. file[p] => meta'[p] = meta[p]
      BY <1>2 DEF TypeOK
    <2>3. Turns(p)' /\ Months(p)' /\ Stored(p)'
      BY <1>1, <1>2, <2>2 DEF PathInv, Turns, Months, Stored
    <2>4. Unlogged(p)' /\ RawKept(p)'
      BY <1>1, <1>2 DEF PathInv, Turns, Unlogged, RawKept
    <2>5. Decided(p)' /\ Kept(p)'
      BY <1>1, <1>2, <2>1, <2>2 DEF PathInv, Turns, Decided, Kept
    <2> QED BY <2>3, <2>4, <2>5 DEF PathInv
  <1>6. Global'
    BY <1>1, <1>2, GlobalFrame
  <1> QED BY <1>3, <1>4, <1>5, <1>6, PathStep

(* Metadata is deleted once the verdict it waited for stands.              *)
LEMMA UnmetaIInv ==
  ASSUME IInv, NEW k \in Kind, NEW p \in Path, Unmeta(k, p)
  PROVE  IInv'
  <1> DEFINE s == IF k = "request" THEN "reply"
                  ELSE IF verdict[k][p] = "queued" THEN "none" ELSE "unlink"
  <1> USE Kinds DEF IInv, disk, logs, counters, local, Moved, Queueing
  <1>1. Moved(k, p, s)
    BY GotoMoves DEF Unmeta, Pc
  <1>2. /\ UNCHANGED <<active, file, old, logs, over, refunded, counters, month, lock,
                       local, reply, run, faults>>
        /\ pc[k][p] = "unmeta"
        /\ meta' = [meta EXCEPT ![p] = FALSE]
    BY DEF Unmeta
  <1>3. TypeOK'
    BY <1>1, <1>2 DEF TypeOK
  <1>4. RowsStay /\ \A q \in Path : q # p => Untouched(q)
    BY <1>1, <1>2 DEF Untouched, RowsStay, TypeOK
  <1>5. PathInv(p)'
    <2>1. Logged(p) => Logged(p)'
      BY <1>4, LoggedStays
    <2>2. meta'[p] = FALSE
      BY <1>2 DEF TypeOK
    <2>3. Turns(p)' /\ Months(p)' /\ Stored(p)'
      BY <1>1, <1>2, <2>2 DEF PathInv, Turns, Months, Stored
    <2>4. Unlogged(p)' /\ RawKept(p)'
      BY <1>1, <1>2 DEF PathInv, Turns, Unlogged, RawKept
    <2>5. Decided(p)'
      BY <1>1, <1>2, <2>1 DEF PathInv, Turns, Decided, RecoveryDrops
    <2>6. Kept(p)'
      BY <1>1, <1>2, <2>1 DEF PathInv, Turns, Decided, Kept, RecoveryDrops
    <2> QED BY <2>3, <2>4, <2>5, <2>6 DEF PathInv
  <1>6. Global'
    BY <1>1, <1>2, GlobalFrame
  <1> QED BY <1>3, <1>4, <1>5, <1>6, PathStep

-----------------------------------------------------------------------------
(* The queue transaction.                                                  *)

(* Nobody's lock is nobody's.                                              *)
LEMMA NoneIsNobody ==
  ASSUME NEW k \in Kind, NEW p \in Path
  PROVE  <<k, p>> # None
  <1>1. <<k, p>> \in {"request", "recovery"} \X Path
    BY DEF Kind
  <1> QED BY <1>1, InboundAssumption DEF InboundAssumption

(* The lock is exclusive.                                                  *)
LEMMA OneHolder ==
  ASSUME LockHeld, NEW k \in Kind, NEW p \in Path, pc[k][p] \in {"check", "commit"},
         NEW kk \in Kind, NEW q \in Path, kk # k \/ q # p
  PROVE  pc[kk][q] \notin {"check", "commit"}
  BY DEF LockHeld

(* When nobody is left in the transaction the lock may be free.            *)
LEMMA LockFreed ==
  ASSUME \A k \in Kind, p \in Path : pc'[k][p] \notin {"check", "commit"}, lock' = None
  PROVE  LockHeld' /\ DecisionStillTrue'
  BY NoneIsNobody DEF LockHeld, DecisionStillTrue

(* A mail that is not admitted goes where its verdict says; an admitted    *)
(* one has its month.                                                      *)
LEMMA AdmitIInv ==
  ASSUME IInv, NEW k \in Kind, NEW p \in Path, Admit(k, p)
  PROVE  IInv'
  <1> USE Kinds DEF IInv, disk, logs, counters, local, Moved, Judged, Queueing
  <1>1. /\ UNCHANGED <<active, disk, old, logs, over, refunded, counters, month, lock,
                       reply, run, faults>>
        /\ pc[k][p] = "queue"
    BY DEF Admit
  <1>2. CASE tx' = [tx EXCEPT ![k][p].decided = month] /\ Goto(k, p, "begin") /\ UNCHANGED verdict
    <2>1. Moved(k, p, "begin")
      BY <1>2, GotoMoves DEF Pc
    <2>2. /\ tx'[k][p].decided = month /\ month \in Month
          /\ \A kk \in Kind, q \in Path : kk # k \/ q # p => tx'[kk][q] = tx[kk][q]
      BY <1>2 DEF TypeOK
    <2>3. TypeOK'
      <3>1. tx[k][p] \in [decided : 0..MaxMonth, begun : 0..MaxMonth]
        BY DEF TypeOK
      <3>2. month \in 0..MaxMonth
        BY DEF TypeOK, Month
      <3>3. [tx[k][p] EXCEPT !.decided = month] \in [decided : 0..MaxMonth, begun : 0..MaxMonth]
        BY <3>1, <3>2
      <3>4. tx' \in [Kind -> [Path -> [decided : 0..MaxMonth, begun : 0..MaxMonth]]]
        BY <1>2, <3>3 DEF TypeOK
      <3> QED BY <1>1, <1>2, <2>1, <3>4 DEF TypeOK
    <2>4. RowsStay /\ \A q \in Path : q # p => Untouched(q)
      BY <1>1, <1>2, <2>1, <2>2 DEF Untouched, RowsStay
    <2>5. Logged(p) => Logged(p)'
      BY <2>4, LoggedStays
    <2>6. Turns(p)' /\ Months(p)' /\ Stored(p)' /\ Unlogged(p)' /\ RawKept(p)'
      BY <1>1, <1>2, <2>1, <2>2 DEF PathInv, Turns, Months, Stored, Unlogged, RawKept
    <2>7. Decided(p)' /\ Kept(p)'
      BY <1>1, <1>2, <2>1, <2>5 DEF PathInv, Decided, Kept
    <2>8. Global'
      BY <1>1, <1>2, <2>1, <2>2, GlobalFrame
    <2> QED BY <2>3, <2>4, <2>6, <2>7, <2>8, PathStep DEF PathInv
  <1>3. ASSUME NEW v \in {"alias_not_found", "refused", "temperror"},
               verdict' = [verdict EXCEPT ![k][p] = v], Goto(k, p, AfterQueue(k, v)), UNCHANGED tx
        PROVE  IInv'
    <2>1. /\ AfterQueue(k, v) \in {"unlink", "unmeta", "none"}
          /\ k = "request" => AfterQueue(k, v) = "unlink"
          /\ k = "recovery" => AfterQueue(k, v) \in {"unmeta", "none"}
          /\ AfterQueue(k, v) = "unmeta" => v \in RecoveryDrops
      BY <1>3 DEF AfterQueue, RouteDrops, RecoveryDrops
    <2>2. Moved(k, p, AfterQueue(k, v))
      BY <1>3, <2>1, GotoMoves DEF Pc
    <2>3. Judged(k, p, v)
      <3>1. v \in Verdict
        BY <1>3 DEF Verdict
      <3>2. verdict' = [verdict EXCEPT ![k][p] = v]
        BY <1>3
      <3> HIDE DEF Judged
      <3> QED BY <3>1, <3>2, VerdictMoves
    <2>4. TypeOK'
      BY <1>1, <1>3, <2>2, <2>3 DEF TypeOK
    <2>5. RowsStay /\ \A q \in Path : q # p => Untouched(q)
      BY <1>1, <1>3, <2>2, <2>3 DEF Untouched, RowsStay
    <2>6. Logged(p) => Logged(p)'
      BY <2>5, LoggedStays
    <2>7. Turns(p)' /\ Months(p)' /\ Stored(p)' /\ Unlogged(p)' /\ RawKept(p)'
      <3>1. Turns(p)' /\ Months(p)' /\ Stored(p)'
        BY <1>1, <1>3, <2>1, <2>2 DEF PathInv, Turns, Months, Stored
      <3>2. Unlogged(p)' /\ RawKept(p)'
        BY <1>1, <1>3, <2>1, <2>2, <2>3 DEF PathInv, Unlogged, RawKept
      <3> QED BY <3>1, <3>2
    <2>8. Decided(p)'
      BY <1>1, <1>3, <2>1, <2>2, <2>3, <2>6 DEF PathInv, Decided
    <2>9. Kept(p)'
      BY <1>1, <1>3, <2>1, <2>2, <2>3, <2>6 DEF PathInv, Stored, Kept
    <2>10. Global'
      BY <1>1, <1>3, <2>1, <2>2, <2>3, GlobalFrame
    <2> QED BY <2>4, <2>5, <2>7, <2>8, <2>9, <2>10, PathStep DEF PathInv
  <1> QED BY <1>2, <1>3 DEF Admit

(* The lock is taken when nobody is in the transaction.                    *)
LEMMA LockIInv ==
  ASSUME IInv, NEW k \in Kind, NEW p \in Path, Lock(k, p)
  PROVE  IInv'
  <1> USE Kinds DEF IInv, Lock, disk, logs, counters, local, Moved, Queueing
  <1>1. Moved(k, p, "check")
    BY GotoMoves DEF Pc
  <1>2. TypeOK'
    BY <1>1 DEF TypeOK
  <1>3. RowsStay /\ \A q \in Path : q # p => Untouched(q)
    BY <1>1 DEF Untouched, RowsStay
  <1>4. Logged(p) => Logged(p)'
    BY <1>3, LoggedStays
  <1>5. Turns(p)' /\ Months(p)' /\ Stored(p)' /\ Unlogged(p)' /\ RawKept(p)'
    BY <1>1 DEF PathInv, Turns, Months, Stored, Unlogged, RawKept
  <1>6. Decided(p)' /\ Kept(p)'
    BY <1>1, <1>4 DEF PathInv, Decided, Kept
  <1>7. Global'
    <2>1. \A kk \in Kind, q \in Path : pc[kk][q] \notin {"check", "commit"}
      BY NoneIsNobody DEF Global, LockHeld
    <2>2. LockHeld'
      BY <1>1, <2>1 DEF LockHeld
    <2>3. DecisionStillTrue'
      BY <1>1, <2>1 DEF DecisionStillTrue
    <2>4. LimitsKept' /\ OneLogPerMessage'
      BY DEF Global, LimitsKept, OneLogPerMessage, RecentOf
    <2> QED BY <2>2, <2>3, <2>4 DEF Global
  <1> QED BY <1>2, <1>3, <1>5, <1>6, <1>7, PathStep DEF PathInv

(* The cardinality of a set of recent logs is a number.                    *)
LEMMA RecentCount ==
  ASSUME TypeOK, NEW a
  PROVE  IsFiniteSet(RecentOf(a)) /\ Cardinality(RecentOf(a)) \in Nat
  <1>1. RecentOf(a) \subseteq Path
    BY DEF RecentOf, TypeOK
  <1> QED BY <1>1, InboundAssumption, FS_Subset, FS_CardinalityType DEF InboundAssumption

(* The checks under the lock: what they read is true now.                  *)
LEMMA CheckIInv ==
  ASSUME IInv, NEW k \in Kind, NEW p \in Path, Check(k, p)
  PROVE  IInv'
  <1> USE Kinds DEF IInv, disk, logs, counters, local, Moved, Judged, Queueing
  <1>1. /\ UNCHANGED <<active, disk, old, logs, over, refunded, counters, month, lock,
                       tx, reply, run, faults>>
        /\ pc[k][p] = "check" /\ Goto(k, p, "commit")
    BY DEF Check
  <1>2. PICK v \in {"quota", "refused", "duplicate", "rate_limited", "queued"} :
          /\ v = "duplicate" => Duplicate(p)
          /\ v = "queued" => /\ usage[tx[k][p].decided] < MonthlyLimit
                             /\ ~Duplicate(p)
                             /\ ~(Cardinality(RecentOf(AliasOf[p])) >= HourlyCap)
          /\ verdict' = [verdict EXCEPT ![k][p] = v]
    BY DEF Check
  <1>3. Moved(k, p, "commit")
    BY <1>1, GotoMoves DEF Pc
  <1>4. Judged(k, p, v)
    BY <1>2, VerdictMoves DEF Verdict
  <1>5. TypeOK'
    BY <1>1, <1>3, <1>4 DEF TypeOK
  <1>6. RowsStay /\ \A q \in Path : q # p => Untouched(q)
    BY <1>1, <1>3, <1>4 DEF Untouched, RowsStay
  <1>7. /\ Logged(p) => Logged(p)'
        /\ Duplicate(p) => Logged(p)
    BY <1>6, LoggedStays DEF Logged, Duplicate
  <1>8. Turns(p)' /\ Months(p)' /\ Stored(p)' /\ Unlogged(p)' /\ RawKept(p)'
    <2>1. Turns(p)' /\ Months(p)' /\ Stored(p)'
      BY <1>1, <1>3 DEF PathInv, Turns, Months, Stored
    <2>2. Unlogged(p)' /\ RawKept(p)'
      BY <1>1, <1>3, <1>4 DEF PathInv, Unlogged, RawKept
    <2> QED BY <2>1, <2>2
  <1>9. Decided(p)'
    BY <1>1, <1>2, <1>3, <1>4, <1>7 DEF PathInv, Decided
  <1>10. Kept(p)'
    BY <1>1, <1>3, <1>4, <1>7 DEF PathInv, Stored, Kept
  <1>11. Global'
    <2>1. LockHeld'
      BY <1>1, <1>3 DEF Global, LockHeld
    <2>2. \A a : RecentOf(a)' = RecentOf(a)
      BY <1>1 DEF RecentOf
    <2>3. Duplicate(p)' <=> Duplicate(p)
      BY <1>1 DEF Duplicate
    <2>4. v = "queued" => Cardinality(RecentOf(AliasOf[p])) < HourlyCap
      BY <1>2, RecentCount, InboundAssumption DEF InboundAssumption
    <2>5. DecisionStillTrue'
      <3> SUFFICES ASSUME NEW kk \in Kind, NEW q \in Path,
                          pc'[kk][q] = "commit", verdict'[kk][q] = "queued"
                   PROVE  /\ usage'[tx'[kk][q].decided] < MonthlyLimit
                          /\ Cardinality(RecentOf(AliasOf[q]))' < HourlyCap
                          /\ ~Duplicate(q)'
        BY DEF DecisionStillTrue
      <3>1. kk = k /\ q = p
        BY <1>1, <1>3, OneHolder DEF Global
      <3>2. v = "queued"
        BY <1>4, <3>1
      <3> QED BY <1>1, <1>2, <2>2, <2>3, <2>4, <3>1, <3>2
    <2>6. LimitsKept' /\ OneLogPerMessage'
      BY <1>1, <2>2 DEF Global, LimitsKept, OneLogPerMessage
    <2> QED BY <2>1, <2>5, <2>6 DEF Global
  <1> QED BY <1>5, <1>6, <1>8, <1>9, <1>10, <1>11, PathStep DEF PathInv

(* What the transaction writes keeps the limits and one log per message,   *)
(* because its decision is still true.                                     *)
LEMMA ApplyEffects ==
  ASSUME IInv, NEW k \in Kind, NEW p \in Path, pc[k][p] = "commit", Apply(k, p)
  PROVE  /\ row' \in [Path -> Row] /\ received' \in [Path -> 0..MaxMonth]
         /\ recent' \in SUBSET Path
         /\ usage' \in [Month -> Nat] /\ rejected' \in [Month -> Nat]
         /\ \A q \in Path : q # p => row'[q] = row[q] /\ received'[q] = received[q]
         /\ verdict[k][p] = "queued" => row'[p] = "held" /\ received'[p] \in Month
         /\ verdict[k][p] # "queued" => row'[p] = row[p] /\ received'[p] = received[p]
         /\ RowsStay /\ LimitsKept' /\ OneLogPerMessage'
  <1> USE DEF IInv, Global, logs, counters
  <1>0. tx[k][p].decided \in Month /\ tx[k][p].begun \in Month
    BY DEF PathInv, Months
  <1>1. CASE verdict[k][p] = "queued"
    <2>0. /\ row' = [row EXCEPT ![p] = "held"]
          /\ received' = [received EXCEPT ![p] = tx[k][p].begun]
          /\ recent' = recent \cup {p}
          /\ usage' = [usage EXCEPT ![tx[k][p].decided] = @ + 1]
          /\ UNCHANGED rejected
      BY <1>1 DEF Apply
    <2>1. /\ usage[tx[k][p].decided] < MonthlyLimit
          /\ Cardinality(RecentOf(AliasOf[p])) < HourlyCap
          /\ ~Duplicate(p)
      BY <1>1 DEF DecisionStillTrue
    <2>2. row' \in [Path -> Row] /\ recent' \in SUBSET Path /\ rejected' \in [Month -> Nat]
      BY <2>0 DEF TypeOK, Row
    <2>3. received' \in [Path -> 0..MaxMonth]
      BY <1>0, <2>0 DEF TypeOK, Month
    <2>4. usage' \in [Month -> Nat]
      BY <1>0, <2>0 DEF TypeOK
    <2>5. /\ \A q \in Path : q # p => row'[q] = row[q] /\ received'[q] = received[q]
          /\ row'[p] = "held" /\ received'[p] \in Month
      BY <1>0, <2>0 DEF TypeOK
    <2>6. \A m \in Month : usage'[m] \in 0..MonthlyLimit
      BY <1>0, <2>0, <2>1, InboundAssumption DEF TypeOK, LimitsKept, InboundAssumption
    <2>7. ASSUME NEW a \in Alias PROVE Cardinality(RecentOf(a)') <= HourlyCap
      <3>1. CASE a = AliasOf[p]
        <4>1. RecentOf(a)' = RecentOf(a) \cup {p}
          BY <2>0, <3>1 DEF RecentOf
        <4>2. IsFiniteSet(RecentOf(a)) /\ Cardinality(RecentOf(a)) \in Nat
          BY RecentCount
        <4>3. Cardinality(RecentOf(a) \cup {p}) <= Cardinality(RecentOf(a)) + 1
          BY <4>2, FS_AddElement
        <4>4. IsFiniteSet(RecentOf(a) \cup {p})
          BY <4>2, FS_AddElement
        <4>5. Cardinality(RecentOf(a) \cup {p}) \in Nat
          BY <4>4, FS_CardinalityType
        <4> QED BY <2>1, <3>1, <4>1, <4>2, <4>3, <4>5, InboundAssumption DEF InboundAssumption
      <3>2. CASE a # AliasOf[p]
        <4>1. RecentOf(a)' = RecentOf(a)
          BY <2>0, <3>2 DEF RecentOf
        <4> QED BY <4>1 DEF LimitsKept
      <3> QED BY <3>1, <3>2
    <2>8. OneLogPerMessage'
      BY <2>1, <2>5 DEF OneLogPerMessage, Duplicate
    <2>9. RowsStay
      BY <2>5 DEF RowsStay
    <2> QED BY <1>1, <2>2, <2>3, <2>4, <2>5, <2>6, <2>7, <2>8, <2>9 DEF LimitsKept
  <1>2. CASE verdict[k][p] # "queued"
    <2>1. UNCHANGED <<row, received, recent, usage>>
      BY <1>2 DEF Apply
    <2>2. rejected' \in [Month -> Nat]
      <3>1. rejected' = rejected \/ rejected' = [rejected EXCEPT ![tx[k][p].decided] = @ + 1]
        BY <1>2 DEF Apply
      <3>2. rejected \in [Month -> Nat]
        BY DEF TypeOK
      <3> QED BY <1>0, <3>1, <3>2
    <2>3. LimitsKept' /\ OneLogPerMessage'
      BY <2>1 DEF LimitsKept, OneLogPerMessage, RecentOf
    <2> QED BY <1>2, <2>1, <2>2, <2>3 DEF TypeOK, RowsStay
  <1> QED BY <1>1, <1>2

(* A transaction is forgotten: nobody else's is.                           *)
LEMMA TxForgotten ==
  ASSUME TypeOK, NEW k \in Kind, NEW p \in Path, tx' = [tx EXCEPT ![k][p] = NoTx]
  PROVE  /\ tx' \in [Kind -> [Path -> [decided : 0..MaxMonth, begun : 0..MaxMonth]]]
         /\ \A kk \in Kind, q \in Path : kk # k \/ q # p => tx'[kk][q] = tx[kk][q]
  <1>1. NoTx \in [decided : 0..MaxMonth, begun : 0..MaxMonth]
    BY InboundAssumption DEF NoTx, InboundAssumption
  <1> QED BY <1>1 DEF TypeOK

(* COMMIT writes what was decided and frees the lock.                      *)
LEMMA CommitIInv ==
  ASSUME IInv, NEW k \in Kind, NEW p \in Path, Commit(k, p)
  PROVE  IInv'
  <1> DEFINE v == verdict[k][p]
             s == AfterQueue(k, v)
  <1> USE Kinds DEF IInv, disk, logs, counters, local, Queueing
  <1>1. /\ UNCHANGED <<active, disk, old, over, refunded, month, verdict, reply, run, faults>>
        /\ pc[k][p] = "commit" /\ Apply(k, p) /\ lock' = None
        /\ tx' = [tx EXCEPT ![k][p] = NoTx] /\ Goto(k, p, s)
    BY DEF Commit
  <1>2. v \in {"quota", "refused", "duplicate", "rate_limited", "queued"}
    BY <1>1 DEF PathInv, Decided
  <1>3. /\ k = "request" => s = IF v = "queued" THEN "unmeta"
                                ELSE IF v = "rate_limited" THEN "reply" ELSE "unlink"
        /\ k = "recovery" => s = IF v = "rate_limited" THEN "none" ELSE "unmeta"
    BY <1>2 DEF AfterQueue, RouteDrops, RecoveryDrops
  <1>4. Moved(k, p, s)
    <2>1. s \in Pc
      BY <1>3 DEF Pc
    <2> QED BY <1>1, <2>1, GotoMoves
  <1>5. TypeOK'
    BY <1>1, <1>4, ApplyEffects, TxForgotten DEF TypeOK, Moved
  <1>6. RowsStay /\ \A q \in Path : q # p => Untouched(q)
    BY <1>1, <1>4, ApplyEffects, TxForgotten DEF Untouched, Moved
  <1>7. PathInv(p)'
    <2>1. Logged(p) => Logged(p)'
      BY <1>6, LoggedStays
    <2>2. /\ v = "queued" => row'[p] = "held" /\ received'[p] \in Month
          /\ v # "queued" => row'[p] = row[p] /\ received'[p] = received[p]
      BY <1>1, ApplyEffects
    <2>3. v = "queued" => Logged(p)'
      BY <2>2 DEF Logged
    <2>4. /\ meta[p] /\ file[p]
          /\ \A kk \in Kind : kk # k => pc[kk][p] = "none"
      BY <1>1 DEF PathInv, Stored, Turns
    <2>5. /\ pc'[k][p] = s /\ \A kk \in Kind : kk # k => pc'[kk][p] = "none"
      BY <1>4, <2>4 DEF Moved
    <2>6. Turns(p)'
      BY <1>1, <1>3, <2>4, <2>5 DEF PathInv, Turns
    <2>7. Months(p)' /\ Stored(p)'
      BY <1>1, <1>2, <1>3, <2>2, <2>4, <2>5 DEF PathInv, Months, Stored
    <2>8. Unlogged(p)' /\ RawKept(p)'
      BY <1>1, <1>2, <1>3, <2>2, <2>4, <2>5 DEF PathInv, Unlogged, RawKept
    <2>9. Decided(p)'
      BY <1>1, <1>2, <1>3, <2>1, <2>2, <2>3, <2>4, <2>5 DEF PathInv, Unlogged, Decided,
         RecoveryDrops
    <2>10. Kept(p)'
      BY <1>1, <1>2, <1>3, <2>1, <2>3, <2>4, <2>5 DEF PathInv, Kept
    <2> QED BY <2>6, <2>7, <2>8, <2>9, <2>10 DEF PathInv
  <1>8. Global'
    <2>1. \A kk \in Kind, q \in Path : pc'[kk][q] \notin {"check", "commit"}
      BY <1>1, <1>3, <1>4, OneHolder DEF Global, Moved
    <2> QED BY <1>1, <2>1, LockFreed, ApplyEffects DEF Global
  <1> QED BY <1>5, <1>6, <1>7, <1>8, PathStep

(* A queue that throws leaves file and metadata, whether or not its COMMIT *)
(* got through.                                                            *)
LEMMA QueueThrowsIInv ==
  ASSUME IInv, NEW k \in Kind, NEW p \in Path, QueueThrows(k, p)
  PROVE  IInv'
  <1> USE Kinds DEF IInv, disk, logs, counters, local, Queueing
  <1>1. /\ UNCHANGED <<active, disk, old, over, refunded, month, run>>
        /\ pc[k][p] \in Queueing /\ Fault
        /\ verdict' = [verdict EXCEPT ![k][p] = "none"]
        /\ lock' = (IF lock = <<k, p>> THEN None ELSE lock)
        /\ tx' = [tx EXCEPT ![k][p] = NoTx] /\ Goto(k, p, "none")
        /\ reply' = [reply EXCEPT ![p] = IF k = "request" THEN "error" ELSE @]
    BY DEF QueueThrows
  <1>2. (pc[k][p] = "commit" /\ Apply(k, p)) \/ UNCHANGED <<row, received, recent, usage, rejected>>
    BY DEF QueueThrows
  <1>3. Moved(k, p, "none")
    BY <1>1, GotoMoves DEF Pc
  <1>4. Judged(k, p, "none")
    BY <1>1, VerdictMoves DEF Verdict
  <1>5. /\ row' \in [Path -> Row] /\ received' \in [Path -> 0..MaxMonth]
        /\ recent' \in SUBSET Path
        /\ usage' \in [Month -> Nat] /\ rejected' \in [Month -> Nat]
        /\ RowsStay /\ LimitsKept' /\ OneLogPerMessage'
        /\ \A q \in Path : q # p => row'[q] = row[q] /\ received'[q] = received[q]
        /\ (row'[p] = "held" /\ received'[p] \in Month)
             \/ (row'[p] = row[p] /\ received'[p] = received[p])
    <2>1. CASE pc[k][p] = "commit" /\ Apply(k, p)
      BY <2>1, ApplyEffects
    <2>2. CASE UNCHANGED <<row, received, recent, usage, rejected>>
      BY <2>2 DEF TypeOK, RowsStay, Global, LimitsKept, OneLogPerMessage, RecentOf
    <2> QED BY <1>2, <2>1, <2>2
  <1>6. reply' \in [Path -> Reply] /\ (k = "request" => reply'[p] = "error")
        /\ (k # "request" => reply'[p] = reply[p]) /\ \A q \in Path : q # p => reply'[q] = reply[q]
    BY <1>1 DEF TypeOK, Reply
  <1>7. TypeOK'
    <2>1. lock' \in (Kind \X Path) \cup {None} /\ faults' \in Nat
      BY <1>1 DEF TypeOK, Fault
    <2>2. tx' \in [Kind -> [Path -> [decided : 0..MaxMonth, begun : 0..MaxMonth]]]
      BY <1>1, TxForgotten
    <2> QED BY <1>1, <1>3, <1>5, <1>6, <1>4, <2>1, <2>2 DEF TypeOK, Moved, Judged
  <1>8. \A q \in Path : q # p => Untouched(q)
    BY <1>1, <1>3, <1>5, <1>6, <1>4, TxForgotten DEF Untouched, Moved, Judged
  <1>9. PathInv(p)'
    <2>1. Logged(p) => Logged(p)'
      BY <1>5, LoggedStays
    <2>4. /\ meta[p] /\ file[p]
          /\ \A kk \in Kind : kk # k => pc[kk][p] = "none"
      BY <1>1 DEF PathInv, Stored, Turns
    <2>5. \A kk \in Kind : pc'[kk][p] = "none"
      BY <1>3, <2>4 DEF Moved
    <2>6. Turns(p)' /\ Months(p)' /\ Stored(p)'
      BY <1>1, <1>5, <2>4, <2>5 DEF PathInv, Turns, Months, Stored
    <2>7. Unlogged(p)' /\ RawKept(p)' /\ Decided(p)'
      BY <1>1, <1>5, <2>4, <2>5 DEF PathInv, Unlogged, RawKept, Decided
    <2>8. Kept(p)'
      BY <1>1, <1>6, <2>1, <2>4, <2>5 DEF PathInv, Kept
    <2> QED BY <2>6, <2>7, <2>8 DEF PathInv
  <1>10. Global'
    <2>1. CASE pc[k][p] \in {"check", "commit"}
      <3>1. lock' = None
        BY <1>1, <2>1 DEF Global, LockHeld
      <3>2. \A kk \in Kind, q \in Path : pc'[kk][q] \notin {"check", "commit"}
        BY <2>1, <1>3, OneHolder DEF Global, Moved
      <3> QED BY <1>5, <3>1, <3>2, LockFreed DEF Global
    <2>2. CASE pc[k][p] \notin {"check", "commit"}
      <3>1. lock' = lock
        BY <1>1, <2>2 DEF Global, LockHeld
      <3>2. UNCHANGED <<row, received, recent, usage>>
        BY <1>2, <2>2
      <3> QED BY <1>1, <1>3, <2>2, <3>1, <3>2, <1>4, TxForgotten, GlobalFrame DEF Moved, Judged
    <2> QED BY <2>1, <2>2
  <1> QED BY <1>5, <1>7, <1>8, <1>9, <1>10, PathStep

(* A crash ends all actors, and rolls the open transaction back unless its *)
(* COMMIT got through.                                                     *)
LEMMA CrashIInv == ASSUME IInv, Crash PROVE IInv'
  <1> USE Kinds DEF IInv, disk, logs, counters, local, Queueing
  <1>1. /\ UNCHANGED <<active, disk, old, over, refunded, month, reply>>
        /\ verdict' = [k \in Kind |-> [p \in Path |-> "none"]]
        /\ Fault /\ lock' = None
        /\ tx' = [k \in Kind |-> [p \in Path |-> NoTx]]
        /\ run' = [on |-> FALSE, todo |-> {}]
        /\ pc' = [k \in Kind |-> [p \in Path |-> IF pc[k][p] = "new" THEN "new" ELSE "none"]]
    BY DEF Crash
  <1>2. (\E k \in Kind, p \in Path : pc[k][p] = "commit" /\ Apply(k, p))
          \/ UNCHANGED <<row, received, recent, usage, rejected>>
    BY DEF Crash
  <1>3. /\ row' \in [Path -> Row] /\ received' \in [Path -> 0..MaxMonth]
        /\ recent' \in SUBSET Path
        /\ usage' \in [Month -> Nat] /\ rejected' \in [Month -> Nat]
        /\ RowsStay /\ LimitsKept' /\ OneLogPerMessage'
        /\ \A q \in Path :
             \/ row'[q] = row[q] /\ received'[q] = received[q]
             \/ row'[q] = "held" /\ received'[q] \in Month /\ file[q] /\ pc["request"][q] # "new"
    <2>1. CASE UNCHANGED <<row, received, recent, usage, rejected>>
      BY <2>1 DEF TypeOK, RowsStay, Global, LimitsKept, OneLogPerMessage, RecentOf
    <2>2. CASE \E k \in Kind, p \in Path : pc[k][p] = "commit" /\ Apply(k, p)
      <3>1. PICK k \in Kind, p \in Path : pc[k][p] = "commit" /\ Apply(k, p)
        BY <2>2
      <3>2. file[p] /\ pc["request"][p] # "new"
        BY <3>1 DEF PathInv, Stored, Turns
      <3> QED BY <3>1, <3>2, ApplyEffects
    <2> QED BY <1>2, <2>1, <2>2
  <1>4. /\ pc' \in [Kind -> [Path -> Pc]]
        /\ \A k \in Kind, q \in Path : pc'[k][q] = IF pc[k][q] = "new" THEN "new" ELSE "none"
    BY <1>1 DEF Pc
  <1>5. TypeOK'
    <2>1. NoTx \in [decided : 0..MaxMonth, begun : 0..MaxMonth]
      BY InboundAssumption DEF NoTx, InboundAssumption
    <2>2. tx' \in [Kind -> [Path -> [decided : 0..MaxMonth, begun : 0..MaxMonth]]]
      BY <1>1, <2>1
    <2>3. run' \in [on : BOOLEAN, todo : SUBSET Path] /\ faults' \in Nat
      BY <1>1 DEF Fault, TypeOK
    <2>4. verdict' \in [Kind -> [Path -> Verdict]]
      BY <1>1 DEF Verdict
    <2> QED BY <1>1, <1>3, <1>4, <2>2, <2>3, <2>4 DEF TypeOK
  <1>6. ASSUME NEW q \in Path PROVE PathInv(q)'
    <2>1. Logged(q) => Logged(q)'
      BY <1>3, LoggedStays
    <2>2. /\ pc'["recovery"][q] = "none" /\ pc'["request"][q] \in {"new", "none"}
          /\ pc'["request"][q] = "new" => pc["request"][q] = "new"
          /\ pc["request"][q] = "none" => pc'["request"][q] = "none"
      BY <1>4 DEF PathInv, Turns
    <2>3. \A k \in Kind : pc'[k][q] \in {"new", "none"}
      BY <2>2
    <2>4. Turns(q)'
      BY <1>1, <2>2 DEF PathInv, Turns
    <2>5. Months(q)' /\ Stored(q)'
      BY <1>1, <1>3, <2>2, <2>3 DEF PathInv, Months, Stored
    <2>6. Unlogged(q)' /\ RawKept(q)' /\ Decided(q)'
      BY <1>1, <1>3, <2>2, <2>3 DEF PathInv, Unlogged, RawKept, Decided
    <2>7. Kept(q)'
      BY <1>1, <2>1, <2>2 DEF PathInv, Kept
    <2> QED BY <2>4, <2>5, <2>6, <2>7 DEF PathInv
  <1>7. Global'
    <2>1. \A k \in Kind, q \in Path : pc'[k][q] \notin {"check", "commit"}
      BY <1>4
    <2> QED BY <1>1, <1>3, <2>1, LockFreed DEF Global
  <1> QED BY <1>5, <1>6, <1>7

-----------------------------------------------------------------------------
(* The surroundings.                                                       *)

(* Cleanup: the file of a log whose retention is over, then its path, then *)
(* the row.  None of it makes a duplicate.                                 *)
LEMMA CleanupIInv ==
  ASSUME IInv, NEW p \in Path, ExpireFile(p) \/ ExpireRow(p) \/ PurgeRow(p)
  PROVE  IInv'
  <1> USE Kinds DEF IInv, disk, logs, counters, local, Queueing
  <1>1. /\ UNCHANGED <<active, meta, old, received, recent, refunded, counters, month, lock, pc,
                       local, reply, run, faults>>
        /\ \A q \in Path : q # p => row'[q] = row[q] /\ file'[q] = file[q] /\ over'[q] = over[q]
        /\ file' \in [Path -> BOOLEAN] /\ over' \in [Path -> BOOLEAN] /\ row' \in [Path -> Row]
    BY DEF ExpireFile, ExpireRow, PurgeRow, TypeOK, Row
  <1>2. \/ row[p] = "held" /\ row'[p] = "held" /\ over'[p] = TRUE
        \/ /\ row[p] = "held" /\ row'[p] = "expired" /\ file'[p] = file[p] /\ over'[p] = over[p]
        \/ /\ row[p] = "expired" /\ row'[p] = "purged" /\ file'[p] = file[p] /\ over'[p] = over[p]
    BY DEF ExpireFile, ExpireRow, PurgeRow, TypeOK
  <1>3. TypeOK'
    BY <1>1 DEF TypeOK
  <1>4. RowsStay /\ \A q \in Path : q # p => Untouched(q)
    BY <1>1, <1>2 DEF RowsStay, Untouched
  <1>5. PathInv(p)'
    <2>1. Logged(p)'
      BY <1>2 DEF Logged
    <2>2. \A k \in Kind : pc[k][p] \notin Queueing \/ (k = "recovery" /\ row[p] = "expired")
      BY <1>2 DEF PathInv, Unlogged
    <2>3. Turns(p)' /\ Months(p)'
      BY <1>1, <1>2 DEF PathInv, Turns, Months
    <2>4. Stored(p)'
      BY <1>1, <1>2, <2>2 DEF PathInv, Stored, Unlogged
    <2>5. Unlogged(p)' /\ RawKept(p)'
      BY <1>1, <1>2 DEF PathInv, Unlogged, RawKept
    <2>6. Decided(p)'
      BY <1>1, <1>2, <2>1 DEF PathInv, Decided
    <2>7. Kept(p)'
      BY <1>1, <2>1 DEF PathInv, Kept
    <2> QED BY <2>3, <2>4, <2>5, <2>6, <2>7 DEF PathInv
  <1>6. Global'
    <2>1. \A q \in Path : row'[q] \in {"held", "expired"} => row[q] \in {"held", "expired"}
      BY <1>1, <1>2
    <2>2. LockHeld' /\ LimitsKept'
      BY <1>1 DEF Global, LockHeld, LimitsKept, RecentOf
    <2>3. \A q \in Path : Duplicate(q)' => Duplicate(q)
      BY <2>1 DEF Duplicate
    <2>4. DecisionStillTrue'
      BY <1>1, <2>3 DEF Global, DecisionStillTrue, RecentOf
    <2>5. OneLogPerMessage'
      BY <2>1 DEF Global, OneLogPerMessage
    <2> QED BY <2>2, <2>4, <2>5 DEF Global
  <1> QED BY <1>3, <1>4, <1>5, <1>6, PathStep

(* A refund only lowers a counter.                                         *)
LEMMA RefundChargeIInv ==
  ASSUME IInv, NEW p \in Path, RefundCharge(p)
  PROVE  IInv'
  <1> USE Kinds DEF IInv, RefundCharge, disk, logs, counters, local
  <1>1. received[p] \in Month
    BY DEF PathInv, Months
  <1>2. usage' \in [Month -> Nat] /\ \A m \in Month : usage'[m] <= usage[m]
    <2> DEFINE c == usage[received[p]]
    <2>1. usage \in [Month -> Nat]
          /\ usage' = [usage EXCEPT ![received[p]] = IF c = 0 THEN 0 ELSE c - 1]
      BY DEF TypeOK
    <2>2. c \in Nat
      BY <1>1, <2>1
    <2>3. (IF c = 0 THEN 0 ELSE c - 1) \in Nat /\ (IF c = 0 THEN 0 ELSE c - 1) <= c
      BY <2>2
    <2> QED BY <1>1, <2>1, <2>3
  <1>3. TypeOK'
    BY <1>2 DEF TypeOK
  <1>4. \A q \in Path : PathInv(q)'
    BY UntouchedKeeps DEF Untouched, RowsStay
  <1>5. Global'
    <2>1. LockHeld' /\ OneLogPerMessage'
      BY DEF Global, LockHeld, OneLogPerMessage
    <2>2. \A a : RecentOf(a)' = RecentOf(a)
      BY DEF RecentOf
    <2>3. \A q \in Path : Duplicate(q)' <=> Duplicate(q)
      BY DEF Duplicate
    <2>4. LimitsKept'
      <3>1. \A m \in Month : usage[m] \in 0..MonthlyLimit /\ usage'[m] \in Nat
        BY <1>2 DEF Global, LimitsKept
      <3>2. \A m \in Month : usage'[m] \in 0..MonthlyLimit
        BY <1>2, <3>1, InboundAssumption DEF InboundAssumption
      <3> QED BY <2>2, <3>2 DEF Global, LimitsKept
    <2>5. DecisionStillTrue'
      <3> SUFFICES ASSUME NEW k \in Kind, NEW q \in Path,
                          pc[k][q] = "commit", verdict[k][q] = "queued"
                   PROVE  /\ usage'[tx[k][q].decided] < MonthlyLimit
                          /\ Cardinality(RecentOf(AliasOf[q]))' < HourlyCap
                          /\ ~Duplicate(q)'
        BY DEF DecisionStillTrue
      <3>1. tx[k][q].decided \in Month
        BY DEF PathInv, Months
      <3>2. /\ usage[tx[k][q].decided] < MonthlyLimit
            /\ Cardinality(RecentOf(AliasOf[q])) < HourlyCap
            /\ ~Duplicate(q)
        BY DEF Global, DecisionStillTrue
      <3>3. /\ usage[tx[k][q].decided] \in Nat /\ usage'[tx[k][q].decided] \in Nat
            /\ usage'[tx[k][q].decided] <= usage[tx[k][q].decided]
        BY <1>2, <3>1 DEF TypeOK
      <3> QED BY <2>2, <2>3, <3>2, <3>3, InboundAssumption DEF InboundAssumption
    <2> QED BY <2>1, <2>4, <2>5 DEF Global
  <1> QED BY <1>3, <1>4, <1>5

(* Metadata grows old only when its request is through.                    *)
LEMMA MetaGrowsOldIInv ==
  ASSUME IInv, NEW p \in Path, MetaGrowsOld(p)
  PROVE  IInv'
  <1> USE Kinds DEF IInv, MetaGrowsOld, disk, logs, counters, local
  <1>1. TypeOK' /\ old'[p] = TRUE
    BY DEF TypeOK
  <1>2. RowsStay /\ \A q \in Path : q # p => Untouched(q)
    BY DEF TypeOK, RowsStay, Untouched
  <1>3. PathInv(p)'
    <2>1. Turns(p)' /\ Months(p)' /\ Stored(p)' /\ Unlogged(p)' /\ RawKept(p)'
      BY <1>1 DEF PathInv, Turns, Months, Stored, Unlogged, RawKept
    <2>2. Decided(p)' /\ Kept(p)'
      BY <1>2, LoggedStays DEF PathInv, Decided, Kept
    <2> QED BY <2>1, <2>2 DEF PathInv
  <1>4. Global'
    BY GlobalFrame
  <1> QED BY <1>1, <1>2, <1>3, <1>4, PathStep

(* The recovery's list is made when no recovery runs.                      *)
LEMMA RunIInv == ASSUME IInv, ListPending \/ RecoveryEnds PROVE IInv'
  <1> USE Kinds DEF IInv, disk, logs, counters, local
  <1>1. UNCHANGED <<active, disk, old, logs, over, refunded, counters, month, lock, pc, tx,
                    reply, faults>>
    BY DEF ListPending, RecoveryEnds
  <1>2. /\ run' \in [on : BOOLEAN, todo : SUBSET Path]
        /\ \A p \in Path : /\ p \in run'.todo => run'.on /\ meta[p]
                           /\ pc["recovery"][p] = "none"
    <2>1. CASE ListPending
      BY <2>1 DEF ListPending, PathInv, Turns
    <2>2. CASE RecoveryEnds
      BY <2>2 DEF RecoveryEnds, Recovering, TypeOK
    <2> QED BY <2>1, <2>2
  <1>3. /\ verdict' \in [Kind -> [Path -> Verdict]]
        /\ \A p \in Path : verdict'["request"][p] = verdict["request"][p]
    <2>1. CASE ListPending
      BY <2>1 DEF ListPending, TypeOK
    <2>2. CASE RecoveryEnds
      BY <2>2 DEF RecoveryEnds, TypeOK, Verdict
    <2> QED BY <2>1, <2>2
  <1>4. TypeOK'
    BY <1>1, <1>2, <1>3 DEF TypeOK
  <1>5. ASSUME NEW p \in Path PROVE PathInv(p)'
    <2>1. Logged(p) => Logged(p)'
      BY <1>1 DEF Logged
    <2>2. Turns(p)' /\ Months(p)' /\ Stored(p)' /\ Unlogged(p)' /\ RawKept(p)'
      BY <1>1, <1>2, <1>3 DEF PathInv, Turns, Months, Stored, Unlogged, RawKept
    <2>3. Decided(p)' /\ Kept(p)'
      BY <1>1, <1>2, <1>3, <2>1 DEF PathInv, Decided, Kept
    <2> QED BY <2>2, <2>3 DEF PathInv
  <1>6. Global'
    BY <1>1, <1>2, <1>3, GlobalFrame
  <1> QED BY <1>4, <1>5, <1>6

(* Time passes and an owner switches an alias.                             *)
LEMMA ClockIInv ==
  ASSUME IInv, HourPasses \/ NewMonth \/ \E a \in Alias : SetAliasStatus(a)
  PROVE  IInv'
  <1> USE Kinds DEF IInv, disk, logs, counters, local
  <1>1. /\ UNCHANGED <<disk, old, row, received, over, refunded, counters, lock, pc, local, reply,
                       run, faults>>
        /\ recent' = recent \/ recent' = {}
    BY DEF HourPasses, NewMonth, SetAliasStatus
  <1>2. active' \in [Alias -> BOOLEAN] /\ month' \in Month
    <2>1. CASE HourPasses
      BY <2>1 DEF HourPasses, TypeOK
    <2>2. CASE NewMonth
      BY <2>2, InboundAssumption DEF NewMonth, TypeOK, Month, InboundAssumption
    <2>3. ASSUME NEW a \in Alias, SetAliasStatus(a)
          PROVE  active' \in [Alias -> BOOLEAN] /\ month' \in Month
      BY <2>3 DEF SetAliasStatus, TypeOK
    <2> QED BY <2>1, <2>2, <2>3
  <1>3. TypeOK'
    BY <1>1, <1>2 DEF TypeOK
  <1>4. \A q \in Path : PathInv(q)'
    BY <1>1, UntouchedKeeps DEF Untouched, RowsStay
  <1>5. Global'
    <2>1. \A a : /\ Cardinality(RecentOf(a)') <= Cardinality(RecentOf(a))
                 /\ Cardinality(RecentOf(a)) \in Nat /\ Cardinality(RecentOf(a)') \in Nat
      <3> TAKE a
      <3>1. RecentOf(a)' \subseteq RecentOf(a)
        BY <1>1 DEF RecentOf
      <3>2. IsFiniteSet(RecentOf(a)) /\ Cardinality(RecentOf(a)) \in Nat
        BY RecentCount
      <3>3. IsFiniteSet(RecentOf(a)') /\ Cardinality(RecentOf(a)') <= Cardinality(RecentOf(a))
        BY <3>1, <3>2, FS_Subset
      <3>4. Cardinality(RecentOf(a)') \in Nat
        BY <3>3, FS_CardinalityType
      <3> QED BY <3>2, <3>3, <3>4
    <2>3. LockHeld' /\ OneLogPerMessage'
      BY <1>1 DEF Global, LockHeld, OneLogPerMessage
    <2>4. LimitsKept'
      BY <1>1, <2>1, InboundAssumption DEF Global, LimitsKept, InboundAssumption
    <2>5. \A q \in Path : Duplicate(q)' <=> Duplicate(q)
      BY <1>1 DEF Duplicate
    <2>6. DecisionStillTrue'
      BY <1>1, <2>1, <2>5, InboundAssumption DEF Global, DecisionStillTrue, InboundAssumption
    <2> QED BY <2>3, <2>4, <2>6 DEF Global
  <1> QED BY <1>3, <1>4, <1>5

-----------------------------------------------------------------------------
(* Every step keeps the invariant.                                         *)
LEMMA NextIInv == IInv /\ [Next]_vars => IInv'
  <1> SUFFICES ASSUME IInv, [Next]_vars PROVE IInv'
    OBVIOUS
  <1>1. CASE UNCHANGED vars
    <2>1. TypeOK'
      BY <1>1 DEF vars, IInv, TypeOK, disk, logs, counters, local
    <2>2. Global'
      BY <1>1, GlobalFrame DEF vars, IInv, disk, logs, counters, local
    <2>3. \A q \in Path : PathInv(q)'
      BY <1>1, UntouchedKeeps DEF vars, IInv, disk, logs, counters, local, Untouched, RowsStay
    <2> QED BY <2>1, <2>2, <2>3 DEF IInv
  <1>2. ASSUME NEW p \in Path, RequestStep(p) \/ RecoveryStep(p) \/ LogStep(p) \/ MetaGrowsOld(p)
        PROVE  IInv'
    <2>1. CASE RequestStep(p)
      BY <2>1, PrecheckIInv, WriteRawIInv, WriteRawFailsIInv, WriteMetaIInv, WriteMetaFailsIInv,
         SendReplyIInv DEF RequestStep
    <2>2. CASE RecoveryStep(p)
      BY <2>2, NextPendingIInv, LookUpLogIInv, ReadPendingIInv, RecoveryThrowsIInv DEF RecoveryStep
    <2>3. CASE LogStep(p)
      BY <2>3, CleanupIInv, RefundChargeIInv DEF LogStep
    <2> QED BY <1>2, <2>1, <2>2, <2>3, MetaGrowsOldIInv
  <1>3. ASSUME NEW k \in Kind, NEW p \in Path, QueueStep(k, p) PROVE IInv'
    BY <1>3, AdmitIInv, BeginIInv, LockIInv, CheckIInv, CommitIInv, QueueThrowsIInv, UnlinkIInv,
       UnlinkFailsIInv, UnmetaIInv, UnmetaFailsIInv DEF QueueStep
  <1> QED BY <1>1, <1>2, <1>3, RunIInv, ClockIInv, CrashIInv DEF Next

(* IInv is an invariant of the way in: every variable keeps its type, and  *)
(* request, recovery and transaction respect each other's turns.           *)
THEOREM Inductive == Spec => []IInv
  BY InitIInv, NextIInv, PTL DEF Spec

(* What a queue transaction read under the owner's lock is still true when *)
(* it commits (processInboundEmail.ts).                                    *)
THEOREM DecisionStillTrueHolds == Spec => []DecisionStillTrue
  <1>1. IInv => DecisionStillTrue
    BY DEF IInv, Global
  <1> QED BY <1>1, Inductive, PTL

(* No month is charged beyond its limit and no alias beyond its hourly     *)
(* cap, whatever is refunded meanwhile.                                    *)
THEOREM LimitsKeptHolds == Spec => []LimitsKept
  <1>1. IInv => LimitsKept
    BY DEF IInv, Global
  <1> QED BY <1>1, Inductive, PTL

(* A message of an alias has one log, however often it is resent,          *)
(* recovered or its commit was in doubt.                                   *)
THEOREM OneLogPerMessageHolds == Spec => []OneLogPerMessage
  <1>1. IInv => OneLogPerMessage
    BY DEF IInv, Global
  <1> QED BY <1>1, Inductive, PTL

(* A log keeps the raw e-mail it refers to until its retention is over.    *)
THEOREM LogKeepsRawFileHolds == Spec => []LogKeepsRawFile
  <1>1. IInv => LogKeepsRawFile
    BY DEF IInv, PathInv, RawKept, LogKeepsRawFile
  <1> QED BY <1>1, Inductive, PTL

-----------------------------------------------------------------------------
(* How the record of an acknowledged mail can go away.                     *)

(* A step on other mails, or one that leaves a mail's files or its log     *)
(* alone, leaves its record alone.                                         *)
LEMMA RecordStays ==
  ASSUME NEW q \in Path, RowsStay, Recorded(q),
         Logged(q) \/ (meta'[q] = meta[q] /\ file'[q] = file[q])
  PROVE  Recorded(q)'
  BY DEF RowsStay, Recorded, Logged

(* No step takes back that a log was written.                              *)
LEMMA NextRowsStay == ASSUME IInv, Next PROVE RowsStay
  <1> USE DEF IInv, logs, disk, counters
  <1>1. ASSUME NEW k \in Kind, NEW p \in Path,
               (pc[k][p] = "commit" /\ Apply(k, p)) \/ UNCHANGED logs
        PROVE  RowsStay
    BY <1>1 DEF Apply, RowsStay, TypeOK
  <1>2. CASE \E k \in Kind, p \in Path : QueueStep(k, p)
    BY <1>1, <1>2 DEF QueueStep, Admit, Begin, Lock, Check, Commit, QueueThrows, Apply,
                      Unlink, UnlinkFails, Unmeta, UnmetaFails, RowsStay, TypeOK
  <1>3. CASE \E p \in Path : RequestStep(p) \/ RecoveryStep(p) \/ LogStep(p) \/ MetaGrowsOld(p)
    BY <1>3 DEF RequestStep, Precheck, WriteRaw, WriteRawFails, WriteMeta, WriteMetaFails,
                SendReply, RecoveryStep, NextPending, LookUpLog, ReadPending, RecoveryThrows,
                LogStep, ExpireFile, ExpireRow, PurgeRow, RefundCharge, MetaGrowsOld,
                RowsStay, TypeOK
  <1>4. CASE ListPending \/ RecoveryEnds \/ HourPasses \/ NewMonth
               \/ \E a \in Alias : SetAliasStatus(a)
    BY <1>4 DEF ListPending, RecoveryEnds, HourPasses, NewMonth, SetAliasStatus, RowsStay
  <1>5. CASE Crash
    <2>1. CASE UNCHANGED logs
      BY <2>1 DEF RowsStay
    <2>2. CASE \E k \in Kind, p \in Path : pc[k][p] = "commit" /\ Apply(k, p)
      BY <1>1, <2>2
    <2> QED BY <1>5, <2>1, <2>2 DEF Crash
  <1> QED BY <1>2, <1>3, <1>4, <1>5 DEF Next

(* The two steps that may lose an acknowledged mail p.                     *)
Losing(p) ==
  \/ pc["request"][p] = "reply" /\ verdict["request"][p] = "alias_not_found"
  \/ /\ pc["recovery"][p] = "unmeta"
     /\ verdict["recovery"][p] \in {"alias_not_found", "refused", "quota"}

(* What the request of p does to its files happens before the answer.      *)
LEMMA RequestLoses ==
  ASSUME IInv, NEW p \in Path, RequestStep(p), RowsStay,
         NEW q \in Path, ~Lost(q), Lost(q)'
  PROVE  Losing(q)
  <1> USE Kinds DEF IInv, disk, logs, local
  <1>1. CASE SendReply(p)
    <2>1. meta' = meta /\ file' = file
      BY <1>1 DEF SendReply
    <2>2. q = p /\ reply[p] # "accepted"
      BY <1>1, <2>1, RecordStays DEF SendReply, Answer, Lost, TypeOK
    <2>3. ReplyFor(verdict["request"][p]) = "accepted" /\ ~Recorded(p)
      BY <1>1, <2>1, <2>2, RecordStays DEF SendReply, Answer, Lost, TypeOK
    <2>4. pc["request"][p] = "reply" /\ ~Logged(p) /\ ~(meta[p] /\ file[p])
      BY <1>1, <2>3 DEF SendReply, Recorded, Logged
    <2>5. verdict["request"][p] = "alias_not_found"
      BY <2>3, <2>4 DEF ReplyFor, PathInv, Decided, TypeOK, Verdict
    <2> QED BY <2>2, <2>4, <2>5 DEF Losing
  <1>2. CASE ~SendReply(p)
    <2>1. /\ \A r \in Path : r # p => meta'[r] = meta[r] /\ file'[r] = file[r]
          /\ pc["request"][p] # "none"
          /\ reply' = reply \/ reply' = [reply EXCEPT ![p] = "error"]
               \/ reply' = [reply EXCEPT ![p] = "rejected"]
      BY <1>2 DEF RequestStep, Precheck, WriteRaw, WriteRawFails, WriteMeta, WriteMetaFails,
                  Answer, TypeOK
    <2>2. reply[q] = "accepted"
      BY <2>1 DEF Lost, TypeOK
    <2>3. q # p
      BY <2>1, <2>2 DEF PathInv, Kept
    <2> QED BY <2>1, <2>2, <2>3, RecordStays DEF Lost
  <1> QED BY <1>1, <1>2

(* The recovery drops metadata only of a mail it has decided about, or     *)
(* whose file is gone, and a file only after its metadata.                 *)
LEMMA RecoveryLoses ==
  ASSUME IInv, NEW p \in Path, RecoveryStep(p) \/ MetaGrowsOld(p) \/ LogStep(p), RowsStay,
         NEW q \in Path, ~Lost(q), Lost(q)'
  PROVE  Losing(q)
  <1> USE Kinds DEF IInv, disk, logs, local
  <1>1. reply' = reply
    BY DEF RecoveryStep, NextPending, LookUpLog, ReadPending, RecoveryThrows, MetaGrowsOld,
           LogStep, ExpireFile, ExpireRow, PurgeRow, RefundCharge
  <1>2. Recorded(q) /\ ~Recorded(q)'
    BY <1>1 DEF Lost
  <1>3. CASE meta' = meta /\ file' = file
    BY <1>2, <1>3, RecordStays
  <1>4. CASE ReadPending(p) /\ ~file[p]
    <2>1. file' = file /\ \A r \in Path : r # p => meta'[r] = meta[r]
      BY <1>4 DEF ReadPending, TypeOK
    <2>2. q # p \/ Logged(q)
      BY <1>2, <1>4 DEF Recorded, Logged
    <2> QED BY <1>2, <2>1, <2>2, RecordStays
  <1>5. CASE ExpireFile(p)
    <2>1. meta' = meta /\ \A r \in Path : r # p => file'[r] = file[r]
      BY <1>5 DEF ExpireFile, TypeOK
    <2>2. Logged(p)
      BY <1>5 DEF ExpireFile, Logged
    <2> QED BY <1>2, <2>1, <2>2, RecordStays
  <1> QED BY <1>3, <1>4, <1>5 DEF RecoveryStep, NextPending, LookUpLog, ReadPending,
             RecoveryThrows, MetaGrowsOld, LogStep, ExpireRow, PurgeRow, RefundCharge

(* The queue code of a request runs before the answer; the recovery's ends *)
(* the record of a mail when it deletes the metadata.                      *)
LEMMA QueueLoses ==
  ASSUME IInv, NEW k \in Kind, NEW p \in Path, QueueStep(k, p), RowsStay,
         NEW q \in Path, ~Lost(q), Lost(q)'
  PROVE  Losing(q)
  <1> USE Kinds DEF IInv, disk, logs, local
  <1>1. /\ reply' = reply \/ (k = "request" /\ reply' = [reply EXCEPT ![p] = "error"])
             \/ (k # "request" /\ reply' = [reply EXCEPT ![p] = reply[p]])
        /\ pc[k][p] # "none"
    BY DEF QueueStep, Admit, Begin, Lock, Check, Commit, QueueThrows, Unlink, UnlinkFails,
           Unmeta, UnmetaFails
  <1>2. reply[q] = "accepted" /\ Recorded(q) /\ ~Recorded(q)'
    BY <1>1 DEF Lost, TypeOK
  <1>3. CASE meta' = meta /\ file' = file
    BY <1>2, <1>3, RecordStays
  <1>4. CASE Unlink(k, p) \/ Unmeta(k, p)
    <2>1. /\ \A r \in Path : r # p => meta'[r] = meta[r] /\ file'[r] = file[r]
          /\ pc[k][p] \in {"unlink", "unmeta"}
      BY <1>4 DEF Unlink, Unmeta, TypeOK
    <2>2. q = p /\ ~Logged(p)
      BY <1>2, <2>1, RecordStays
    <2>3. k = "recovery" /\ meta[p]
      BY <1>1, <1>2, <2>2 DEF PathInv, Kept, Recorded, Logged
    <2>4. pc["recovery"][p] = "unmeta"
      BY <2>1, <2>3 DEF PathInv, Stored
    <2>5. verdict["recovery"][p] \in {"alias_not_found", "refused", "quota"}
      BY <2>2, <2>4 DEF PathInv, Decided, RecoveryDrops
    <2> QED BY <2>2, <2>4, <2>5 DEF Losing
  <1> QED BY <1>3, <1>4 DEF QueueStep, Admit, Begin, Lock, Check, Commit, QueueThrows,
             UnlinkFails, UnmetaFails

(* The record of an acknowledged mail goes away only where the queue found *)
(* no active alias (raw.ts) or the recovery rejects the mail (retry.ts):   *)
(* no crash, error, lost COMMIT, resend or race of the two loses one.      *)
THEOREM LostOnlyByDecisionHolds == Spec => LostOnlyByDecision
  <1>1. ASSUME IInv, [Next]_vars, NEW q \in Path, ~Lost(q), Lost(q)'
        PROVE  Losing(q)
    <2> USE Kinds DEF disk
    <2>1. CASE UNCHANGED vars
      BY <1>1, <2>1 DEF vars, logs, Lost, Recorded
    <2>2. CASE Next
      <3>1. RowsStay
        BY <1>1, <2>2, NextRowsStay
      <3>2. CASE ListPending \/ RecoveryEnds \/ HourPasses \/ NewMonth \/ Crash
                   \/ \E a \in Alias : SetAliasStatus(a)
        <4>1. UNCHANGED <<reply, meta, file>>
          BY <3>2 DEF ListPending, RecoveryEnds, HourPasses, NewMonth, Crash, SetAliasStatus
        <4> QED BY <1>1, <3>1, <4>1, RecordStays DEF Lost
      <3> QED BY <1>1, <2>2, <3>1, <3>2, RequestLoses, RecoveryLoses, QueueLoses DEF Next
    <2> QED BY <1>1, <2>1, <2>2
  <1>2. IInv /\ [Next]_vars =>
          [\A p \in Path : ~Lost(p) /\ Lost(p)' =>
             \/ /\ pc["request"][p] = "reply"
                /\ verdict["request"][p] = "alias_not_found"
             \/ /\ pc["recovery"][p] = "unmeta"
                /\ verdict["recovery"][p] \in {"alias_not_found", "refused", "quota"}]_vars
    BY <1>1 DEF Losing
  <1> QED BY <1>2, Inductive, PTL DEF Spec, LostOnlyByDecision
=============================================================================
