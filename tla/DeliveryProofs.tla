--------------------------- MODULE DeliveryProofs ---------------------------
(***************************************************************************)
(* Proofs about Delivery, for every set of logs and aliases and all        *)
(* bounds.  IInv is the inductive invariant: the types, and for each log   *)
(* a conjunction whose parts are named for the mechanism of the code they  *)
(* describe.                                                               *)
(***************************************************************************)
EXTENDS Delivery, FiniteSetTheorems, TLAPS

(* A log without a row has nothing else either.                            *)
AbsentClean(l) ==
  status[l] = "none" =>
    /\ ~path[l] /\ ~file[l] /\ age[l] = 0
    /\ rows[l] = NoRows /\ refunds[l] = 0 /\ landed[l] = 0
    /\ pc["live"][l] = "none" /\ pc["retry"][l] = "none"

(* Who may work on a log: the tracker, the ages and the worker's run.      *)
KindPc(l) ==
  /\ pc["live"][l] \notin {"inspect", "close"}
  /\ pc["retry"][l] \notin {"queued", "prep", "route"}

JobOwner(l) ==
  /\ pc["retry"][l] # "none" => worker.pc = "busy" /\ worker.log = l
  /\ worker.pc \in {"claim", "busy"} /\ worker.log = l
       => pc["live"][l] = "none" /\ age[l] >= 1
  /\ l \in worker.todo => age[l] >= 1
  /\ pc["live"][l] = "queued" => age[l] = 0

(* Before its outcome is recorded a job works on a log that is not         *)
(* delivered.                                                              *)
Undelivered(l) ==
  \A k \in Kind :
    pc[k][l] \in {"queued", "prep", "route", "inspect", "close", "send", "persist"}
      => status[l] # "delivered"

(* Copies: at most one acceptance is ahead of the excused ones, and only   *)
(* while it is recorded or about to be.                                    *)
Holds(k, l) == pc[k][l] = "persist" /\ out[k][l] = "ok"

CopiesExcused(l) ==
  /\ landed[l] <= 1 + excused[l]
  /\ (status[l] # "delivered" /\ \A k \in Kind : ~Holds(k, l)) => landed[l] <= excused[l]
  /\ \A k \in Kind : /\ pc[k][l] = "threw" => landed[l] <= excused[l]
                     /\ Holds(k, l) => landed[l] >= 1

(* The refund is the last thing a job does, on a closed log.               *)
RefundLast(l) ==
  /\ refunds[l] <= 1
  /\ refunds[l] = 1 => /\ status[l] = "permanently_failed"
                       /\ pc["live"][l] = "none" /\ pc["retry"][l] = "none"
  /\ \A k \in Kind : pc[k][l] = "refund" => status[l] = "permanently_failed"

(* Attempt rows: the live job writes the first one, a retry the next one   *)
(* after those it counted.                                                 *)
AttemptRows(l) ==
  /\ rows[l].counted <= MaxRetries
  /\ pc["live"][l] \in {"queued", "prep", "route", "send", "persist"} => rows[l] = NoRows
  /\ pc["retry"][l] \in {"send", "persist"} =>
       /\ seen[l].n = rows[l].n /\ seen[l].counted = rows[l].counted
       /\ rows[l].counted < MaxRetries
  /\ status[l] = "delivered" => rows[l].ok /\ landed[l] >= 1

(* The raw file and its reference.                                         *)
CleanupOrder(l) ==
  /\ l \in cleaning => path[l] /\ ~file[l] /\ age[l] = 2
  /\ path[l] /\ ~file[l] => age[l] = 2
  /\ file[l] => path[l]

LogInv(l) ==
  /\ AbsentClean(l) /\ KindPc(l) /\ JobOwner(l) /\ Undelivered(l)
  /\ CopiesExcused(l) /\ RefundLast(l) /\ AttemptRows(l) /\ CleanupOrder(l)

IInv == TypeOK /\ \A l \in Log : LogInv(l)

-----------------------------------------------------------------------------
(* Frames.                                                                 *)

(* A step leaves everything about a log but the worker's hold on it alone. *)
Untouched(l) ==
  /\ status'[l] = status[l] /\ path'[l] = path[l] /\ file'[l] = file[l]
  /\ rows'[l] = rows[l] /\ refunds'[l] = refunds[l] /\ age'[l] = age[l]
  /\ seen'[l] = seen[l] /\ landed'[l] = landed[l] /\ excused'[l] = excused[l]
  /\ pc'["live"][l] = pc["live"][l] /\ pc'["retry"][l] = pc["retry"][l]
  /\ out'["live"][l] = out["live"][l] /\ out'["retry"][l] = out["retry"][l]
  /\ l \in cleaning' => l \in cleaning

(* An untouched log keeps its invariant.                                   *)
LEMMA UntouchedKeeps ==
  ASSUME NEW l \in Log, LogInv(l), Untouched(l), JobOwner(l)'
  PROVE  LogInv(l)'
  <1>1. AbsentClean(l)' /\ KindPc(l)' /\ RefundLast(l)' /\ CleanupOrder(l)'
    BY DEF LogInv, Untouched, AbsentClean, KindPc, RefundLast, CleanupOrder, Kind
  <1>2. Undelivered(l)' /\ CopiesExcused(l)' /\ AttemptRows(l)'
    BY DEF LogInv, Untouched, Undelivered, CopiesExcused, Holds, AttemptRows, Kind
  <1> QED BY <1>1, <1>2 DEF LogInv

(* A step that touches no log disturbs only the worker's bookkeeping.      *)
LEMMA WorkerFrame ==
  ASSUME IInv, TypeOK', UNCHANGED <<db, jobs, file, age, cleaning, history>>,
         \A l \in Log : JobOwner(l)'
  PROVE  IInv'
  <1>1. \A l \in Log : Untouched(l)
    BY DEF Untouched, db, jobs, history
  <1> QED BY <1>1, UntouchedKeeps DEF IInv

(* A job moves: only its own control state changes.                        *)
LEMMA GotoMoves ==
  ASSUME TypeOK, NEW k \in Kind, NEW l \in Log, NEW p \in Pc, Goto(k, l, p)
  PROVE  /\ pc' \in [Kind -> [Log -> Pc]]
         /\ pc'[k][l] = p
         /\ \A kk \in Kind, ll \in Log : kk # k \/ ll # l => pc'[kk][ll] = pc[kk][ll]
  BY DEF TypeOK, Goto

(* Initially no log has a row, a job or a copy.                            *)
LEMMA InitIInv == Init => IInv
  <1> SUFFICES ASSUME Init PROVE IInv
    OBVIOUS
  <1> USE DeliveryAssumption DEF Init
  <1>1. TypeOK
    BY DEF TypeOK, Status, Kind, Pc, Out, Rows, NoRows, Idle
  <1>2. \A l \in Log : AbsentClean(l) /\ KindPc(l) /\ JobOwner(l) /\ Undelivered(l)
    BY DEF AbsentClean, KindPc, JobOwner, Undelivered, Kind, Idle
  <1>3. \A l \in Log : CopiesExcused(l) /\ RefundLast(l) /\ AttemptRows(l) /\ CleanupOrder(l)
    BY DEF CopiesExcused, Holds, RefundLast, AttemptRows, CleanupOrder, Kind, NoRows
  <1> QED BY <1>1, <1>2, <1>3 DEF IInv, LogInv

(* The post-send transaction writes a new row, within the budget, with the *)
(* status of the outcome: the job's attempt number is always a fresh one.  *)
LEMMA RecordFacts ==
  ASSUME IInv, NEW k \in Kind, NEW l \in Log, pc[k][l] = "persist", RecordOutcome(k, l)
  PROVE  /\ rows' \in [Log -> Rows]
         /\ status' = [status EXCEPT ![l] = OutcomeStatus(k, l)]
         /\ OutcomeStatus(k, l) \in {"delivered", "permanently_failed", "failed"}
         /\ OutcomeStatus(k, l) = "delivered" <=> out[k][l] = "ok"
         /\ \A m \in Log \ {l} : rows'[m] = rows[m]
         /\ rows'[l].counted <= MaxRetries
         /\ out[k][l] = "ok" => rows'[l].ok
         /\ UNCHANGED <<path, prepared, refunds>>
  <1> USE DeliveryAssumption DEF IInv
  <1>1. rows[l] \in Rows /\ seen[l] \in [n : Nat, counted : Nat] /\ LogInv(l)
    BY DEF TypeOK
  <1>2. /\ AttemptNo(k, l) \in Nat /\ AttemptNo(k, l) > rows[l].n
        /\ rows[l].counted < MaxRetries
    <2>1. CASE k = "live"
      BY <1>1, <2>1 DEF LogInv, AttemptRows, AttemptNo, NoRows
    <2>2. CASE k = "retry"
      BY <1>1, <2>2 DEF LogInv, AttemptRows, AttemptNo, Rows
    <2> QED BY <2>1, <2>2 DEF Kind
  <1> DEFINE new == [n |-> rows[l].n + 1,
                     counted |-> rows[l].counted
                                 + (IF out[k][l] \in {"counted", "permanent"} THEN 1 ELSE 0),
                     ok |-> rows[l].ok \/ out[k][l] = "ok"]
  <1>3. rows' = [rows EXCEPT ![l] = new]
    <2>1. ~(AttemptNo(k, l) <= rows[l].n)
      BY <1>1, <1>2 DEF Rows
    <2> QED BY <2>1, Zenon DEF RecordOutcome, InsertAttempt
  <1>4. new \in Rows /\ new.counted <= MaxRetries /\ (out[k][l] = "ok" => new.ok)
    <2>1. /\ rows[l].n + 1 \in Nat
          /\ rows[l].counted + (IF out[k][l] \in {"counted", "permanent"} THEN 1 ELSE 0) \in Nat
          /\ rows[l].counted + (IF out[k][l] \in {"counted", "permanent"} THEN 1 ELSE 0)
               <= MaxRetries
      BY <1>1, <1>2 DEF Rows
    <2>2. (rows[l].ok \/ out[k][l] = "ok") \in BOOLEAN
      OBVIOUS
    <2> QED BY <2>1, <2>2, Zenon DEF Rows
  <1>5. /\ rows' \in [Log -> Rows] /\ rows'[l] = new
        /\ \A m \in Log \ {l} : rows'[m] = rows[m]
    BY <1>3, <1>4 DEF TypeOK
  <1>6. /\ OutcomeStatus(k, l) \in {"delivered", "permanently_failed", "failed"}
        /\ OutcomeStatus(k, l) = "delivered" <=> out[k][l] = "ok"
    BY DEF OutcomeStatus
  <1>7. /\ status' = [status EXCEPT ![l] = OutcomeStatus(k, l)]
        /\ UNCHANGED <<path, prepared, refunds>>
    BY DEF RecordOutcome, SetStatus
  <1> QED BY <1>4, <1>5, <1>6, <1>7

(* A new row: it was absent, so no job, row or file interferes.            *)
LEMMA AcceptIInv ==
  ASSUME IInv, NEW l \in Log, Accept(l)
  PROVE  IInv'
  <1> USE DeliveryAssumption DEF IInv
  <1>0. /\ pc' \in [Kind -> [Log -> Pc]]
        /\ pc'["live"][l] = "queued"
        /\ \A kk \in Kind, ll \in Log : kk # "live" \/ ll # l => pc'[kk][ll] = pc[kk][ll]
    BY GotoMoves DEF Accept, CreateLog, SetStatus, history, Kind, Pc
  <1>1. TypeOK'
    BY <1>0 DEF TypeOK, Status, NonFinal, Final, Kind, Pc, Accept, CreateLog,
       SetStatus, history, Out, Rows
  <1>2. \A m \in Log : JobOwner(m)'
    <2> SUFFICES ASSUME NEW m \in Log PROVE JobOwner(m)'
      OBVIOUS
    <2>1. LogInv(m)
      OBVIOUS
    <2>2. CASE m = l
      BY <1>0, <2>1, <2>2 DEF LogInv, JobOwner, AbsentClean, KindPc, TypeOK, Kind,
         Accept, CreateLog, SetStatus, history
    <2>3. CASE m # l
      BY <1>0, <2>1, <2>3 DEF LogInv, JobOwner, TypeOK, Kind, Accept, CreateLog,
         SetStatus, history
    <2> QED BY <2>2, <2>3
  <1>3. \A m \in Log \ {l} : Untouched(m)
    BY <1>0 DEF Untouched, TypeOK, Status, NonFinal, Final, Kind, Pc, Accept,
       CreateLog, SetStatus, history
  <1>4. LogInv(l)'
    <2> USE DEF LogInv
    <2>1. AbsentClean(l)' /\ KindPc(l)' /\ CleanupOrder(l)'
      BY <1>0 DEF AbsentClean, KindPc, CleanupOrder, TypeOK, Status, NonFinal, Final,
         Kind, Pc, Accept, CreateLog, SetStatus, history
    <2>2. Undelivered(l)' /\ RefundLast(l)'
      BY <1>0 DEF Undelivered, RefundLast, KindPc, JobOwner, AbsentClean, TypeOK,
         Status, NonFinal, Final, Kind, Pc, Accept, CreateLog, SetStatus, history
    <2>3. CopiesExcused(l)'
      BY <1>0 DEF CopiesExcused, Holds, Undelivered, KindPc, JobOwner, AbsentClean,
         TypeOK, Status, NonFinal, Final, Kind, Pc, Accept, CreateLog, SetStatus,
         history
    <2>4. AttemptRows(l)'
      BY <1>0 DEF AttemptRows, CopiesExcused, Holds, KindPc, JobOwner, AbsentClean,
         NoRows, TypeOK, Status, NonFinal, Final, Kind, Pc, Accept, CreateLog,
         SetStatus, history
    <2> QED BY <1>2, <2>1, <2>2, <2>3, <2>4
  <1> QED BY <1>1, <1>2, <1>3, <1>4, UntouchedKeeps

(* The job starts, or the log is left to the worker; it is still young.    *)
LEMMA DispatchIInv ==
  ASSUME IInv, NEW l \in Log, Dispatch(l)
  PROVE  IInv'
  <1> USE DeliveryAssumption DEF IInv
  <1>0. /\ pc' \in [Kind -> [Log -> Pc]]
        /\ pc'["live"][l] \in {"none", "prep"}
        /\ \A kk \in Kind, ll \in Log : kk # "live" \/ ll # l => pc'[kk][ll] = pc[kk][ll]
    BY GotoMoves DEF Dispatch, db, history, Kind, Pc
  <1>1. TypeOK'
    BY <1>0 DEF TypeOK, Status, NonFinal, Final, Kind, Pc, Dispatch, db, history, Out,
       Rows
  <1>2. \A m \in Log : JobOwner(m)'
    <2> SUFFICES ASSUME NEW m \in Log PROVE JobOwner(m)'
      OBVIOUS
    <2>1. LogInv(m)
      OBVIOUS
    <2>2. CASE m = l
      BY <1>0, <2>1, <2>2 DEF LogInv, JobOwner, AbsentClean, KindPc, TypeOK, Kind,
         Dispatch, db, history
    <2>3. CASE m # l
      BY <1>0, <2>1, <2>3 DEF LogInv, JobOwner, TypeOK, Kind, Dispatch, db, history
    <2> QED BY <2>2, <2>3
  <1>3. \A m \in Log \ {l} : Untouched(m)
    BY <1>0 DEF Untouched, TypeOK, Status, NonFinal, Final, Kind, Pc, Dispatch, db,
       history
  <1>4. LogInv(l)'
    <2> USE DEF LogInv
    <2>1. AbsentClean(l)' /\ KindPc(l)' /\ CleanupOrder(l)'
      BY <1>0 DEF AbsentClean, KindPc, CleanupOrder, TypeOK, Status, NonFinal, Final,
         Kind, Pc, Dispatch, db, history
    <2>2. Undelivered(l)' /\ RefundLast(l)'
      BY <1>0 DEF Undelivered, RefundLast, KindPc, JobOwner, AbsentClean, TypeOK,
         Status, NonFinal, Final, Kind, Pc, Dispatch, db, history
    <2>3. CopiesExcused(l)'
      BY <1>0 DEF CopiesExcused, Holds, Undelivered, KindPc, JobOwner, AbsentClean,
         TypeOK, Status, NonFinal, Final, Kind, Pc, Dispatch, db, history
    <2>4. AttemptRows(l)'
      BY <1>0 DEF AttemptRows, CopiesExcused, Holds, KindPc, JobOwner, AbsentClean,
         NoRows, TypeOK, Status, NonFinal, Final, Kind, Pc, Dispatch, db, history
    <2> QED BY <1>2, <2>1, <2>2, <2>3, <2>4
  <1> QED BY <1>1, <1>2, <1>3, <1>4, UntouchedKeeps

(* The log becomes processing, or the job ends on an inactive alias.       *)
LEMMA PrepareIInv ==
  ASSUME IInv, NEW l \in Log, Prepare(l)
  PROVE  IInv'
  <1> USE DeliveryAssumption DEF IInv
  <1>0. /\ pc' \in [Kind -> [Log -> Pc]]
        /\ pc'["live"][l] \in {"none", "route"}
        /\ \A kk \in Kind, ll \in Log : kk # "live" \/ ll # l => pc'[kk][ll] = pc[kk][ll]
    BY GotoMoves DEF Prepare, SetStatus, history, Kind, Pc
  <1>1. TypeOK'
    BY <1>0 DEF TypeOK, Status, NonFinal, Final, Kind, Pc, Prepare, SetStatus, history,
       Out, Rows
  <1>2. \A m \in Log : JobOwner(m)'
    <2> SUFFICES ASSUME NEW m \in Log PROVE JobOwner(m)'
      OBVIOUS
    <2>1. LogInv(m)
      OBVIOUS
    <2>2. CASE m = l
      BY <1>0, <2>1, <2>2 DEF LogInv, JobOwner, AbsentClean, KindPc, TypeOK, Kind,
         Prepare, SetStatus, history
    <2>3. CASE m # l
      BY <1>0, <2>1, <2>3 DEF LogInv, JobOwner, TypeOK, Kind, Prepare, SetStatus,
         history
    <2> QED BY <2>2, <2>3
  <1>3. \A m \in Log \ {l} : Untouched(m)
    BY <1>0 DEF Untouched, TypeOK, Status, NonFinal, Final, Kind, Pc, Prepare,
       SetStatus, history
  <1>4. LogInv(l)'
    <2> USE DEF LogInv
    <2>1. AbsentClean(l)' /\ KindPc(l)' /\ CleanupOrder(l)'
      BY <1>0 DEF AbsentClean, KindPc, CleanupOrder, TypeOK, Status, NonFinal, Final,
         Kind, Pc, Prepare, SetStatus, history
    <2>2. Undelivered(l)' /\ RefundLast(l)'
      BY <1>0 DEF Undelivered, RefundLast, KindPc, JobOwner, AbsentClean, TypeOK,
         Status, NonFinal, Final, Kind, Pc, Prepare, SetStatus, history
    <2>3. CopiesExcused(l)'
      BY <1>0 DEF CopiesExcused, Holds, Undelivered, KindPc, JobOwner, AbsentClean,
         TypeOK, Status, NonFinal, Final, Kind, Pc, Prepare, SetStatus, history
    <2>4. AttemptRows(l)'
      BY <1>0 DEF AttemptRows, CopiesExcused, Holds, KindPc, JobOwner, AbsentClean,
         NoRows, TypeOK, Status, NonFinal, Final, Kind, Pc, Prepare, SetStatus, history
    <2> QED BY <1>2, <2>1, <2>2, <2>3, <2>4
  <1> QED BY <1>1, <1>2, <1>3, <1>4, UntouchedKeeps

(* The last check before the send of the live job.                         *)
LEMMA RouteIInv ==
  ASSUME IInv, NEW l \in Log, Route(l)
  PROVE  IInv'
  <1> USE DeliveryAssumption DEF IInv
  <1>0. /\ pc' \in [Kind -> [Log -> Pc]]
        /\ pc'["live"][l] \in {"none", "send"}
        /\ \A kk \in Kind, ll \in Log : kk # "live" \/ ll # l => pc'[kk][ll] = pc[kk][ll]
    BY GotoMoves DEF Route, db, history, Kind, Pc
  <1>1. TypeOK'
    BY <1>0 DEF TypeOK, Status, NonFinal, Final, Kind, Pc, Route, db, history, Out, Rows
  <1>2. \A m \in Log : JobOwner(m)'
    BY <1>0 DEF LogInv, JobOwner, AbsentClean, KindPc, TypeOK, Status, NonFinal, Final,
       Kind, Pc, Route, db, history
  <1>3. \A m \in Log \ {l} : Untouched(m)
    BY <1>0 DEF Untouched, TypeOK, Status, NonFinal, Final, Kind, Pc, Route, db, history
  <1>4. LogInv(l)'
    <2> USE DEF LogInv
    <2>1. AbsentClean(l)' /\ KindPc(l)' /\ CleanupOrder(l)'
      BY <1>0 DEF AbsentClean, KindPc, CleanupOrder, TypeOK, Status, NonFinal, Final,
         Kind, Pc, Route, db, history
    <2>2. Undelivered(l)' /\ RefundLast(l)'
      BY <1>0 DEF Undelivered, RefundLast, KindPc, JobOwner, AbsentClean, TypeOK,
         Status, NonFinal, Final, Kind, Pc, Route, db, history
    <2>3. CopiesExcused(l)'
      BY <1>0 DEF CopiesExcused, Holds, Undelivered, KindPc, JobOwner, AbsentClean,
         TypeOK, Status, NonFinal, Final, Kind, Pc, Route, db, history
    <2>4. AttemptRows(l)'
      BY <1>0 DEF AttemptRows, CopiesExcused, Holds, KindPc, JobOwner, AbsentClean,
         NoRows, TypeOK, Status, NonFinal, Final, Kind, Pc, Route, db, history
    <2> QED BY <1>2, <2>1, <2>2, <2>3, <2>4
  <1> QED BY <1>1, <1>2, <1>3, <1>4, UntouchedKeeps

(* The worker's run starts.                                                *)
LEMMA TickIInv ==
  ASSUME IInv, Tick
  PROVE  IInv'
  <1> USE DeliveryAssumption DEF IInv
  <1>1. TypeOK'
    BY DEF TypeOK, Status, NonFinal, Final, Kind, Pc, Tick, db, jobs, history
  <1>2. \A m \in Log : JobOwner(m)'
    BY DEF LogInv, JobOwner, TypeOK, Status, NonFinal, Final, Kind, Pc, Tick, db, jobs,
       history
  <1> QED BY <1>1, <1>2, WorkerFrame DEF Tick, db, jobs, history

(* Recovery creates a row and starts its job.                              *)
LEMMA RecoverIInv ==
  ASSUME IInv, NEW l \in Log, Recover(l)
  PROVE  IInv'
  <1> USE DeliveryAssumption DEF IInv
  <1>0. /\ pc' \in [Kind -> [Log -> Pc]]
        /\ pc'["live"][l] = "prep"
        /\ \A kk \in Kind, ll \in Log : kk # "live" \/ ll # l => pc'[kk][ll] = pc[kk][ll]
    BY GotoMoves DEF Recover, CreateLog, SetStatus, history, Kind, Pc
  <1>1. TypeOK'
    BY <1>0 DEF TypeOK, Status, NonFinal, Final, Kind, Pc, Recover, CreateLog,
       SetStatus, history, Out, Rows
  <1>2. \A m \in Log : JobOwner(m)'
    BY <1>0 DEF LogInv, JobOwner, AbsentClean, KindPc, TypeOK, Status, NonFinal, Final,
       Kind, Pc, Recover, CreateLog, SetStatus, history
  <1>3. \A m \in Log \ {l} : Untouched(m)
    BY <1>0 DEF Untouched, TypeOK, Status, NonFinal, Final, Kind, Pc, Recover,
       CreateLog, SetStatus, history
  <1>4. LogInv(l)'
    <2> USE DEF LogInv
    <2>1. AbsentClean(l)' /\ KindPc(l)' /\ CleanupOrder(l)'
      BY <1>0 DEF AbsentClean, KindPc, CleanupOrder, TypeOK, Status, NonFinal, Final,
         Kind, Pc, Recover, CreateLog, SetStatus, history
    <2>2. Undelivered(l)' /\ RefundLast(l)'
      BY <1>0 DEF Undelivered, RefundLast, KindPc, JobOwner, AbsentClean, TypeOK,
         Status, NonFinal, Final, Kind, Pc, Recover, CreateLog, SetStatus, history
    <2>3. CopiesExcused(l)'
      BY <1>0 DEF CopiesExcused, Holds, Undelivered, KindPc, JobOwner, AbsentClean,
         TypeOK, Status, NonFinal, Final, Kind, Pc, Recover, CreateLog, SetStatus,
         history
    <2>4. AttemptRows(l)'
      BY <1>0 DEF AttemptRows, CopiesExcused, Holds, KindPc, JobOwner, AbsentClean,
         NoRows, TypeOK, Status, NonFinal, Final, Kind, Pc, Recover, CreateLog,
         SetStatus, history
    <2> QED BY <1>2, <2>1, <2>2, <2>3, <2>4
  <1> QED BY <1>1, <1>2, <1>3, <1>4, UntouchedKeeps

(* The worker lets go of the log it recovered.                             *)
LEMMA RecoveredIInv ==
  ASSUME IInv, Recovered
  PROVE  IInv'
  <1> USE DeliveryAssumption DEF IInv
  <1>1. TypeOK'
    BY DEF TypeOK, Status, NonFinal, Final, Kind, Pc, Recovered, db, jobs, history
  <1>2. \A m \in Log : JobOwner(m)'
    BY DEF LogInv, JobOwner, TypeOK, Status, NonFinal, Final, Kind, Pc, Recovered, db,
       jobs, history
  <1> QED BY <1>1, <1>2, WorkerFrame DEF Recovered, db, jobs, history

(* Listed logs are old enough, hence not between queue and start.          *)
LEMMA SnapshotIInv ==
  ASSUME IInv, Snapshot
  PROVE  IInv'
  <1> USE DeliveryAssumption DEF IInv
  <1>1. TypeOK'
    BY DEF TypeOK, Status, NonFinal, Final, Kind, Pc, Snapshot, Due, db, jobs, history
  <1>2. \A m \in Log : JobOwner(m)'
    BY DEF LogInv, JobOwner, TypeOK, Status, NonFinal, Final, Kind, Pc, Snapshot, Due,
       db, jobs, history
  <1> QED BY <1>1, <1>2, WorkerFrame DEF Snapshot, Due, db, jobs, history

(* The picked log has no live job: it is old, and the tracker is asked.    *)
LEMMA PickIInv ==
  ASSUME IInv, NEW l \in Log, Pick(l)
  PROVE  IInv'
  <1> USE DeliveryAssumption DEF IInv
  <1>1. TypeOK'
    BY DEF TypeOK, Status, NonFinal, Final, Kind, Pc, Pick, Active, LiveActive,
       RetryActive, db, jobs, history
  <1>2. \A m \in Log : JobOwner(m)'
    BY DEF LogInv, JobOwner, TypeOK, Status, NonFinal, Final, Kind, Pc, Pick, Active,
       LiveActive, RetryActive, db, jobs, history
  <1> QED BY <1>1, <1>2, WorkerFrame DEF Pick, Active, LiveActive, RetryActive, db,
             jobs, history

(* The run ends at a failed claim.                                         *)
LEMMA ClaimFailsIInv ==
  ASSUME IInv, ClaimFails
  PROVE  IInv'
  <1> USE DeliveryAssumption DEF IInv
  <1>1. TypeOK'
    BY DEF TypeOK, Status, NonFinal, Final, Kind, Pc, ClaimFails, Idle, Fault, db,
       jobs, history
  <1>2. \A m \in Log : JobOwner(m)'
    BY DEF LogInv, JobOwner, TypeOK, Status, NonFinal, Final, Kind, Pc, ClaimFails,
       Idle, Fault, db, jobs, history
  <1> QED BY <1>1, <1>2, WorkerFrame DEF ClaimFails, Idle, Fault, db, jobs, history

(* The worker lets go of the log it retried.                               *)
LEMMA RetryDoneIInv ==
  ASSUME IInv, RetryDone
  PROVE  IInv'
  <1> USE DeliveryAssumption DEF IInv
  <1>1. TypeOK'
    BY DEF TypeOK, Status, NonFinal, Final, Kind, Pc, RetryDone, db, jobs, history
  <1>2. \A m \in Log : JobOwner(m)'
    BY DEF LogInv, JobOwner, TypeOK, Status, NonFinal, Final, Kind, Pc, RetryDone, db,
       jobs, history
  <1> QED BY <1>1, <1>2, WorkerFrame DEF RetryDone, db, jobs, history

(* The run ends with its list.                                             *)
LEMMA RunEndsIInv ==
  ASSUME IInv, RunEnds
  PROVE  IInv'
  <1> USE DeliveryAssumption DEF IInv
  <1>1. TypeOK'
    BY DEF TypeOK, Status, NonFinal, Final, Kind, Pc, RunEnds, Idle, db, jobs, history
  <1>2. \A m \in Log : JobOwner(m)'
    BY DEF LogInv, JobOwner, TypeOK, Status, NonFinal, Final, Kind, Pc, RunEnds, Idle,
       db, jobs, history
  <1> QED BY <1>1, <1>2, WorkerFrame DEF RunEnds, Idle, db, jobs, history

(* The counts are read while nobody else adds attempts.                    *)
LEMMA InspectIInv ==
  ASSUME IInv, NEW l \in Log, Inspect(l)
  PROVE  IInv'
  <1> USE DeliveryAssumption DEF IInv
  <1>0. /\ pc' \in [Kind -> [Log -> Pc]]
        /\ pc'["retry"][l] \in {"send", "close"}
        /\ \A kk \in Kind, ll \in Log : kk # "retry" \/ ll # l => pc'[kk][ll] = pc[kk][ll]
    BY GotoMoves DEF Inspect, db, history, Kind, Pc
  <1>1. TypeOK'
    BY <1>0 DEF TypeOK, Status, NonFinal, Final, Kind, Pc, Inspect, db, history, Out,
       Rows
  <1>2. \A m \in Log : JobOwner(m)'
    BY <1>0 DEF LogInv, JobOwner, AbsentClean, KindPc, TypeOK, Status, NonFinal, Final,
       Kind, Pc, Inspect, db, history
  <1>3. \A m \in Log \ {l} : Untouched(m)
    BY <1>0 DEF Untouched, TypeOK, Status, NonFinal, Final, Kind, Pc, Inspect, db,
       history
  <1>4. LogInv(l)'
    <2> USE DEF LogInv
    <2>1. AbsentClean(l)' /\ KindPc(l)' /\ CleanupOrder(l)'
      BY <1>0 DEF AbsentClean, KindPc, CleanupOrder, TypeOK, Status, NonFinal, Final,
         Kind, Pc, Inspect, db, history
    <2>2. Undelivered(l)' /\ RefundLast(l)'
      BY <1>0 DEF Undelivered, RefundLast, KindPc, JobOwner, AbsentClean, TypeOK,
         Status, NonFinal, Final, Kind, Pc, Inspect, db, history
    <2>3. CopiesExcused(l)'
      BY <1>0 DEF CopiesExcused, Holds, Undelivered, KindPc, JobOwner, AbsentClean,
         TypeOK, Status, NonFinal, Final, Kind, Pc, Inspect, db, history
    <2>4. AttemptRows(l)'
      <3>1. rows' = rows /\ status' = status /\ landed' = landed
        BY DEF Inspect, db, history
      <3>2. pc'["live"][l] = "none" /\ pc["retry"][l] = "inspect"
        BY <1>0 DEF Inspect, JobOwner, Kind
      <3>3. seen'[l].n = rows[l].n /\ seen'[l].counted = rows[l].counted
        BY DEF Inspect, TypeOK
      <3>4. pc'["retry"][l] = "send" => rows[l].counted < MaxRetries
        BY GotoMoves DEF Inspect, Kind, Pc
      <3> QED BY <1>0, <3>1, <3>2, <3>3, <3>4 DEF AttemptRows
    <2> QED BY <1>2, <2>1, <2>2, <2>3, <2>4
  <1> QED BY <1>1, <1>2, <1>3, <1>4, UntouchedKeeps

(* An unreadable raw e-mail sends the job to the close.                    *)
LEMMA RawReadFailsIInv ==
  ASSUME IInv, NEW l \in Log, RawReadFails(l)
  PROVE  IInv'
  <1> USE DeliveryAssumption DEF IInv
  <1>0. /\ pc' \in [Kind -> [Log -> Pc]]
        /\ pc'["retry"][l] = "close"
        /\ \A kk \in Kind, ll \in Log : kk # "retry" \/ ll # l => pc'[kk][ll] = pc[kk][ll]
    BY GotoMoves DEF RawReadFails, Fault, db, history, Kind, Pc
  <1>1. TypeOK'
    BY <1>0 DEF TypeOK, Status, NonFinal, Final, Kind, Pc, RawReadFails, Fault, db,
       history, Out, Rows
  <1>2. \A m \in Log : JobOwner(m)'
    BY <1>0 DEF LogInv, JobOwner, AbsentClean, KindPc, TypeOK, Status, NonFinal, Final,
       Kind, Pc, RawReadFails, Fault, db, history
  <1>3. \A m \in Log \ {l} : Untouched(m)
    BY <1>0 DEF Untouched, TypeOK, Status, NonFinal, Final, Kind, Pc, RawReadFails,
       Fault, db, history
  <1>4. LogInv(l)'
    <2> USE DEF LogInv
    <2>1. AbsentClean(l)' /\ KindPc(l)' /\ CleanupOrder(l)'
      BY <1>0 DEF AbsentClean, KindPc, CleanupOrder, TypeOK, Status, NonFinal, Final,
         Kind, Pc, RawReadFails, Fault, db, history
    <2>2. Undelivered(l)' /\ RefundLast(l)'
      BY <1>0 DEF Undelivered, RefundLast, KindPc, JobOwner, AbsentClean, TypeOK,
         Status, NonFinal, Final, Kind, Pc, RawReadFails, Fault, db, history
    <2>3. CopiesExcused(l)'
      BY <1>0 DEF CopiesExcused, Holds, Undelivered, KindPc, JobOwner, AbsentClean,
         TypeOK, Status, NonFinal, Final, Kind, Pc, RawReadFails, Fault, db, history
    <2>4. AttemptRows(l)'
      BY <1>0 DEF AttemptRows, CopiesExcused, Holds, KindPc, JobOwner, AbsentClean,
         NoRows, TypeOK, Status, NonFinal, Final, Kind, Pc, RawReadFails, Fault, db,
         history
    <2> QED BY <1>2, <2>1, <2>2, <2>3, <2>4
  <1> QED BY <1>1, <1>2, <1>3, <1>4, UntouchedKeeps

(* The log is closed before the refund.                                    *)
LEMMA CloseIInv ==
  ASSUME IInv, NEW l \in Log, Close(l)
  PROVE  IInv'
  <1> USE DeliveryAssumption DEF IInv
  <1>0. /\ pc' \in [Kind -> [Log -> Pc]]
        /\ pc'["retry"][l] = "refund"
        /\ \A kk \in Kind, ll \in Log : kk # "retry" \/ ll # l => pc'[kk][ll] = pc[kk][ll]
    BY GotoMoves DEF Close, SetStatus, history, Kind, Pc
  <1>1. TypeOK'
    BY <1>0 DEF TypeOK, Status, NonFinal, Final, Kind, Pc, Close, SetStatus, history,
       Out, Rows
  <1>2. \A m \in Log : JobOwner(m)'
    BY <1>0 DEF LogInv, JobOwner, AbsentClean, KindPc, TypeOK, Status, NonFinal, Final,
       Kind, Pc, Close, SetStatus, history
  <1>3. \A m \in Log \ {l} : Untouched(m)
    BY <1>0 DEF Untouched, TypeOK, Status, NonFinal, Final, Kind, Pc, Close, SetStatus,
       history
  <1>4. LogInv(l)'
    <2> USE DEF LogInv
    <2>1. AbsentClean(l)' /\ KindPc(l)' /\ CleanupOrder(l)'
      BY <1>0 DEF AbsentClean, KindPc, CleanupOrder, TypeOK, Status, NonFinal, Final,
         Kind, Pc, Close, SetStatus, history
    <2>2. Undelivered(l)' /\ RefundLast(l)'
      BY <1>0 DEF Undelivered, RefundLast, KindPc, JobOwner, AbsentClean, TypeOK,
         Status, NonFinal, Final, Kind, Pc, Close, SetStatus, history
    <2>3. CopiesExcused(l)'
      BY <1>0 DEF CopiesExcused, Holds, Undelivered, KindPc, JobOwner, AbsentClean,
         TypeOK, Status, NonFinal, Final, Kind, Pc, Close, SetStatus, history
    <2>4. AttemptRows(l)'
      BY <1>0 DEF AttemptRows, CopiesExcused, Holds, KindPc, JobOwner, AbsentClean,
         NoRows, TypeOK, Status, NonFinal, Final, Kind, Pc, Close, SetStatus, history
    <2> QED BY <1>2, <2>1, <2>2, <2>3, <2>4
  <1> QED BY <1>1, <1>2, <1>3, <1>4, UntouchedKeeps

(* A send happens only on a log whose copies are all excused.              *)
LEMMA SendIInv ==
  ASSUME IInv, NEW k \in Kind, NEW l \in Log, Send(k, l)
  PROVE  IInv'
  <1> USE DeliveryAssumption DEF IInv
  <1>0. /\ pc' \in [Kind -> [Log -> Pc]]
        /\ pc'[k][l] = "persist"
        /\ \A kk \in Kind, ll \in Log : kk # k \/ ll # l => pc'[kk][ll] = pc[kk][ll]
    BY GotoMoves DEF Send, Out, db, Kind, Pc
  <1>1. TypeOK'
    BY <1>0 DEF TypeOK, Status, NonFinal, Final, Kind, Pc, Send, Out, db, Out, Rows
  <1>2. \A m \in Log : JobOwner(m)'
    BY <1>0 DEF LogInv, JobOwner, AbsentClean, KindPc, TypeOK, Status, NonFinal, Final,
       Kind, Pc, Send, Out, db
  <1>3. \A m \in Log \ {l} : Untouched(m)
    BY <1>0 DEF Untouched, TypeOK, Status, NonFinal, Final, Kind, Pc, Send, Out, db
  <1>4. LogInv(l)'
    <2> USE DEF LogInv
    <2>1. AbsentClean(l)' /\ KindPc(l)' /\ CleanupOrder(l)'
      BY <1>0 DEF AbsentClean, KindPc, CleanupOrder, TypeOK, Status, NonFinal, Final,
         Kind, Pc, Send, Out, db
    <2>2. Undelivered(l)' /\ RefundLast(l)'
      BY <1>0 DEF Undelivered, RefundLast, KindPc, JobOwner, AbsentClean, TypeOK,
         Status, NonFinal, Final, Kind, Pc, Send, Out, db
    <2>3. CopiesExcused(l)'
      BY <1>0 DEF CopiesExcused, Holds, Undelivered, KindPc, JobOwner, AbsentClean,
         TypeOK, Status, NonFinal, Final, Kind, Pc, Send, Out, db
    <2>4. AttemptRows(l)'
      BY <1>0 DEF AttemptRows, CopiesExcused, Holds, KindPc, JobOwner, AbsentClean,
         NoRows, TypeOK, Status, NonFinal, Final, Kind, Pc, Send, Out, db
    <2> QED BY <1>2, <2>1, <2>2, <2>3, <2>4
  <1> QED BY <1>1, <1>2, <1>3, <1>4, UntouchedKeeps

(* The only refund, on a closed log, as the job's last step.               *)
LEMMA RefundIInv ==
  ASSUME IInv, NEW k \in Kind, NEW l \in Log, Refund(k, l)
  PROVE  IInv'
  <1> USE DeliveryAssumption DEF IInv
  <1>0. /\ pc' \in [Kind -> [Log -> Pc]]
        /\ pc'[k][l] = "none"
        /\ \A kk \in Kind, ll \in Log : kk # k \/ ll # l => pc'[kk][ll] = pc[kk][ll]
    BY GotoMoves DEF Refund, history, Kind, Pc
  <1>1. TypeOK'
    BY <1>0 DEF TypeOK, Status, NonFinal, Final, Kind, Pc, Refund, history, Out, Rows
  <1>2. \A m \in Log : JobOwner(m)'
    BY <1>0 DEF LogInv, JobOwner, AbsentClean, KindPc, TypeOK, Status, NonFinal, Final,
       Kind, Pc, Refund, history
  <1>3. \A m \in Log \ {l} : Untouched(m)
    BY <1>0 DEF Untouched, TypeOK, Status, NonFinal, Final, Kind, Pc, Refund, history
  <1>4. LogInv(l)'
    <2> USE DEF LogInv
    <2>1. AbsentClean(l)' /\ KindPc(l)' /\ CleanupOrder(l)'
      BY <1>0 DEF AbsentClean, KindPc, CleanupOrder, TypeOK, Status, NonFinal, Final,
         Kind, Pc, Refund, history
    <2>2. Undelivered(l)' /\ RefundLast(l)'
      <3>1. status[l] = "permanently_failed" /\ status' = status
        BY DEF RefundLast, Refund
      <3>2. refunds[l] = 0 /\ refunds'[l] = 1
        <4>1. refunds[l] \in Nat /\ refunds[l] <= 1 /\ refunds[l] # 1
          BY DEF RefundLast, Refund, TypeOK, Kind
        <4>2. refunds' = [refunds EXCEPT ![l] = refunds[l] + 1] /\ refunds \in [Log -> Nat]
          BY DEF Refund, TypeOK
        <4> QED BY <4>1, <4>2
      <3>3. pc'["live"][l] = "none" /\ pc'["retry"][l] = "none"
        BY <1>0 DEF Refund, JobOwner, Kind
      <3> QED BY <3>1, <3>2, <3>3 DEF Undelivered, RefundLast, Kind
    <2>3. CopiesExcused(l)'
      BY <1>0 DEF CopiesExcused, Holds, Undelivered, KindPc, JobOwner, AbsentClean,
         TypeOK, Status, NonFinal, Final, Kind, Pc, Refund, history
    <2>4. AttemptRows(l)'
      BY <1>0 DEF AttemptRows, CopiesExcused, Holds, KindPc, JobOwner, AbsentClean,
         NoRows, TypeOK, Status, NonFinal, Final, Kind, Pc, Refund, history
    <2> QED BY <1>2, <2>1, <2>2, <2>3, <2>4
  <1> QED BY <1>1, <1>2, <1>3, <1>4, UntouchedKeeps

(* A failed refund ends the job.                                           *)
LEMMA RefundFailsIInv ==
  ASSUME IInv, NEW k \in Kind, NEW l \in Log, RefundFails(k, l)
  PROVE  IInv'
  <1> USE DeliveryAssumption DEF IInv
  <1>0. /\ pc' \in [Kind -> [Log -> Pc]]
        /\ pc'[k][l] = "none"
        /\ \A kk \in Kind, ll \in Log : kk # k \/ ll # l => pc'[kk][ll] = pc[kk][ll]
    BY GotoMoves DEF RefundFails, Fault, db, history, Kind, Pc
  <1>1. TypeOK'
    BY <1>0 DEF TypeOK, Status, NonFinal, Final, Kind, Pc, RefundFails, Fault, db,
       history, Out, Rows
  <1>2. \A m \in Log : JobOwner(m)'
    BY <1>0 DEF LogInv, JobOwner, AbsentClean, KindPc, TypeOK, Status, NonFinal, Final,
       Kind, Pc, RefundFails, Fault, db, history
  <1>3. \A m \in Log \ {l} : Untouched(m)
    BY <1>0 DEF Untouched, TypeOK, Status, NonFinal, Final, Kind, Pc, RefundFails,
       Fault, db, history
  <1>4. LogInv(l)'
    <2> USE DEF LogInv
    <2>1. AbsentClean(l)' /\ KindPc(l)' /\ CleanupOrder(l)'
      BY <1>0 DEF AbsentClean, KindPc, CleanupOrder, TypeOK, Status, NonFinal, Final,
         Kind, Pc, RefundFails, Fault, db, history
    <2>2. Undelivered(l)' /\ RefundLast(l)'
      BY <1>0 DEF Undelivered, RefundLast, KindPc, JobOwner, AbsentClean, TypeOK,
         Status, NonFinal, Final, Kind, Pc, RefundFails, Fault, db, history
    <2>3. CopiesExcused(l)'
      BY <1>0 DEF CopiesExcused, Holds, Undelivered, KindPc, JobOwner, AbsentClean,
         TypeOK, Status, NonFinal, Final, Kind, Pc, RefundFails, Fault, db, history
    <2>4. AttemptRows(l)'
      BY <1>0 DEF AttemptRows, CopiesExcused, Holds, KindPc, JobOwner, AbsentClean,
         NoRows, TypeOK, Status, NonFinal, Final, Kind, Pc, RefundFails, Fault, db,
         history
    <2> QED BY <1>2, <2>1, <2>2, <2>3, <2>4
  <1> QED BY <1>1, <1>2, <1>3, <1>4, UntouchedKeeps

(* The photos change nothing about the log.                                *)
LEMMA PhotosDoneIInv ==
  ASSUME IInv, NEW k \in Kind, NEW l \in Log, PhotosDone(k, l)
  PROVE  IInv'
  <1> USE DeliveryAssumption DEF IInv
  <1>0. /\ pc' \in [Kind -> [Log -> Pc]]
        /\ pc'[k][l] = "none"
        /\ \A kk \in Kind, ll \in Log : kk # k \/ ll # l => pc'[kk][ll] = pc[kk][ll]
    BY GotoMoves DEF PhotosDone, db, history, Kind, Pc
  <1>1. TypeOK'
    BY <1>0 DEF TypeOK, Status, NonFinal, Final, Kind, Pc, PhotosDone, db, history,
       Out, Rows
  <1>2. \A m \in Log : JobOwner(m)'
    BY <1>0 DEF LogInv, JobOwner, AbsentClean, KindPc, TypeOK, Status, NonFinal, Final,
       Kind, Pc, PhotosDone, db, history
  <1>3. \A m \in Log \ {l} : Untouched(m)
    BY <1>0 DEF Untouched, TypeOK, Status, NonFinal, Final, Kind, Pc, PhotosDone, db,
       history
  <1>4. LogInv(l)'
    <2> USE DEF LogInv
    <2>1. AbsentClean(l)' /\ KindPc(l)' /\ CleanupOrder(l)'
      BY <1>0 DEF AbsentClean, KindPc, CleanupOrder, TypeOK, Status, NonFinal, Final,
         Kind, Pc, PhotosDone, db, history
    <2>2. Undelivered(l)' /\ RefundLast(l)'
      BY <1>0 DEF Undelivered, RefundLast, KindPc, JobOwner, AbsentClean, TypeOK,
         Status, NonFinal, Final, Kind, Pc, PhotosDone, db, history
    <2>3. CopiesExcused(l)'
      BY <1>0 DEF CopiesExcused, Holds, Undelivered, KindPc, JobOwner, AbsentClean,
         TypeOK, Status, NonFinal, Final, Kind, Pc, PhotosDone, db, history
    <2>4. AttemptRows(l)'
      BY <1>0 DEF AttemptRows, CopiesExcused, Holds, KindPc, JobOwner, AbsentClean,
         NoRows, TypeOK, Status, NonFinal, Final, Kind, Pc, PhotosDone, db, history
    <2> QED BY <1>2, <2>1, <2>2, <2>3, <2>4
  <1> QED BY <1>1, <1>2, <1>3, <1>4, UntouchedKeeps

(* The recorded copy is given up and excused.                              *)
LEMMA AbortForMigrationIInv ==
  ASSUME IInv, NEW k \in Kind, NEW l \in Log, AbortForMigration(k, l)
  PROVE  IInv'
  <1> USE DeliveryAssumption DEF IInv
  <1>0. /\ pc' \in [Kind -> [Log -> Pc]]
        /\ pc'[k][l] = "none"
        /\ \A kk \in Kind, ll \in Log : kk # k \/ ll # l => pc'[kk][ll] = pc[kk][ll]
    BY GotoMoves DEF AbortForMigration, SetStatus, Kind, Pc
  <1>1. TypeOK'
    BY <1>0 DEF TypeOK, Status, NonFinal, Final, Kind, Pc, AbortForMigration,
       SetStatus, Out, Rows
  <1>2. \A m \in Log : JobOwner(m)'
    <2> SUFFICES ASSUME NEW m \in Log PROVE JobOwner(m)'
      OBVIOUS
    <2>1. LogInv(m)
      OBVIOUS
    <2>2. CASE m = l
      BY <1>0, <2>1, <2>2 DEF LogInv, JobOwner, AbsentClean, KindPc, TypeOK, Kind,
         AbortForMigration, SetStatus
    <2>3. CASE m # l
      BY <1>0, <2>1, <2>3 DEF LogInv, JobOwner, TypeOK, Kind, AbortForMigration,
         SetStatus
    <2> QED BY <2>2, <2>3
  <1>3. \A m \in Log \ {l} : Untouched(m)
    BY <1>0 DEF Untouched, TypeOK, Status, NonFinal, Final, Kind, Pc,
       AbortForMigration, SetStatus
  <1>4. LogInv(l)'
    <2> USE DEF LogInv
    <2>1. AbsentClean(l)' /\ KindPc(l)' /\ CleanupOrder(l)'
      BY <1>0 DEF AbsentClean, KindPc, CleanupOrder, TypeOK, Status, NonFinal, Final,
         Kind, Pc, AbortForMigration, SetStatus
    <2>2. Undelivered(l)' /\ RefundLast(l)'
      BY <1>0 DEF Undelivered, RefundLast, KindPc, JobOwner, AbsentClean, TypeOK,
         Status, NonFinal, Final, Kind, Pc, AbortForMigration, SetStatus
    <2>3. CopiesExcused(l)'
      BY <1>0 DEF CopiesExcused, Holds, Undelivered, KindPc, JobOwner, AbsentClean,
         TypeOK, Status, NonFinal, Final, Kind, Pc, AbortForMigration, SetStatus
    <2>4. AttemptRows(l)'
      BY <1>0 DEF AttemptRows, CopiesExcused, Holds, KindPc, JobOwner, AbsentClean,
         NoRows, TypeOK, Status, NonFinal, Final, Kind, Pc, AbortForMigration, SetStatus
    <2> QED BY <1>2, <2>1, <2>2, <2>3, <2>4
  <1> QED BY <1>1, <1>2, <1>3, <1>4, UntouchedKeeps

(* An error before the send, or in closing.                                *)
LEMMA StepThrowsIInv ==
  ASSUME IInv, NEW k \in Kind, NEW l \in Log, StepThrows(k, l)
  PROVE  IInv'
  <1> USE DeliveryAssumption DEF IInv
  <1>0. /\ pc' \in [Kind -> [Log -> Pc]]
        /\ pc'[k][l] = "threw"
        /\ \A kk \in Kind, ll \in Log : kk # k \/ ll # l => pc'[kk][ll] = pc[kk][ll]
    BY GotoMoves DEF StepThrows, SetStatus, Fault, history, Kind, Pc
  <1>1. TypeOK'
    <2>1. status' \in [Log -> Status]
      BY DEF StepThrows, SetStatus, TypeOK, Status, Final
    <2>2. faults' \in Nat
      BY DEF StepThrows, Fault, TypeOK
    <2> QED BY <1>0, <2>1, <2>2 DEF TypeOK, StepThrows, history
  <1>2. \A m \in Log : JobOwner(m)'
    BY <1>0 DEF LogInv, JobOwner, AbsentClean, KindPc, TypeOK, Status, NonFinal, Final,
       Kind, Pc, StepThrows, SetStatus, Fault, history
  <1>3. \A m \in Log \ {l} : Untouched(m)
    BY <1>0 DEF Untouched, TypeOK, Status, NonFinal, Final, Kind, Pc, StepThrows,
       SetStatus, Fault, history
  <1>4. LogInv(l)'
    <2> USE DEF LogInv
    <2>1. AbsentClean(l)' /\ KindPc(l)' /\ CleanupOrder(l)'
      BY <1>0 DEF AbsentClean, KindPc, CleanupOrder, TypeOK, Status, NonFinal, Final,
         Kind, Pc, StepThrows, SetStatus, Fault, history
    <2>2. Undelivered(l)' /\ RefundLast(l)'
      BY <1>0 DEF Undelivered, RefundLast, KindPc, JobOwner, AbsentClean, TypeOK,
         Status, NonFinal, Final, Kind, Pc, StepThrows, SetStatus, Fault, history
    <2>3. CopiesExcused(l)'
      BY <1>0 DEF CopiesExcused, Holds, Undelivered, KindPc, JobOwner, AbsentClean,
         TypeOK, Status, NonFinal, Final, Kind, Pc, StepThrows, SetStatus, Fault,
         history
    <2>4. AttemptRows(l)'
      BY <1>0 DEF AttemptRows, CopiesExcused, Holds, KindPc, JobOwner, AbsentClean,
         NoRows, TypeOK, Status, NonFinal, Final, Kind, Pc, StepThrows, SetStatus,
         Fault, history
    <2> QED BY <1>2, <2>1, <2>2, <2>3, <2>4
  <1> QED BY <1>1, <1>2, <1>3, <1>4, UntouchedKeeps

(* The catch resets a log whose copies are all excused.                    *)
LEMMA CatchResetIInv ==
  ASSUME IInv, NEW k \in Kind, NEW l \in Log, CatchReset(k, l)
  PROVE  IInv'
  <1> USE DeliveryAssumption DEF IInv
  <1>0. /\ pc' \in [Kind -> [Log -> Pc]]
        /\ pc'[k][l] = "none"
        /\ \A kk \in Kind, ll \in Log : kk # k \/ ll # l => pc'[kk][ll] = pc[kk][ll]
    BY GotoMoves DEF CatchReset, SetStatus, history, Kind, Pc
  <1>1. TypeOK'
    BY <1>0 DEF TypeOK, Status, NonFinal, Final, Kind, Pc, CatchReset, SetStatus,
       history, Out, Rows
  <1>2. \A m \in Log : JobOwner(m)'
    BY <1>0 DEF LogInv, JobOwner, AbsentClean, KindPc, TypeOK, Status, NonFinal, Final,
       Kind, Pc, CatchReset, SetStatus, history
  <1>3. \A m \in Log \ {l} : Untouched(m)
    BY <1>0 DEF Untouched, TypeOK, Status, NonFinal, Final, Kind, Pc, CatchReset,
       SetStatus, history
  <1>4. LogInv(l)'
    <2> USE DEF LogInv
    <2>1. AbsentClean(l)' /\ KindPc(l)' /\ CleanupOrder(l)'
      BY <1>0 DEF AbsentClean, KindPc, CleanupOrder, TypeOK, Status, NonFinal, Final,
         Kind, Pc, CatchReset, SetStatus, history
    <2>2. Undelivered(l)' /\ RefundLast(l)'
      BY <1>0 DEF Undelivered, RefundLast, KindPc, JobOwner, AbsentClean, TypeOK,
         Status, NonFinal, Final, Kind, Pc, CatchReset, SetStatus, history
    <2>3. CopiesExcused(l)'
      BY <1>0 DEF CopiesExcused, Holds, Undelivered, KindPc, JobOwner, AbsentClean,
         TypeOK, Status, NonFinal, Final, Kind, Pc, CatchReset, SetStatus, history
    <2>4. AttemptRows(l)'
      BY <1>0 DEF AttemptRows, CopiesExcused, Holds, KindPc, JobOwner, AbsentClean,
         NoRows, TypeOK, Status, NonFinal, Final, Kind, Pc, CatchReset, SetStatus,
         history
    <2> QED BY <1>2, <2>1, <2>2, <2>3, <2>4
  <1> QED BY <1>1, <1>2, <1>3, <1>4, UntouchedKeeps

(* A failed reset leaves the log as it is.                                 *)
LEMMA CatchResetFailsIInv ==
  ASSUME IInv, NEW k \in Kind, NEW l \in Log, CatchResetFails(k, l)
  PROVE  IInv'
  <1> USE DeliveryAssumption DEF IInv
  <1>0. /\ pc' \in [Kind -> [Log -> Pc]]
        /\ pc'[k][l] = "none"
        /\ \A kk \in Kind, ll \in Log : kk # k \/ ll # l => pc'[kk][ll] = pc[kk][ll]
    BY GotoMoves DEF CatchResetFails, Fault, db, history, Kind, Pc
  <1>1. TypeOK'
    BY <1>0 DEF TypeOK, Status, NonFinal, Final, Kind, Pc, CatchResetFails, Fault, db,
       history, Out, Rows
  <1>2. \A m \in Log : JobOwner(m)'
    BY <1>0 DEF LogInv, JobOwner, AbsentClean, KindPc, TypeOK, Status, NonFinal, Final,
       Kind, Pc, CatchResetFails, Fault, db, history
  <1>3. \A m \in Log \ {l} : Untouched(m)
    BY <1>0 DEF Untouched, TypeOK, Status, NonFinal, Final, Kind, Pc, CatchResetFails,
       Fault, db, history
  <1>4. LogInv(l)'
    <2> USE DEF LogInv
    <2>1. AbsentClean(l)' /\ KindPc(l)' /\ CleanupOrder(l)'
      BY <1>0 DEF AbsentClean, KindPc, CleanupOrder, TypeOK, Status, NonFinal, Final,
         Kind, Pc, CatchResetFails, Fault, db, history
    <2>2. Undelivered(l)' /\ RefundLast(l)'
      BY <1>0 DEF Undelivered, RefundLast, KindPc, JobOwner, AbsentClean, TypeOK,
         Status, NonFinal, Final, Kind, Pc, CatchResetFails, Fault, db, history
    <2>3. CopiesExcused(l)'
      BY <1>0 DEF CopiesExcused, Holds, Undelivered, KindPc, JobOwner, AbsentClean,
         TypeOK, Status, NonFinal, Final, Kind, Pc, CatchResetFails, Fault, db, history
    <2>4. AttemptRows(l)'
      BY <1>0 DEF AttemptRows, CopiesExcused, Holds, KindPc, JobOwner, AbsentClean,
         NoRows, TypeOK, Status, NonFinal, Final, Kind, Pc, CatchResetFails, Fault, db,
         history
    <2> QED BY <1>2, <2>1, <2>2, <2>3, <2>4
  <1> QED BY <1>1, <1>2, <1>3, <1>4, UntouchedKeeps

(* The file goes first, at the end of its retention.                       *)
LEMMA CleanUnlinkIInv ==
  ASSUME IInv, NEW l \in Log, CleanUnlink(l)
  PROVE  IInv'
  <1> USE DeliveryAssumption DEF IInv
  <1>1. TypeOK'
    BY DEF TypeOK, Status, NonFinal, Final, Kind, Pc, CleanUnlink, db, jobs, history,
       Out, Rows
  <1>2. \A m \in Log : JobOwner(m)'
    BY DEF LogInv, JobOwner, AbsentClean, KindPc, TypeOK, Status, NonFinal, Final,
       Kind, Pc, CleanUnlink, db, jobs, history
  <1>3. \A m \in Log \ {l} : Untouched(m)
    BY DEF Untouched, TypeOK, Status, NonFinal, Final, Kind, Pc, CleanUnlink, db, jobs,
       history
  <1>4. LogInv(l)'
    <2> USE DEF LogInv
    <2>1. AbsentClean(l)' /\ KindPc(l)' /\ CleanupOrder(l)'
      BY DEF AbsentClean, KindPc, CleanupOrder, TypeOK, Status, NonFinal, Final, Kind,
         Pc, CleanUnlink, db, jobs, history
    <2>2. Undelivered(l)' /\ RefundLast(l)'
      BY DEF Undelivered, RefundLast, KindPc, JobOwner, AbsentClean, TypeOK, Status,
         NonFinal, Final, Kind, Pc, CleanUnlink, db, jobs, history
    <2>3. CopiesExcused(l)'
      BY DEF CopiesExcused, Holds, Undelivered, KindPc, JobOwner, AbsentClean, TypeOK,
         Status, NonFinal, Final, Kind, Pc, CleanUnlink, db, jobs, history
    <2>4. AttemptRows(l)'
      BY DEF AttemptRows, CopiesExcused, Holds, KindPc, JobOwner, AbsentClean, NoRows,
         TypeOK, Status, NonFinal, Final, Kind, Pc, CleanUnlink, db, jobs, history
    <2> QED BY <1>2, <2>1, <2>2, <2>3, <2>4
  <1> QED BY <1>1, <1>2, <1>3, <1>4, UntouchedKeeps

(* The row follows; a delivered log stays delivered.                       *)
LEMMA CleanCloseIInv ==
  ASSUME IInv, NEW l \in Log, CleanClose(l)
  PROVE  IInv'
  <1> USE DeliveryAssumption DEF IInv
  <1>1. TypeOK'
    BY DEF TypeOK, Status, NonFinal, Final, Kind, Pc, CleanClose, SetStatus, jobs,
       history, Out, Rows
  <1>2. \A m \in Log : JobOwner(m)'
    BY DEF LogInv, JobOwner, AbsentClean, KindPc, TypeOK, Status, NonFinal, Final,
       Kind, Pc, CleanClose, SetStatus, jobs, history
  <1>3. \A m \in Log \ {l} : Untouched(m)
    BY DEF Untouched, TypeOK, Status, NonFinal, Final, Kind, Pc, CleanClose, SetStatus,
       jobs, history
  <1>4. LogInv(l)'
    <2> USE DEF LogInv
    <2>1. AbsentClean(l)' /\ KindPc(l)' /\ CleanupOrder(l)'
      BY DEF AbsentClean, KindPc, CleanupOrder, TypeOK, Status, NonFinal, Final, Kind,
         Pc, CleanClose, SetStatus, jobs, history
    <2>2. Undelivered(l)' /\ RefundLast(l)'
      BY DEF Undelivered, RefundLast, KindPc, JobOwner, AbsentClean, TypeOK, Status,
         NonFinal, Final, Kind, Pc, CleanClose, SetStatus, jobs, history
    <2>3. CopiesExcused(l)'
      BY DEF CopiesExcused, Holds, Undelivered, KindPc, JobOwner, AbsentClean, TypeOK,
         Status, NonFinal, Final, Kind, Pc, CleanClose, SetStatus, jobs, history
    <2>4. AttemptRows(l)'
      BY DEF AttemptRows, CopiesExcused, Holds, KindPc, JobOwner, AbsentClean, NoRows,
         TypeOK, Status, NonFinal, Final, Kind, Pc, CleanClose, SetStatus, jobs, history
    <2> QED BY <1>2, <2>1, <2>2, <2>3, <2>4
  <1> QED BY <1>1, <1>2, <1>3, <1>4, UntouchedKeeps

(* A failed cleanup leaves the row referring to a missing file.            *)
LEMMA CleanFailsIInv ==
  ASSUME IInv, NEW l \in Log, CleanFails(l)
  PROVE  IInv'
  <1> USE DeliveryAssumption DEF IInv
  <1>1. TypeOK'
    BY DEF TypeOK, Status, NonFinal, Final, Kind, Pc, CleanFails, Fault, db, jobs,
       history, Out, Rows
  <1>2. \A m \in Log : JobOwner(m)'
    BY DEF LogInv, JobOwner, AbsentClean, KindPc, TypeOK, Status, NonFinal, Final,
       Kind, Pc, CleanFails, Fault, db, jobs, history
  <1>3. \A m \in Log \ {l} : Untouched(m)
    BY DEF Untouched, TypeOK, Status, NonFinal, Final, Kind, Pc, CleanFails, Fault, db,
       jobs, history
  <1>4. LogInv(l)'
    <2> USE DEF LogInv
    <2>1. AbsentClean(l)' /\ KindPc(l)' /\ CleanupOrder(l)'
      BY DEF AbsentClean, KindPc, CleanupOrder, TypeOK, Status, NonFinal, Final, Kind,
         Pc, CleanFails, Fault, db, jobs, history
    <2>2. Undelivered(l)' /\ RefundLast(l)'
      BY DEF Undelivered, RefundLast, KindPc, JobOwner, AbsentClean, TypeOK, Status,
         NonFinal, Final, Kind, Pc, CleanFails, Fault, db, jobs, history
    <2>3. CopiesExcused(l)'
      BY DEF CopiesExcused, Holds, Undelivered, KindPc, JobOwner, AbsentClean, TypeOK,
         Status, NonFinal, Final, Kind, Pc, CleanFails, Fault, db, jobs, history
    <2>4. AttemptRows(l)'
      BY DEF AttemptRows, CopiesExcused, Holds, KindPc, JobOwner, AbsentClean, NoRows,
         TypeOK, Status, NonFinal, Final, Kind, Pc, CleanFails, Fault, db, jobs, history
    <2> QED BY <1>2, <2>1, <2>2, <2>3, <2>4
  <1> QED BY <1>1, <1>2, <1>3, <1>4, UntouchedKeeps

(* Pausing touches no log.                                                 *)
LEMMA SetAliasStatusIInv ==
  ASSUME IInv, NEW a \in Alias, SetAliasStatus(a)
  PROVE  IInv'
  <1> USE DeliveryAssumption DEF IInv
  <1>1. TypeOK'
    BY DEF TypeOK, Status, NonFinal, Final, Kind, Pc, SetAliasStatus, db, jobs, history
  <1>2. \A m \in Log : JobOwner(m)'
    BY DEF LogInv, JobOwner, TypeOK, Status, NonFinal, Final, Kind, Pc, SetAliasStatus,
       db, jobs, history
  <1> QED BY <1>1, <1>2, WorkerFrame DEF SetAliasStatus, db, jobs, history

(* A log ages only after its job left the queue.                           *)
LEMMA GrowOlderIInv ==
  ASSUME IInv, NEW l \in Log, GrowOlder(l)
  PROVE  IInv'
  <1> USE DeliveryAssumption DEF IInv
  <1>1. TypeOK'
    <2>1. /\ age \in [Log -> 0..2] /\ age[l] < 2
          /\ age' = [age EXCEPT ![l] = age[l] + 1]
      BY DEF GrowOlder, TypeOK
    <2>2. age' \in [Log -> 0..2]
      <3>1. age[l] \in 0..2
        BY <2>1
      <3>2. age[l] + 1 \in 0..2
        BY <2>1, <3>1
      <3> QED BY <2>1, <3>2
    <2> QED BY <2>2 DEF TypeOK, GrowOlder, db, jobs, history
  <1>2. \A m \in Log : JobOwner(m)'
    BY DEF LogInv, JobOwner, AbsentClean, KindPc, TypeOK, Status, NonFinal, Final,
       Kind, Pc, GrowOlder, db, jobs, history
  <1>3. \A m \in Log \ {l} : Untouched(m)
    BY DEF Untouched, TypeOK, Status, NonFinal, Final, Kind, Pc, GrowOlder, db, jobs,
       history
  <1>4. LogInv(l)'
    <2> USE DEF LogInv
    <2>1. AbsentClean(l)' /\ KindPc(l)' /\ CleanupOrder(l)'
      BY DEF AbsentClean, KindPc, CleanupOrder, TypeOK, Status, NonFinal, Final, Kind,
         Pc, GrowOlder, db, jobs, history
    <2>2. Undelivered(l)' /\ RefundLast(l)'
      BY DEF Undelivered, RefundLast, KindPc, JobOwner, AbsentClean, TypeOK, Status,
         NonFinal, Final, Kind, Pc, GrowOlder, db, jobs, history
    <2>3. CopiesExcused(l)'
      BY DEF CopiesExcused, Holds, Undelivered, KindPc, JobOwner, AbsentClean, TypeOK,
         Status, NonFinal, Final, Kind, Pc, GrowOlder, db, jobs, history
    <2>4. AttemptRows(l)'
      BY DEF AttemptRows, CopiesExcused, Holds, KindPc, JobOwner, AbsentClean, NoRows,
         TypeOK, Status, NonFinal, Final, Kind, Pc, GrowOlder, db, jobs, history
    <2> QED BY <1>2, <2>1, <2>2, <2>3, <2>4
  <1> QED BY <1>1, <1>2, <1>3, <1>4, UntouchedKeeps

(* Staleness alone gives nobody a job.                                     *)
LEMMA ProcessingGoesStaleIInv ==
  ASSUME IInv, NEW l \in Log, ProcessingGoesStale(l)
  PROVE  IInv'
  <1> USE DeliveryAssumption DEF IInv
  <1>1. TypeOK'
    BY DEF TypeOK, Status, NonFinal, Final, Kind, Pc, ProcessingGoesStale, db, jobs,
       history
  <1>2. \A m \in Log : JobOwner(m)'
    BY DEF LogInv, JobOwner, TypeOK, Status, NonFinal, Final, Kind, Pc,
       ProcessingGoesStale, db, jobs, history
  <1> QED BY <1>1, <1>2, WorkerFrame DEF ProcessingGoesStale, db, jobs, history

(* The attempt row and the status are recorded together.                   *)
LEMMA PersistIInv ==
  ASSUME IInv, NEW k \in Kind, NEW l \in Log, Persist(k, l)
  PROVE  IInv'
  <1> USE DeliveryAssumption DEF IInv
  <1>1. pc[k][l] = "persist" /\ RecordOutcome(k, l) /\ LogInv(l)
    BY DEF Persist
  <1>2. /\ pc' \in [Kind -> [Log -> Pc]]
        /\ pc'[k][l] = AfterPersist(k, l)
        /\ \A kk \in Kind, ll \in Log : kk # k \/ ll # l => pc'[kk][ll] = pc[kk][ll]
    BY GotoMoves DEF Persist, AfterPersist, Pc
  <1>3. /\ status'[l] = OutcomeStatus(k, l)
        /\ OutcomeStatus(k, l) \in {"delivered", "permanently_failed", "failed"}
        /\ OutcomeStatus(k, l) = "delivered" <=> out[k][l] = "ok"
        /\ pc'[k][l] = "photos" <=> status'[l] = "delivered"
        /\ pc'[k][l] = "refund" <=> status'[l] = "permanently_failed"
        /\ pc'[k][l] \in {"photos", "refund", "none"}
    BY <1>1, <1>2, RecordFacts DEF AfterPersist, TypeOK
  <1>4. TypeOK'
    <2>1. status' \in [Log -> Status]
      BY <1>1, RecordFacts DEF TypeOK, Status, NonFinal, Final
    <2> QED BY <1>1, <1>2, <2>1, RecordFacts DEF TypeOK, Persist, history
  <1>5. \A m \in Log : JobOwner(m)'
    <2>1. worker' = worker /\ age' = age
      BY DEF Persist
    <2> QED BY <1>1, <1>2, <1>3, <2>1 DEF LogInv, JobOwner, Kind
  <1>6. \A m \in Log \ {l} : Untouched(m)
    BY <1>1, <1>2, RecordFacts DEF Untouched, TypeOK, Kind, Persist, history
  <1>7. pc'["live"][l] \in {"photos", "refund", "none"}
        /\ pc'["retry"][l] \in {"photos", "refund", "none"}
    <2>1. \A kk \in Kind \ {k} : pc[kk][l] = "none"
      BY <1>1 DEF LogInv, JobOwner, Kind
    <2> QED BY <1>2, <1>3, <2>1 DEF Kind
  <1>8. LogInv(l)'
    <2>1. AbsentClean(l)' /\ KindPc(l)' /\ CleanupOrder(l)' /\ Undelivered(l)'
      BY <1>1, <1>3, <1>7, RecordFacts
      DEF LogInv, AbsentClean, KindPc, CleanupOrder, Undelivered, Kind, Persist
    <2>2. RefundLast(l)'
      <3>1. refunds'[l] = refunds[l] /\ refunds[l] # 1
        BY <1>1, RecordFacts DEF LogInv, RefundLast, Kind
      <3>2. \A kk \in Kind : pc'[kk][l] = "refund" => kk = k
        BY <1>1, <1>2, <1>3 DEF LogInv, JobOwner, Kind
      <3> QED BY <1>1, <1>3, <3>1, <3>2 DEF LogInv, RefundLast, Kind
    <2>3. CopiesExcused(l)'
      <3>1. landed' = landed /\ excused' = excused /\ out' = out
        BY DEF Persist, history
      <3>2. \A kk \in Kind : Holds(kk, l) => kk = k
        BY <1>1 DEF LogInv, JobOwner, Holds, Kind
      <3> QED BY <1>1, <1>3, <1>7, <3>1, <3>2 DEF LogInv, CopiesExcused, Undelivered,
                 Holds, Kind
    <2>4. AttemptRows(l)'
      <3>1. landed' = landed /\ (out[k][l] = "ok" => landed[l] >= 1)
        BY <1>1 DEF Persist, history, LogInv, CopiesExcused, Holds
      <3> QED BY <1>1, <1>3, <1>7, <3>1, RecordFacts DEF AttemptRows
    <2> QED BY <1>5, <2>1, <2>2, <2>3, <2>4 DEF LogInv
  <1> QED BY <1>4, <1>5, <1>6, <1>8, UntouchedKeeps

(* The record is lost, or was written unnoticed: the copy is excused.      *)
LEMMA PersistFailsIInv ==
  ASSUME IInv, NEW k \in Kind, NEW l \in Log, PersistFails(k, l)
  PROVE  IInv'
  <1> USE DeliveryAssumption DEF IInv
  <1>1. pc[k][l] = "persist" /\ LogInv(l)
    BY DEF PersistFails
  <1>2. /\ pc' \in [Kind -> [Log -> Pc]]
        /\ pc'[k][l] = "threw"
        /\ \A kk \in Kind, ll \in Log : kk # k \/ ll # l => pc'[kk][ll] = pc[kk][ll]
    BY GotoMoves DEF PersistFails, Pc
  <1>3. /\ rows' \in [Log -> Rows]
        /\ status' \in [Log -> Status]
        /\ \A m \in Log \ {l} : rows'[m] = rows[m] /\ status'[m] = status[m]
        /\ rows'[l].counted <= MaxRetries
        /\ status'[l] # "none"
        /\ status'[l] = "delivered" => rows'[l].ok /\ out[k][l] = "ok"
        /\ path' = path /\ prepared' = prepared /\ refunds' = refunds
    <2>1. CASE RecordOutcome(k, l)
      <3>1. /\ rows' \in [Log -> Rows] /\ rows'[l].counted <= MaxRetries
            /\ \A m \in Log \ {l} : rows'[m] = rows[m]
            /\ out[k][l] = "ok" => rows'[l].ok
            /\ UNCHANGED <<path, prepared, refunds>>
        BY <1>1, <2>1, RecordFacts
      <3>2. /\ status' = [status EXCEPT ![l] = OutcomeStatus(k, l)]
            /\ OutcomeStatus(k, l) \in {"delivered", "permanently_failed", "failed"}
            /\ OutcomeStatus(k, l) = "delivered" <=> out[k][l] = "ok"
        BY <1>1, <2>1, RecordFacts
      <3> QED BY <3>1, <3>2 DEF TypeOK, Status, NonFinal, Final
    <2>2. CASE UNCHANGED db
      BY <1>1, <2>2 DEF TypeOK, db, LogInv, AttemptRows, Undelivered, AbsentClean, Kind
    <2> QED BY <2>1, <2>2 DEF PersistFails
  <1>4. TypeOK'
    <2>1. excused' \in [Log -> Nat] /\ faults' \in Nat
      BY DEF TypeOK, PersistFails, Fault
    <2> QED BY <1>2, <1>3, <2>1 DEF TypeOK, PersistFails
  <1>5. \A m \in Log : JobOwner(m)'
    BY <1>1, <1>2 DEF LogInv, JobOwner, TypeOK, Kind, PersistFails
  <1>6. \A m \in Log \ {l} : Untouched(m)
    BY <1>2, <1>3 DEF Untouched, TypeOK, Kind, PersistFails
  <1>7. \A kk \in Kind \ {k} : pc[kk][l] = "none" /\ pc'[kk][l] = "none"
    BY <1>1, <1>2 DEF LogInv, JobOwner, Kind
  <1>8. LogInv(l)'
    <2>1. AbsentClean(l)' /\ KindPc(l)' /\ CleanupOrder(l)' /\ Undelivered(l)'
      BY <1>1, <1>2, <1>3, <1>7
      DEF LogInv, AbsentClean, KindPc, CleanupOrder, Undelivered, Kind, PersistFails
    <2>2. RefundLast(l)'
      BY <1>1, <1>2, <1>3, <1>7 DEF LogInv, RefundLast, Kind
    <2>3. landed' = landed /\ landed[l] <= excused'[l] /\ excused'[l] >= excused[l]
      BY <1>1, <1>7 DEF PersistFails, TypeOK, LogInv, CopiesExcused, Undelivered,
         Holds, Kind
    <2>4. CopiesExcused(l)'
      BY <1>2, <1>4, <1>7, <2>3 DEF TypeOK, CopiesExcused, Holds, Kind
    <2>5. AttemptRows(l)'
      <3>1. out[k][l] = "ok" => landed[l] >= 1
        BY <1>1 DEF LogInv, CopiesExcused, Holds
      <3> QED BY <1>2, <1>3, <1>7, <2>3, <3>1 DEF AttemptRows, Kind
    <2> QED BY <1>5, <2>1, <2>2, <2>4, <2>5 DEF LogInv
  <1> QED BY <1>4, <1>5, <1>6, <1>8, UntouchedKeeps

(* The claimed log is not final and has no live job.                       *)
LEMMA ClaimIInv ==
  ASSUME IInv, Claim
  PROVE  IInv'
  <1> USE DeliveryAssumption DEF IInv
  <1>0. PICK l \in Log : l = worker.log
    BY DEF Claim, TypeOK
  <1>1. /\ worker.pc = "claim" /\ LogInv(l)
        /\ pc["live"][l] = "none" /\ pc["retry"][l] = "none" /\ age[l] >= 1
    BY <1>0 DEF Claim, TypeOK, LogInv, JobOwner
  <1>2. CASE status[l] \notin NonFinal
    <2>1. UNCHANGED <<db, jobs, file, age, cleaning, history>>
          /\ worker' = [worker EXCEPT !.pc = "next", !.log = None]
      BY <1>0, <1>2 DEF Claim, db, jobs
    <2>2. TypeOK'
      BY <2>1 DEF TypeOK, Claim, db, jobs, history
    <2>3. \A m \in Log : JobOwner(m)'
      BY <1>0, <1>1, <2>1 DEF LogInv, JobOwner, TypeOK, jobs
    <2> QED BY <2>1, <2>2, <2>3, WorkerFrame
  <1>3. CASE status[l] \in NonFinal
    <2>1. /\ status' = [status EXCEPT ![l] = "retrying"]
          /\ Goto("retry", l, "inspect")
          /\ worker' = [worker EXCEPT !.pc = "busy"]
          /\ UNCHANGED <<active, path, rows, prepared, refunds, file, age, stale, out,
                         seen, cleaning, sends, landed, excused, faults>>
      BY <1>0, <1>3 DEF Claim, SetStatus, history
    <2>2. /\ pc' \in [Kind -> [Log -> Pc]]
          /\ pc'["retry"][l] = "inspect"
          /\ \A kk \in Kind, ll \in Log : kk # "retry" \/ ll # l => pc'[kk][ll] = pc[kk][ll]
      BY <1>1, <2>1, GotoMoves DEF Kind, Pc
    <2>3. status' \in [Log -> Status] /\ status'[l] = "retrying"
          /\ \A m \in Log \ {l} : status'[m] = status[m]
      BY <1>1, <2>1 DEF TypeOK, Status, NonFinal
    <2>4. TypeOK'
      <3>1. /\ worker' \in [pc : {"idle", "recover", "recovering", "next", "claim", "busy"},
                              log : Log \cup {None}, todo : SUBSET Log]
            /\ worker'.log \in Log /\ worker'.pc = "busy"
        BY <1>0, <1>1, <2>1 DEF TypeOK
      <3> QED BY <2>1, <2>2, <2>3, <3>1 DEF TypeOK
    <2>5. worker'.pc = "busy" /\ worker'.log = l /\ worker'.todo = worker.todo
      BY <1>0, <2>1 DEF TypeOK
    <2>6. \A m \in Log : JobOwner(m)'
      BY <1>0, <1>1, <2>1, <2>2, <2>5 DEF LogInv, JobOwner, Kind
    <2>7. \A m \in Log \ {l} : Untouched(m)
      BY <1>1, <2>1, <2>2, <2>3 DEF Untouched, Kind
    <2>8. pc'["live"][l] = "none"
      BY <1>1, <2>2 DEF Kind
    <2>9. LogInv(l)'
      <3>1. AbsentClean(l)' /\ KindPc(l)' /\ CleanupOrder(l)' /\ Undelivered(l)'
        BY <1>1, <2>1, <2>2, <2>3, <2>8
        DEF LogInv, AbsentClean, KindPc, CleanupOrder, Undelivered, Kind
      <3>2. RefundLast(l)'
        BY <1>1, <1>3, <2>1, <2>2, <2>3, <2>8 DEF LogInv, RefundLast, NonFinal, Kind,
           TypeOK
      <3>3. CopiesExcused(l)'
        BY <1>1, <1>3, <2>1, <2>2, <2>3, <2>8 DEF LogInv, CopiesExcused, Holds,
           NonFinal, Kind
      <3>4. AttemptRows(l)'
        BY <1>1, <2>1, <2>2, <2>3, <2>8 DEF LogInv, AttemptRows
      <3> QED BY <2>6, <3>1, <3>2, <3>3, <3>4 DEF LogInv
    <2> QED BY <1>1, <2>4, <2>6, <2>7, <2>9, UntouchedKeeps
  <1> QED BY <1>2, <1>3

(* A crash drops every job; a copy whose record was pending is excused.    *)
LEMMA CrashIInv ==
  ASSUME IInv, Crash
  PROVE  IInv'
  <1> USE DeliveryAssumption DEF IInv
  <1>1. /\ \A k \in Kind, l \in Log : pc'[k][l] = "none"
        /\ pc' \in [Kind -> [Log -> Pc]]
        /\ worker' = Idle /\ cleaning' = {}
    BY DEF Crash, Pc
  <1>2. TypeOK'
    BY <1>1 DEF TypeOK, Crash, Fault, Idle, db
  <1>3. ASSUME NEW l \in Log PROVE LogInv(l)'
    <2>1. LogInv(l)
      OBVIOUS
    <2>2. pc'["live"][l] = "none" /\ pc'["retry"][l] = "none"
      BY <1>1 DEF Kind
    <2>3. /\ status' = status /\ path' = path /\ rows' = rows /\ refunds' = refunds
          /\ file' = file /\ age' = age /\ landed' = landed
      BY DEF Crash, db
    <2>4. AbsentClean(l)' /\ KindPc(l)' /\ JobOwner(l)' /\ Undelivered(l)'
      BY <1>1, <2>1, <2>2, <2>3 DEF LogInv, AbsentClean, KindPc, JobOwner, Undelivered,
         Kind, Idle
    <2>5. RefundLast(l)' /\ AttemptRows(l)' /\ CleanupOrder(l)'
      BY <1>1, <2>1, <2>2, <2>3 DEF LogInv, RefundLast, AttemptRows, CleanupOrder, Kind
    <2>6. CopiesExcused(l)'
      <3>1. excused'[l] = excused[l] + (IF \E k \in Kind : Holds(k, l) THEN 1 ELSE 0)
        BY DEF Crash, Holds
      <3>2. landed[l] \in Nat /\ excused[l] \in Nat
        BY DEF TypeOK
      <3> QED BY <2>1, <2>2, <2>3, <3>1, <3>2 DEF LogInv, CopiesExcused, Holds, Kind
    <2> QED BY <2>4, <2>5, <2>6 DEF LogInv
  <1> QED BY <1>2, <1>3

-----------------------------------------------------------------------------
(* Nothing happens: the invariant stays.                                   *)
LEMMA StutterIInv ==
  ASSUME IInv, UNCHANGED vars
  PROVE  IInv'
  <1>1. TypeOK' /\ \A l \in Log : JobOwner(l)'
    BY DEF vars, db, jobs, history, IInv, TypeOK, LogInv, JobOwner
  <1> QED BY <1>1, WorkerFrame DEF vars, db, jobs, history

(* The invariant is inductive: every handler, every fault and a crash at   *)
(* any point preserve it.                                                  *)
LEMMA NextIInv ==
  ASSUME IInv, [Next]_vars
  PROVE  IInv'
  <1>1. ASSUME NEW l \in Log,
               Accept(l) \/ LiveStep(l) \/ CleanStep(l) \/ GrowOlder(l) \/ ProcessingGoesStale(l)
        PROVE  IInv'
    BY <1>1, AcceptIInv, DispatchIInv, PrepareIInv, RouteIInv, CleanUnlinkIInv,
       CleanCloseIInv,
       CleanFailsIInv, GrowOlderIInv, ProcessingGoesStaleIInv
    DEF LiveStep, CleanStep
  <1>2. ASSUME NEW k \in Kind, NEW l \in Log, JobStep(k, l)
        PROVE  IInv'
    BY <1>2, SendIInv, PersistIInv, PersistFailsIInv, RefundIInv, RefundFailsIInv,
       PhotosDoneIInv,
       AbortForMigrationIInv, StepThrowsIInv, CatchResetIInv, CatchResetFailsIInv
    DEF JobStep
  <1>3. ASSUME WorkerStep PROVE IInv'
    BY <1>3, TickIInv, RecoveredIInv, SnapshotIInv, ClaimIInv, ClaimFailsIInv,
       RetryDoneIInv,
       RunEndsIInv, RecoverIInv, PickIInv, InspectIInv, RawReadFailsIInv, CloseIInv
    DEF WorkerStep
  <1>4. ASSUME NEW a \in Alias, SetAliasStatus(a) PROVE IInv'
    BY <1>4, SetAliasStatusIInv
  <1> QED BY <1>1, <1>2, <1>3, <1>4, CrashIInv, StutterIInv DEF Next

(* The inductive invariant holds in every reachable state.                 *)
THEOREM Invariance == Spec => []IInv
  <1>1. Init => IInv
    BY InitIInv
  <1>2. IInv /\ [Next]_vars => IInv'
    BY NextIInv
  <1> QED BY <1>1, <1>2, PTL DEF Spec

(* Type correctness of the delivery component.                             *)
THEOREM TypeCorrect == Spec => []TypeOK
  <1>1. IInv => TypeOK
    BY DEF IInv
  <1> QED BY <1>1, Invariance, PTL

(* A live delivery and the retry worker never work on the same log: a      *)
(* retry job is the worker's current log, which has no live job.           *)
THEOREM NeverTwoJobs == Spec => []OneJobPerLog
  <1>1. IInv => OneJobPerLog
    BY DEF IInv, LogInv, JobOwner, OneJobPerLog
  <1> QED BY <1>1, Invariance, PTL

(* Telegram accepts the text of a mail once, plus once per acceptance that *)
(* was lost or given up.                                                   *)
THEOREM DuplicatesAreExcused == Spec => []NoUnexcusedDuplicate
  <1>1. IInv => NoUnexcusedDuplicate
    BY DEF IInv, LogInv, CopiesExcused, NoUnexcusedDuplicate
  <1> QED BY <1>1, Invariance, PTL

(* The quota charge is refunded at most once, and then the log is          *)
(* permanently failed for good.                                            *)
THEOREM RefundOnce == Spec => []RefundIsFinal
  <1>1. IInv => RefundIsFinal
    BY DEF IInv, LogInv, RefundLast, RefundIsFinal
  <1> QED BY <1>1, Invariance, PTL

(* At most MAX_RETRIES attempts of a log are counted.                      *)
THEOREM BudgetKept == Spec => []RetryBudget
  <1>1. IInv => RetryBudget
    BY DEF IInv, LogInv, AttemptRows, RetryBudget
  <1> QED BY <1>1, Invariance, PTL

(* A log recorded as delivered has a successful attempt row and a message  *)
(* that Telegram accepted.                                                 *)
THEOREM DeliveredWasSent == Spec => []DeliveredIsRecorded
  <1>1. IInv => DeliveredIsRecorded
    BY DEF IInv, LogInv, AttemptRows, DeliveredIsRecorded
  <1> QED BY <1>1, Invariance, PTL

(* The raw file is there while its log may need it, and never without a    *)
(* log that refers to it.                                                  *)
THEOREM RawFileKept == Spec => []RawFileLifecycle
  <1>1. IInv => RawFileLifecycle
    BY DEF IInv, LogInv, CleanupOrder, RawFileLifecycle
  <1> QED BY <1>1, Invariance, PTL

-----------------------------------------------------------------------------
(* What a step does to the status of a log, to its refund and its copies.  *)

(* A status write that the promise allows.                                 *)
MayBecome(l, s) ==
  /\ s \in Status \ {"none"}
  /\ status[l] = "none" => s = "received"
  /\ s = "delivered" => landed[l] >= 1
  /\ s = "permanently_failed" => status[l] # "delivered"
  /\ refunds[l] = 0 \/ s = status[l]

(* A job of the log that is still running answers for the write, or the    *)
(* log was not final.                                                      *)
Answered(l, s) ==
  status[l] \in Final /\ s # status[l] => \E k \in Kind : pc[k][l] # "none"

StatusWrite(l, s) ==
  /\ SetStatus(l, s) /\ UNCHANGED <<refunds, landed>>
  /\ MayBecome(l, s) \/ s = status[l]
  /\ Answered(l, s)

(* Copies land on a log that is open or closed and not refunded.          *)
LandStep(l) ==
  /\ status[l] \notin {"none", "delivered"} /\ refunds[l] = 0
  /\ \E n \in Nat : landed' = [landed EXCEPT ![l] = @ + n]
  /\ UNCHANGED <<status, refunds>>

RefundStep(l) ==
  /\ status[l] = "permanently_failed" /\ refunds[l] = 0
  /\ refunds' = [refunds EXCEPT ![l] = @ + 1]
  /\ UNCHANGED <<status, landed>>

(* The effect of any step on the mails, as the promise sees it.            *)
Effect ==
  \/ UNCHANGED <<status, refunds, landed>>
  \/ \E l \in Log, s \in Status : StatusWrite(l, s)
  \/ \E l \in Log : LandStep(l) \/ RefundStep(l)

(* A running job that has not refunded works on a log with a row.          *)
LEMMA RunningJob ==
  ASSUME IInv, NEW k \in Kind, NEW l \in Log, pc[k][l] # "none"
  PROVE  refunds[l] = 0 /\ status[l] # "none" /\ LogInv(l)
  <1>1. LogInv(l) /\ refunds[l] \in Nat
    BY DEF IInv, TypeOK
  <1>2. status[l] # "none"
    BY <1>1 DEF LogInv, AbsentClean, Kind
  <1>3. refunds[l] <= 1 /\ refunds[l] # 1
    BY <1>1 DEF LogInv, RefundLast, Kind
  <1> QED BY <1>1, <1>2, <1>3

(* The steps of the live job and of acceptance, one effect each.           *)
LEMMA LogEffect ==
  ASSUME IInv, NEW l \in Log,
         Accept(l) \/ Recover(l) \/ LiveStep(l) \/ CleanStep(l) \/ Inspect(l)
         \/ RawReadFails(l) \/ Close(l)
  PROVE  Effect
  <1> USE DEF IInv
  <1>0. LogInv(l) /\ status[l] \in Status /\ refunds[l] \in Nat
    BY DEF TypeOK
  <1>1. ASSUME Accept(l) \/ Recover(l) PROVE StatusWrite(l, "received")
    BY <1>0, <1>1 DEF Accept, Recover, CreateLog, StatusWrite, MayBecome, Answered,
       LogInv,
       AbsentClean, Status, NonFinal, Final, history
  <1>2. ASSUME Prepare(l), active[AliasOf[l]] PROVE StatusWrite(l, "processing")
    <2>1. /\ pc["live"][l] = "prep" /\ SetStatus(l, "processing")
          /\ UNCHANGED <<refunds, landed>>
      BY <1>2 DEF Prepare, history
    <2> QED BY <2>1, RunningJob DEF StatusWrite, MayBecome, Answered, Status, NonFinal,
               Kind
  <1>3. ASSUME Close(l) PROVE StatusWrite(l, "permanently_failed")
    <2>1. /\ pc["retry"][l] = "close" /\ SetStatus(l, "permanently_failed")
          /\ UNCHANGED <<refunds, landed>>
      BY <1>3 DEF Close, history
    <2> QED BY <1>0, <2>1, RunningJob
        DEF StatusWrite, MayBecome, Answered, LogInv, Undelivered, Status, Final, Kind
  <1>4. ASSUME CleanClose(l) PROVE \E s \in Status : StatusWrite(l, s)
    <2>1. UNCHANGED <<refunds, landed>>
      BY <1>4 DEF CleanClose, history
    <2>2. CASE status[l] \in NonFinal
      <3>1. SetStatus(l, "permanently_failed")
        BY <1>4, <2>2 DEF CleanClose
      <3>2. refunds[l] = 0
        BY <1>0, <2>2 DEF LogInv, RefundLast, NonFinal
      <3> QED BY <2>1, <2>2, <3>1, <3>2
          DEF StatusWrite, MayBecome, Answered, Status, NonFinal, Final
    <2>3. CASE status[l] \notin NonFinal
      <3>1. SetStatus(l, status[l])
        BY <1>4, <2>3 DEF CleanClose
      <3> QED BY <1>0, <2>1, <3>1 DEF StatusWrite, Answered
    <2> QED BY <2>2, <2>3
  <1>5. ASSUME \/ Dispatch(l) \/ Route(l) \/ Inspect(l) \/ RawReadFails(l) \/ CleanUnlink(l) \/ CleanFails(l)
               \/ Prepare(l) /\ ~active[AliasOf[l]]
        PROVE  UNCHANGED <<status, refunds, landed>>
    BY <1>5 DEF Dispatch, Route, Inspect, RawReadFails, CleanUnlink, CleanFails,
       Prepare, db, history
  <1>6. {"received", "processing", "permanently_failed"} \subseteq Status
    BY DEF Status, NonFinal, Final
  <1> QED BY <1>1, <1>2, <1>3, <1>4, <1>5, <1>6 DEF LiveStep, CleanStep, Effect

(* The steps of the tail that both jobs share.                             *)
LEMMA JobEffect ==
  ASSUME IInv, NEW k \in Kind, NEW l \in Log, JobStep(k, l)
  PROVE  Effect
  <1> USE DEF IInv
  <1>0. pc[k][l] # "none"
    BY DEF JobStep, Send, Persist, PersistFails, Refund, RefundFails, PhotosDone,
       AbortForMigration, StepThrows, CatchReset, CatchResetFails
  <1>1. refunds[l] = 0 /\ status[l] # "none" /\ LogInv(l)
    BY <1>0, RunningJob
  <1>2. ASSUME NEW s \in {"failed", "permanently_failed"}, SetStatus(l, s),
               UNCHANGED <<refunds, landed>>,
               s = "permanently_failed" => status[l] # "delivered"
        PROVE  Effect
    <2>1. s \in Status
      BY DEF Status, NonFinal, Final
    <2>2. StatusWrite(l, s)
      BY <1>0, <1>1, <1>2, <2>1 DEF StatusWrite, MayBecome, Answered
    <2> QED BY <2>1, <2>2 DEF Effect
  <1>3. ASSUME pc[k][l] = "persist", RecordOutcome(k, l), landed' = landed
        PROVE  Effect
    <2>1. /\ SetStatus(l, OutcomeStatus(k, l)) /\ UNCHANGED <<refunds, landed>>
      BY <1>3 DEF RecordOutcome
    <2>2. status[l] # "delivered" /\ (out[k][l] = "ok" => landed[l] >= 1)
      BY <1>1, <1>3 DEF LogInv, Undelivered, CopiesExcused, Holds
    <2>3. CASE out[k][l] = "ok"
      <3>1. OutcomeStatus(k, l) = "delivered" /\ "delivered" \in Status
        BY <2>3 DEF OutcomeStatus, Status, Final
      <3>2. StatusWrite(l, "delivered")
        BY <1>0, <1>1, <2>1, <2>2, <2>3, <3>1 DEF StatusWrite, MayBecome, Answered
      <3> QED BY <3>1, <3>2 DEF Effect
    <2>4. CASE out[k][l] # "ok"
      <3>1. OutcomeStatus(k, l) \in {"failed", "permanently_failed"}
        BY <2>4 DEF OutcomeStatus
      <3> QED BY <1>2, <2>1, <2>2, <3>1
    <2> QED BY <2>3, <2>4
  <1>4. CASE Send(k, l)
    <2>1. pc[k][l] = "send" /\ UNCHANGED <<status, refunds>>
      BY <1>4 DEF Send, db
    <2>2. PICK o \in Out, lost \in 0..SendTries :
            landed' = [landed EXCEPT ![l] = @ + lost + (IF o = "ok" THEN 1 ELSE 0)]
      BY <1>4 DEF Send
    <2>3. \E n \in Nat : landed' = [landed EXCEPT ![l] = @ + n]
      <3> DEFINE n == lost + (IF o = "ok" THEN 1 ELSE 0)
      <3>1. n \in Nat /\ landed[l] + n = landed[l] + lost + (IF o = "ok" THEN 1 ELSE 0)
        BY DeliveryAssumption DEF TypeOK
      <3>2. landed' = [landed EXCEPT ![l] = @ + n]
        BY <2>2, <3>1
      <3> QED BY <3>1, <3>2
    <2> QED BY <1>1, <2>1, <2>3 DEF Effect, LandStep, LogInv, Undelivered
  <1>5. CASE Persist(k, l)
    BY <1>3, <1>5 DEF Persist, history
  <1>6. CASE PersistFails(k, l)
    BY <1>3, <1>6 DEF PersistFails, Effect, db
  <1>7. CASE Refund(k, l)
    BY <1>1, <1>7 DEF Refund, Effect, RefundStep, LogInv, RefundLast, history
  <1>8. CASE RefundFails(k, l) \/ PhotosDone(k, l) \/ CatchResetFails(k, l)
    BY <1>8 DEF RefundFails, PhotosDone, CatchResetFails, Effect, db, history
  <1>9. CASE AbortForMigration(k, l) \/ CatchReset(k, l)
    BY <1>2, <1>9 DEF AbortForMigration, CatchReset, history
  <1>10. CASE StepThrows(k, l)
    <2>1. UNCHANGED <<refunds, landed>>
      BY <1>10 DEF StepThrows, history
    <2>2. CASE UNCHANGED status
      BY <2>1, <2>2 DEF Effect
    <2>3. CASE pc[k][l] = "close" /\ SetStatus(l, "permanently_failed")
      BY <1>1, <1>2, <2>1, <2>3 DEF LogInv, Undelivered
    <2> QED BY <1>10, <2>2, <2>3 DEF StepThrows
  <1> QED BY <1>4, <1>5, <1>6, <1>7, <1>8, <1>9, <1>10 DEF JobStep

(* The claim moves a log that is not final, hence not refunded, to         *)
(* "retrying".                                                             *)
LEMMA ClaimEffect ==
  ASSUME IInv, Claim
  PROVE  Effect
  <1>1. PICK l \in Log : l = worker.log
    BY DEF Claim, IInv, TypeOK
  <1>2. UNCHANGED <<refunds, landed>> /\ LogInv(l) /\ refunds[l] \in Nat
    BY DEF Claim, history, IInv, TypeOK
  <1>3. CASE status[l] \in NonFinal
    <2>1. SetStatus(l, "retrying") /\ refunds[l] = 0
      BY <1>1, <1>2, <1>3 DEF Claim, LogInv, RefundLast, NonFinal
    <2>2. StatusWrite(l, "retrying") /\ "retrying" \in Status
      BY <1>2, <1>3, <2>1 DEF StatusWrite, MayBecome, Answered, Status, NonFinal, Final
    <2> QED BY <2>2 DEF Effect
  <1>4. CASE status[l] \notin NonFinal
    BY <1>1, <1>2, <1>4 DEF Claim, Effect
  <1> QED BY <1>3, <1>4

(* Every step has one of the effects.                                      *)
LEMMA StepEffect ==
  ASSUME IInv, [Next]_vars
  PROVE  Effect
  <1>1. ASSUME NEW l \in Log,
               Accept(l) \/ LiveStep(l) \/ CleanStep(l) \/ GrowOlder(l) \/ ProcessingGoesStale(l)
        PROVE  Effect
    BY <1>1, LogEffect DEF GrowOlder, ProcessingGoesStale, Effect, db, history
  <1>2. ASSUME WorkerStep PROVE Effect
    <2>1. ASSUME NEW l \in Log, Recover(l) \/ Pick(l) \/ Inspect(l) \/ RawReadFails(l) \/ Close(l)
          PROVE  Effect
      BY <2>1, LogEffect DEF Pick, Effect, db, history
    <2>2. CASE Tick \/ Recovered \/ Snapshot \/ ClaimFails \/ RetryDone \/ RunEnds
      BY <2>2 DEF Tick, Recovered, Snapshot, ClaimFails, RetryDone, RunEnds, Effect,
         db, history
    <2> QED BY <1>2, <2>1, <2>2, ClaimEffect DEF WorkerStep
  <1>3. ASSUME NEW a \in Alias, SetAliasStatus(a) PROVE Effect
    BY <1>3 DEF SetAliasStatus, Effect, db, history
  <1>4. ASSUME Crash \/ UNCHANGED vars PROVE Effect
    BY <1>4 DEF Crash, vars, Effect, db, history
  <1> QED BY <1>1, <1>2, <1>3, <1>4, JobEffect DEF Next

(* A final status is overwritten only while a job of its log runs, and     *)
(* never after the refund.                                                 *)
THEOREM SettledStaysSettled == Spec => FinalLeftOnlyByRunningJob
  <1>1. IInv /\ [Next]_vars => FinalKept
    <2> SUFFICES ASSUME IInv, [Next]_vars, NEW l \in Log,
                        status[l] \in Final, status'[l] # status[l]
                 PROVE  refunds[l] = 0 /\ \E k \in Kind : pc[k][l] # "none"
      BY DEF FinalKept
    <2>1. PICK m \in Log, s \in Status : StatusWrite(m, s)
      BY StepEffect DEF Effect, LandStep, RefundStep
    <2>2. m = l /\ s = status'[l]
      BY <2>1 DEF StatusWrite, SetStatus, IInv, TypeOK
    <2> QED BY <2>1, <2>2 DEF StatusWrite, MayBecome, Answered
  <1>2. IInv /\ [Next]_vars => [FinalKept]_vars
    BY <1>1
  <1> QED BY <1>2, Invariance, PTL DEF Spec, FinalLeftOnlyByRunningJob

(* The phase map moves exactly at the log whose status is written.         *)
LEMMA PhaseMoves ==
  ASSUME TypeOK, NEW l \in Log, NEW s \in Status, SetStatus(l, s)
  PROVE  [m \in Log |-> Phase(status'[m])]
           = [[m \in Log |-> Phase(status[m])] EXCEPT ![l] = Phase(s)]
  BY DEF TypeOK, SetStatus

(* The initial states of the component are those of the promise.           *)
LEMMA PromiseInit == Init => Promise!Init
  <1> SUFFICES ASSUME Init PROVE Promise!Init
    OBVIOUS
  <1>1. [l \in Log |-> Phase(status[l])] = [l \in Log |-> "absent"]
    BY DEF Init, Phase
  <1>2. [l \in Log |-> refunds[l] > 0] = [l \in Log |-> FALSE]
    <2>1. \A l \in Log : ~(refunds[l] > 0)
      BY DEF Init
    <2>2. \A l \in Log : (refunds[l] > 0) = FALSE
      BY <2>1
    <2> QED BY <2>2, Zenon
  <1> QED BY <1>1, <1>2 DEF Init, Promise!Init

(* Every step is a step of the promise, or leaves it alone.                *)
LEMMA PromiseStep ==
  ASSUME IInv, Effect
  PROVE  [Promise!Next]_(Promise!promiseVars)
  <1> USE DEF IInv
  <1>1. CASE UNCHANGED <<status, refunds, landed>>
    BY <1>1 DEF Promise!promiseVars
  <1>2. ASSUME NEW l \in Log, NEW s \in Status, StatusWrite(l, s)
        PROVE  [Promise!Next]_(Promise!promiseVars)
    <2>1. SetStatus(l, s) /\ UNCHANGED <<refunds, landed>>
      BY <1>2 DEF StatusWrite
    <2>2. [m \in Log |-> Phase(status'[m])]
            = [[m \in Log |-> Phase(status[m])] EXCEPT ![l] = Phase(s)]
      BY <2>1, PhaseMoves
    <2>3. [m \in Log |-> refunds'[m] > 0] = [m \in Log |-> refunds[m] > 0]
      BY <2>1
    <2>4. CASE Phase(s) = Phase(status[l])
      <3>1. [m \in Log |-> Phase(status'[m])] = [m \in Log |-> Phase(status[m])]
        BY <2>2, <2>4
      <3> QED BY <2>1, <2>3, <3>1 DEF Promise!promiseVars
    <2>5. CASE Phase(s) # Phase(status[l])
      <3>1. MayBecome(l, s) /\ refunds[l] = 0
        BY <1>2, <2>5 DEF StatusWrite, MayBecome
      <3>2. CASE status[l] = "none"
        <4>1. s = "received"
          BY <3>1, <3>2 DEF MayBecome
        <4>2. Promise!Accept(l)
          BY <2>1, <2>2, <2>3, <3>2, <4>1 DEF Promise!Accept, Promise!Move, Phase
        <4> QED BY <4>2 DEF Promise!Next
      <3>3. CASE status[l] # "none" /\ s = "delivered"
        <4>1. Phase(status[l]) \in {"open", "closed"}
          BY <2>5, <3>3 DEF Phase
        <4>2. landed[l] >= 1
          BY <3>1, <3>3 DEF MayBecome
        <4>3. Phase(s) = "delivered" /\ ~(refunds[l] > 0)
          BY <3>1, <3>3 DEF Phase
        <4>4. Promise!Move(l, {"open", "closed"}, "delivered")
          BY <2>1, <2>2, <2>3, <4>1, <4>3 DEF Promise!Move
        <4>5. Promise!Deliver(l)
          BY <4>2, <4>3, <4>4 DEF Promise!Deliver
        <4> QED BY <4>5 DEF Promise!Next
      <3>4. CASE status[l] # "none" /\ s = "permanently_failed"
        <4>1. status[l] # "delivered"
          BY <3>1, <3>4 DEF MayBecome
        <4>2. Phase(status[l]) = "open"
          BY <2>5, <3>4, <4>1 DEF Phase
        <4>3. Promise!CloseLost(l)
          BY <2>1, <2>2, <2>3, <3>4, <4>2 DEF Promise!CloseLost, Promise!Move, Phase
        <4> QED BY <4>3 DEF Promise!Next
      <3>5. CASE status[l] # "none" /\ s \notin Final
        <4>1. Phase(s) = "open" /\ Phase(status[l]) \in {"delivered", "closed"}
          BY <2>5, <3>1, <3>5 DEF Phase, Final, MayBecome
        <4>2. ~(refunds[l] > 0)
          BY <3>1
        <4>3. Promise!Move(l, {"delivered", "closed"}, "open")
          BY <2>1, <2>2, <2>3, <4>1 DEF Promise!Move
        <4>4. Promise!Reopen(l)
          BY <4>2, <4>3 DEF Promise!Reopen
        <4> QED BY <4>4 DEF Promise!Next
      <3> QED BY <3>2, <3>3, <3>4, <3>5 DEF Final
    <2> QED BY <2>4, <2>5
  <1>3. ASSUME NEW l \in Log, LandStep(l)
        PROVE  [Promise!Next]_(Promise!promiseVars)
    <2>1. PICK n \in Nat : landed' = [landed EXCEPT ![l] = @ + n]
      BY <1>3 DEF LandStep
    <2>2. CASE n = 0
      <3>1. landed' = landed
        BY <2>1, <2>2 DEF TypeOK
      <3> QED BY <1>3, <3>1 DEF LandStep, Promise!promiseVars
    <2>3. CASE n # 0
      <3>1. Phase(status[l]) \in {"open", "closed"}
        BY <1>3 DEF LandStep, Phase
      <3>2. ~(refunds[l] > 0) /\ UNCHANGED <<status, refunds>>
        BY <1>3 DEF LandStep
      <3>3. landed'[l] > landed[l] /\ landed' = [landed EXCEPT ![l] = landed'[l]]
        BY <2>1, <2>3 DEF TypeOK
      <3>4. Promise!Land(l)
        BY <3>1, <3>2, <3>3 DEF Promise!Land
      <3> QED BY <3>4 DEF Promise!Next
    <2> QED BY <2>2, <2>3
  <1>4. ASSUME NEW l \in Log, RefundStep(l)
        PROVE  [Promise!Next]_(Promise!promiseVars)
    <2>1. refunds' = [refunds EXCEPT ![l] = 1] /\ refunds[l] = 0 /\ refunds \in [Log -> Nat]
      BY <1>4 DEF RefundStep, TypeOK
    <2>2. [m \in Log |-> refunds'[m] > 0] = [[m \in Log |-> refunds[m] > 0] EXCEPT ![l] = TRUE]
      <3>1. \A m \in Log : (refunds'[m] > 0) = (IF m = l THEN TRUE ELSE refunds[m] > 0)
        <4>1. ASSUME NEW m \in Log PROVE refunds'[m] = IF m = l THEN 1 ELSE refunds[m]
          BY <2>1
        <4>2. ASSUME NEW m \in Log, m = l PROVE (refunds'[m] > 0) = TRUE
          <5>1. refunds'[m] > 0
            BY <4>1, <4>2
          <5> QED BY <5>1
        <4>3. ASSUME NEW m \in Log, m # l PROVE (refunds'[m] > 0) = (refunds[m] > 0)
          BY <4>1, <4>3
        <4> QED BY <4>2, <4>3, Zenon
      <3> QED BY <3>1, Zenon
    <2>3. Promise!Refund(l)
      <3>1. ~(refunds[l] > 0) /\ UNCHANGED <<status, landed>> /\ status[l] = "permanently_failed"
        BY <1>4, <2>1 DEF RefundStep
      <3>2. Phase(status[l]) = "closed"
        BY <3>1 DEF Phase
      <3> QED BY <2>2, <3>1, <3>2 DEF Promise!Refund
    <2> QED BY <2>3 DEF Promise!Next
  <1> QED BY <1>1, <1>2, <1>3, <1>4 DEF Effect

(* The delivery component implements DeliveryPromise.                      *)
THEOREM Refinement == Spec => KeepsPromise
  <1>1. Init => Promise!Init
    BY PromiseInit
  <1>2. IInv /\ [Next]_vars => [Promise!Next]_(Promise!promiseVars)
    BY StepEffect, PromiseStep
  <1> QED BY <1>1, <1>2, Invariance, PTL DEF Spec, KeepsPromise, Promise!Spec

-----------------------------------------------------------------------------
(* The in-flight cap.  A request starts a job only after it has counted    *)
(* every tracked one; every other step leaves the counted set or shrinks   *)
(* it.  The set is finite without an assumption on Log: it starts empty    *)
(* and grows one job at a time.                                            *)

Capped == {l \in Log : /\ LiveActive(l)
                       /\ ~(worker.pc = "recovering" /\ worker.log = l)}

CapInv == IsFiniteSet(Capped) /\ Cardinality(Capped) <= MaxInflight

(* A set of jobs that loses some stays under the cap.                      *)
LEMMA CapShrinks ==
  ASSUME CapInv, Capped' \subseteq Capped
  PROVE  CapInv'
  <1>1. Cardinality(Capped) \in Nat /\ IsFiniteSet(Capped)
    BY FS_CardinalityType DEF CapInv
  <1>2. IsFiniteSet(Capped') /\ Cardinality(Capped') <= Cardinality(Capped)
    BY <1>1, FS_Subset
  <1>3. Cardinality(Capped') \in Nat
    BY <1>2, FS_CardinalityType
  <1>4. Cardinality(Capped) <= MaxInflight /\ MaxInflight \in Nat
    BY DeliveryAssumption DEF CapInv
  <1>5. Cardinality(Capped') <= MaxInflight
    BY <1>1, <1>2, <1>3, <1>4
  <1> QED BY <1>2, <1>5 DEF CapInv

(* While the worker stays where it is, a move of a job that is tracked     *)
(* already, or to a state that is not, starts nothing.                     *)
LEMMA CapMoves ==
  ASSUME TypeOK, NEW k \in Kind, NEW l \in Log, NEW p \in Pc, Goto(k, l, p), UNCHANGED worker,
         k = "retry" \/ p \in {"none", "queued"} \/ LiveActive(l)
  PROVE  Capped' \subseteq Capped
  <1>1. \A m \in Log : m # l \/ k # "live" => pc'["live"][m] = pc["live"][m]
    BY GotoMoves DEF Kind
  <1>2. pc'[k][l] = p
    BY GotoMoves
  <1>3. \A m \in Log : LiveActive(m)' => LiveActive(m)
    BY <1>1, <1>2 DEF LiveActive, Kind
  <1> QED BY <1>3 DEF Capped

(* A step that starts and moves no live job disturbs the count only by the *)
(* end of a recovery, which has no job left by then.                       *)
LEMMA CapWorker ==
  ASSUME TypeOK, UNCHANGED pc["live"],
         worker.pc = "recovering" => \/ UNCHANGED worker
                                     \/ pc["live"][worker.log] = "none"
  PROVE  Capped' \subseteq Capped
  BY DEF Capped, LiveActive

(* The check of the in-flight cap and the start of the job are one step.   *)
LEMMA CapDispatch ==
  ASSUME IInv, CapInv, NEW l \in Log, Dispatch(l)
  PROVE  CapInv'
  <1> DEFINE L == {m \in Log : LiveActive(m)}
             R == {m \in Log : RetryActive(m)}
             w == worker.log
  <1>1. TypeOK /\ \A m \in Log : JobOwner(m)
    BY DEF IInv, LogInv
  <1>2. CASE InFlight >= MaxInflight
    <2>1. Goto("live", l, "none") /\ UNCHANGED worker
      BY <1>2 DEF Dispatch
    <2> QED BY <1>1, <2>1, CapMoves, CapShrinks DEF Kind, Pc
  <1>3. CASE ~(InFlight >= MaxInflight)
    <2>1. Goto("live", l, "prep") /\ UNCHANGED worker
      BY <1>3 DEF Dispatch
    <2>2. IsFiniteSet(Capped) /\ IsFiniteSet({w})
      BY FS_Singleton DEF CapInv
    <2>3. IsFiniteSet(Capped \cup {w})
      BY <2>2, FS_AddElement
    <2>4. L \subseteq Capped \cup {w} /\ R \subseteq {w} /\ Capped \subseteq L
      BY <1>1 DEF Capped, JobOwner, RetryActive
    <2>5. IsFiniteSet(L) /\ IsFiniteSet(R)
      BY <2>2, <2>3, <2>4, FS_Subset
    <2>6. Cardinality(L) \in Nat /\ Cardinality(R) \in Nat /\ Cardinality(Capped) \in Nat
      BY <2>2, <2>5, FS_CardinalityType
    <2>7. Cardinality(Capped) <= Cardinality(L)
      BY <2>4, <2>5, FS_Subset
    <2>8. Cardinality(L) + Cardinality(R) < MaxInflight
      <3>1. InFlight = Cardinality(L) + Cardinality(R)
        BY DEF InFlight
      <3> HIDE DEF L, R
      <3> QED BY <1>3, <2>6, <3>1, DeliveryAssumption
    <2>9. Capped' \subseteq Capped \cup {l}
      <3>1. \A m \in Log : m # l => pc'["live"][m] = pc["live"][m]
        BY <1>1, <2>1, GotoMoves DEF Kind, Pc
      <3> QED BY <2>1, <3>1 DEF Capped, LiveActive
    <2> HIDE DEF L, R, w
    <2>10. IsFiniteSet(Capped \cup {l}) /\ Cardinality(Capped \cup {l}) <= Cardinality(Capped) + 1
      BY <2>2, <2>6, FS_AddElement
    <2>11. Cardinality(Capped \cup {l}) \in Nat
      BY <2>10, FS_CardinalityType
    <2>12. IsFiniteSet(Capped') /\ Cardinality(Capped') <= Cardinality(Capped \cup {l})
      BY <2>9, <2>10, FS_Subset
    <2>13. Cardinality(Capped') \in Nat
      BY <2>12, FS_CardinalityType
    <2>14. Cardinality(Capped') <= MaxInflight
      BY <2>6, <2>7, <2>8, <2>10, <2>11, <2>12, <2>13, DeliveryAssumption
    <2> QED BY <2>12, <2>14 DEF CapInv
  <1> QED BY <1>2, <1>3

(* A recovered mail's job is the worker's own: the worker recovered        *)
(* nothing else at that moment.                                            *)
LEMMA CapRecover ==
  ASSUME TypeOK, NEW l \in Log, Recover(l)
  PROVE  Capped' \subseteq Capped
  <1>1. worker.pc = "recover" /\ worker' = [worker EXCEPT !.pc = "recovering", !.log = l]
        /\ Goto("live", l, "prep")
    BY DEF Recover
  <1>2. worker'.pc = "recovering" /\ worker'.log = l
    BY <1>1 DEF TypeOK
  <1>3. \A m \in Log : m # l => pc'["live"][m] = pc["live"][m]
    BY <1>1, GotoMoves DEF Kind, Pc
  <1> QED BY <1>1, <1>2, <1>3 DEF Capped, LiveActive

(* The steps of the tail both jobs share.                                  *)
LEMMA CapJob ==
  ASSUME IInv, NEW k \in Kind, NEW l \in Log, JobStep(k, l)
  PROVE  Capped' \subseteq Capped
  <1>1. TypeOK /\ pc[k][l] \notin {"none", "queued"} /\ UNCHANGED worker
    BY DEF IInv, JobStep, Send, Persist, PersistFails, Refund, RefundFails, PhotosDone,
           AbortForMigration, StepThrows, CatchReset, CatchResetFails
  <1>2. \E p \in Pc : Goto(k, l, p)
    BY DEF JobStep, Send, Persist, PersistFails, Refund, RefundFails, PhotosDone,
           AbortForMigration, StepThrows, CatchReset, CatchResetFails, AfterPersist, Pc
  <1>3. k = "retry" \/ LiveActive(l)
    BY <1>1 DEF Kind, LiveActive
  <1> QED BY <1>1, <1>2, <1>3, CapMoves

(* Acceptance, the live job after its start, and the retry job.            *)
LEMMA CapLog ==
  ASSUME IInv, NEW l \in Log,
         Accept(l) \/ Prepare(l) \/ Route(l) \/ Inspect(l) \/ RawReadFails(l) \/ Close(l)
  PROVE  Capped' \subseteq Capped
  <1>1. TypeOK
    BY DEF IInv
  <1>2. UNCHANGED worker
    BY DEF Accept, Prepare, Route, Inspect, RawReadFails, Close
  <1>3. CASE Accept(l)
    BY <1>1, <1>2, <1>3, CapMoves DEF Accept, Kind, Pc
  <1>4. CASE Prepare(l) \/ Route(l)
    <2>1. LiveActive(l) /\ \E p \in Pc : Goto("live", l, p)
      BY <1>4 DEF Prepare, Route, LiveActive, Pc
    <2> QED BY <1>1, <1>2, <2>1, CapMoves DEF Kind
  <1>5. CASE Inspect(l) \/ RawReadFails(l) \/ Close(l)
    <2>1. \E p \in Pc : Goto("retry", l, p)
      BY <1>5 DEF Inspect, RawReadFails, Close, Pc
    <2> QED BY <1>1, <1>2, <2>1, CapMoves DEF Kind
  <1> QED BY <1>3, <1>4, <1>5

(* The worker's own steps.                                                 *)
LEMMA CapRun ==
  ASSUME IInv, Tick \/ Recovered \/ Snapshot \/ Claim \/ ClaimFails \/ RetryDone \/ RunEnds
               \/ \E l \in Log : Pick(l)
  PROVE  Capped' \subseteq Capped
  <1>1. TypeOK
    BY DEF IInv
  <1>2. CASE ~Claim
    <2>1. UNCHANGED pc
      BY <1>2 DEF Tick, Recovered, Snapshot, ClaimFails, RetryDone, RunEnds, Pick, jobs
    <2>2. worker.pc = "recovering" => pc["live"][worker.log] = "none"
      BY <1>2 DEF Tick, Recovered, Snapshot, ClaimFails, RetryDone, RunEnds, Pick
    <2> QED BY <1>1, <2>1, <2>2, CapWorker
  <1>3. CASE Claim
    <2>1. worker.pc = "claim" /\ worker.log \in Log
      BY <1>1, <1>3 DEF Claim, TypeOK
    <2>2. UNCHANGED pc \/ Goto("retry", worker.log, "inspect")
      BY <1>3 DEF Claim
    <2>3. \A m \in Log : pc'["live"][m] = pc["live"][m]
      BY <1>1, <2>1, <2>2, GotoMoves DEF Kind, Pc
    <2> QED BY <2>1, <2>3 DEF Capped, LiveActive
  <1> QED BY <1>2, <1>3

(* No step takes the deliveries started by requests over the cap.          *)
LEMMA CapStep ==
  ASSUME IInv, CapInv, [Next]_vars
  PROVE  CapInv'
  <1>1. TypeOK
    BY DEF IInv
  <1>2. ASSUME UNCHANGED <<pc, worker>> PROVE CapInv'
    BY <1>1, <1>2, CapWorker, CapShrinks
  <1>3. ASSUME NEW l \in Log, CleanStep(l) \/ GrowOlder(l) \/ ProcessingGoesStale(l)
        PROVE  CapInv'
    BY <1>2, <1>3 DEF CleanStep, CleanUnlink, CleanClose, CleanFails, GrowOlder,
                      ProcessingGoesStale, jobs
  <1>4. ASSUME NEW l \in Log, Accept(l) \/ LiveStep(l) PROVE CapInv'
    BY <1>4, CapLog, CapDispatch, CapShrinks DEF LiveStep
  <1>5. ASSUME WorkerStep PROVE CapInv'
    BY <1>1, <1>5, CapRun, CapRecover, CapLog, CapShrinks DEF WorkerStep
  <1>6. ASSUME NEW a \in Alias, SetAliasStatus(a) PROVE CapInv'
    BY <1>2, <1>6 DEF SetAliasStatus, jobs
  <1>7. ASSUME Crash PROVE CapInv'
    <2>1. \A l \in Log : pc'["live"][l] = "none"
      BY <1>7 DEF Crash, Kind
    <2>2. Capped' \subseteq Capped
      BY <2>1 DEF Capped, LiveActive
    <2> QED BY <2>2, CapShrinks
  <1>8. ASSUME UNCHANGED vars PROVE CapInv'
    BY <1>2, <1>8 DEF vars, jobs
  <1> QED BY <1>3, <1>4, <1>5, <1>6, <1>7, <1>8, CapJob, CapShrinks DEF Next

(* The deliveries started by requests never exceed config.maxInflight-     *)
(* Deliveries, whatever the retry worker, crashes and faults do meanwhile. *)
THEOREM CapHolds == Spec => []InFlightBounded
  <1>1. Init => CapInv
    <2>1. ASSUME Init PROVE Capped = {}
      BY <2>1 DEF Init, Capped, LiveActive, Kind
    <2> QED BY <2>1, FS_EmptySet, DeliveryAssumption DEF CapInv
  <1>2. IInv /\ CapInv /\ [Next]_vars => CapInv'
    BY CapStep
  <1>3. CapInv => InFlightBounded
    BY DEF CapInv, Capped, InFlightBounded
  <1> QED BY <1>1, <1>2, <1>3, Invariance, PTL DEF Spec

=============================================================================
