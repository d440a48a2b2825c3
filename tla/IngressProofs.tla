---------------------------- MODULE IngressProofs ----------------------------
(***************************************************************************)
(* Proofs about Ingress, for all mails, limits, months, windows and tries. *)
(*                                                                         *)
(* IInv has three independent parts besides the types: Signatures, why a   *)
(* nonce outlives every copy of its upload; Answers, what the worker was   *)
(* told; and Quota, what a fired notice knows about its month.             *)
(***************************************************************************)
EXTENDS Ingress, TLAPS

USE DEF ledger

(* Try t of mail m is not signed yet.                                      *)
Unsent(m, t) ==
  \/ t > mta[m].tries
  \/ /\ t = mta[m].tries
     /\ \/ worker[m].pc \in {"preflight", "decide"}
        \/ worker[m].pc = "answered" /\ worker[m].answer = "accept"

Tried == \A m \in Mail : worker[m].pc # "idle" => mta[m].tries > 0

(* Nothing of an unsigned try is anywhere.                                 *)
Ordered ==
  /\ \A u \in wire : ~Unsent(u.mail, u.try)
  /\ \A h \in handling : ~Unsent(h.mail, h.try)
  /\ \A m \in Mail, t \in 1..MaxTries : processed[<<m, t>>] > 0 => ~Unsent(m, t)

(* A nonce of the signature that is at most so old.                        *)
Guarded(sig, a) == \E n \in nonces : n.sig = sig /\ n.age <= a

(* A copy of a processed upload is too old, or meets the nonce in time.    *)
Guards ==
  /\ \A u \in wire :
       processed[<<u.mail, u.try>>] > 0 =>
         u.age > MaxAge \/ Guarded(<<u.mail, u.try>>, u.age + MaxSkew)
  /\ \A h \in handling :
       processed[<<h.mail, h.try>>] > 0 /\ h.pc = "nonce" =>
         Guarded(<<h.mail, h.try>>, MaxAge + MaxSkew + h.age)

Signatures == Tried /\ Ordered /\ Guards /\ UploadPassesOnce

(* A permanent answer follows a decision.                                  *)
Answers ==
  /\ BounceIsDecided
  /\ \A m \in Mail : Permanent(worker[m].answer) => m \in decided

(* A notice about to be sent holds its claim alone, and a monthly one is   *)
(* about a month that reached its limit, whatever was refunded since.      *)
Sending == {t \in tasks : t.step = "send"}

OneSender ==
  /\ \A t \in Sending : KeyOf(t) \in claims /\ sends[KeyOf(t)] = 0
  /\ \A s, t \in Sending : KeyOf(s) = KeyOf(t) => s = t
  /\ \A k \in Key : sends[k] <= 1 /\ (sends[k] > 0 => k \in claims)

Exhausted ==
  /\ \A k \in Month : count[k] >= Limit => k \in full
  /\ \A t \in tasks : t.reason = "monthly" => t.month \in full
  /\ \A k \in Month : <<"monthly", k>> \in claims => k \in full

(* The warning of a month that needs one is claimed, failed or under way.  *)
Coming(k) == \E t \in tasks : t.reason = "approaching" /\ t.month = k /\ InBand(t)

Warning ==
  Threshold < Limit =>
    \A k \in Month :
      count[k] >= Threshold => <<"approaching", k>> \in claims \/ k \in failed \/ Coming(k)

Quota == OneSender /\ Exhausted /\ Warning

IInv == TypeOK /\ Signatures /\ Answers /\ Quota

-----------------------------------------------------------------------------
(* The invocations of the worker.                                          *)

PC == {"idle", "preflight", "decide", "answered", "uploading"}

(* Only the invocation for mail m changes.                                 *)
Moved(m, p, k, a) ==
  /\ worker' \in [Mail -> Invocation]
  /\ worker'[m].pc = p /\ worker'[m].month = k /\ worker'[m].answer = a
  /\ \A x \in Mail \ {m} : worker'[x] = worker[x]

(* One field, two fields.                                                  *)
LEMMA GotoMoves ==
  ASSUME TypeOK, NEW m \in Mail, NEW p \in PC, Goto(m, p)
  PROVE  Moved(m, p, worker[m].month, worker[m].answer)
  <1>1. worker \in [Mail -> Invocation] /\ worker[m] \in Invocation
    BY DEF TypeOK
  <1> DEFINE n == [worker[m] EXCEPT !.pc = p]
  <1>2. n \in Invocation /\ n.pc = p /\ n.month = worker[m].month /\ n.answer = worker[m].answer
    BY <1>1 DEF Invocation, PC
  <1>3. worker' = [worker EXCEPT ![m] = n]
    BY DEF Goto
  <1> HIDE DEF n
  <1> QED BY <1>1, <1>2, <1>3 DEF Moved

(* The state and the answer of an invocation change.                       *)
LEMMA AnswerMoves ==
  ASSUME TypeOK, NEW m \in Mail, NEW p \in PC, NEW a \in Answer,
         worker' = [worker EXCEPT ![m].pc = p, ![m].answer = a]
  PROVE  Moved(m, p, worker[m].month, a)
  <1>1. worker \in [Mail -> Invocation] /\ worker[m] \in Invocation
    BY DEF TypeOK
  <1> DEFINE n == [[worker[m] EXCEPT !.pc = p] EXCEPT !.answer = a]
  <1>2. n \in Invocation /\ n.pc = p /\ n.month = worker[m].month /\ n.answer = a
    BY <1>1 DEF Invocation, PC
  <1>3. worker' = [worker EXCEPT ![m] = n]
    BY <1>1
  <1> HIDE DEF n
  <1> QED BY <1>1, <1>2, <1>3 DEF Moved

(* The state and the month of an invocation change.                        *)
LEMMA MonthMoves ==
  ASSUME TypeOK, NEW m \in Mail, NEW p \in PC, NEW k \in Month,
         worker' = [worker EXCEPT ![m].pc = p, ![m].month = k]
  PROVE  Moved(m, p, k, worker[m].answer)
  <1>1. worker \in [Mail -> Invocation] /\ worker[m] \in Invocation
    BY DEF TypeOK
  <1> DEFINE n == [[worker[m] EXCEPT !.pc = p] EXCEPT !.month = k]
  <1>2. n \in Invocation /\ n.pc = p /\ n.month = k /\ n.answer = worker[m].answer
    BY <1>1 DEF Invocation, PC
  <1>3. worker' = [worker EXCEPT ![m] = n]
    BY <1>1
  <1> HIDE DEF n
  <1> QED BY <1>1, <1>2, <1>3 DEF Moved

(* An answer of the raw route reaches its own invocation or nobody.        *)
Reached(m, a) ==
  /\ worker' \in [Mail -> Invocation]
  /\ \A x \in Mail :
       \/ worker'[x] = worker[x]
       \/ /\ x = m /\ worker[x].pc = "uploading"
          /\ worker'[x].pc = "answered" /\ worker'[x].answer = a

(* A response changes the invocation that waits for it at most.            *)
LEMMA RespondReaches ==
  ASSUME TypeOK, NEW h, h.mail \in Mail, NEW a \in Answer, Respond(h, a)
  PROVE  Reached(h.mail, a)
  <1>1. CASE worker' = worker
    BY <1>1 DEF TypeOK, Reached
  <1>2. CASE /\ worker[h.mail].pc = "uploading"
             /\ worker' = [worker EXCEPT ![h.mail].pc = "answered", ![h.mail].answer = a]
    <2>1. Moved(h.mail, "answered", worker[h.mail].month, a)
      BY <1>2, AnswerMoves DEF PC
    <2> QED BY <1>2, <2>1 DEF Moved, Reached
  <1> QED BY <1>1, <1>2 DEF Respond

-----------------------------------------------------------------------------
(* What leaves each part of the invariant alone.                           *)

(* No try becomes unsigned again.                                          *)
Onward ==
  \A m \in Mail, t \in 1..MaxTries : Unsent(m, t)' => Unsent(m, t)

(* The uploads stay as they are and the invocations go on.                 *)
LEMMA SignaturesKept ==
  ASSUME TypeOK, Signatures, Onward, Tried', UNCHANGED <<wire, handling, nonces, processed>>
  PROVE  Signatures'
  <1>1. Ordered'
    <2>1. \A u \in wire : u.mail \in Mail /\ u.try \in 1..MaxTries
      BY DEF TypeOK, Signed
    <2>2. \A h \in handling : h.mail \in Mail /\ h.try \in 1..MaxTries
      BY DEF TypeOK, Request
    <2> QED BY <2>1, <2>2 DEF Signatures, Ordered, Onward
  <1>2. Guards' /\ UploadPassesOnce'
    BY DEF Signatures, Guards, Guarded, UploadPassesOnce
  <1> QED BY <1>1, <1>2 DEF Signatures

(* An invocation that does not get to an unsigned state.                   *)
LEMMA MovedOnward ==
  ASSUME NEW m \in Mail, NEW p, NEW k, NEW a, Moved(m, p, k, a), UNCHANGED mta, Tried,
         p # "idle" => worker[m].pc # "idle",
         p \in {"preflight", "decide"} => worker[m].pc \in {"preflight", "decide"},
         p = "answered" /\ a = "accept" => worker[m].pc \in {"preflight", "decide"}
  PROVE  Onward /\ Tried'
  BY DEF Moved, Onward, Unsent, Tried

(* An answer of the raw route.                                             *)
LEMMA ReachedOnward ==
  ASSUME NEW m \in Mail, NEW a, a # "accept", Reached(m, a), UNCHANGED mta, Tried
  PROVE  Onward /\ Tried'
  BY DEF Reached, Onward, Unsent, Tried

(* Nobody is told a new permanent answer.                                  *)
LEMMA AnswersKept ==
  ASSUME Answers, decided \subseteq decided', \A m \in Mail : mta'[m].state = mta[m].state,
         \A m \in Mail : Permanent(worker'[m].answer) => Permanent(worker[m].answer) \/ m \in decided'
  PROVE  Answers'
  BY DEF Answers, BounceIsDecided, Permanent

(* Notices and usage stay as they are.                                     *)
LEMMA QuotaKept ==
  ASSUME Quota, UNCHANGED <<quota, count, full>>
  PROVE  Quota'
  BY DEF Quota, OneSender, Sending, Exhausted, Warning, Coming, KeyOf, InBand, quota

(* A route fires a notice: the set of tasks grows, and usage may.          *)
LEMMA Fires ==
  ASSUME TypeOK, Quota, UNCHANGED <<claims, sends, failed>>,
         tasks \subseteq tasks', \A t \in tasks' \ tasks : t.step = "claim",
         full \subseteq full', \A k \in Month : count'[k] >= Limit => k \in full',
         \A t \in tasks' \ tasks : t.reason = "monthly" => t.month \in full',
         \A k \in Month : Threshold < Limit /\ count[k] < Threshold
         /\ count'[k] >= Threshold => Coming(k)',
         count' \in [Month -> 0..Limit]
  PROVE  Quota'
  <1> USE IngressAssumption DEF IngressAssumption
  <1>1. Sending' = Sending
    BY DEF Sending
  <1>2. OneSender'
    BY <1>1 DEF Quota, OneSender, KeyOf
  <1>3. count \in [Month -> 0..Limit]
    BY DEF TypeOK
  <1>4. Exhausted'
    BY DEF Quota, Exhausted
  <1>5. Warning'
    <2>1. \A k \in Month : Coming(k) => Coming(k)'
      BY DEF Coming, InBand
    <2>2. Threshold \in Int
      BY DEF Threshold
    <2> HIDE DEF Threshold
    <2> SUFFICES ASSUME Threshold < Limit, NEW k \in Month, count'[k] >= Threshold
                 PROVE  <<"approaching", k>> \in claims \/ k \in failed \/ Coming(k)'
      BY DEF Warning
    <2>3. CASE count[k] >= Threshold
      BY <2>1, <2>3 DEF Quota, Warning
    <2>4. CASE ~(count[k] >= Threshold)
      <3>1. count[k] < Threshold
        BY <1>3, <2>2, <2>4
      <3> QED BY <3>1
    <2> QED BY <2>3, <2>4
  <1> QED BY <1>2, <1>4, <1>5 DEF Quota

-----------------------------------------------------------------------------
(* Initial states.                                                         *)

(* Nothing was sent, answered or claimed yet.                              *)
LEMMA InitIInv == Init => IInv
  <1> USE IngressAssumption DEF IngressAssumption
  <1> SUFFICES ASSUME Init PROVE IInv
    OBVIOUS
  <1>1. PICK used \in Used : count = [k \in Month |-> IF k = 1 THEN used ELSE 0]
    BY DEF Init
  <1>2. 1 \in Month /\ used \in 0..Limit /\ count \in [Month -> 0..Limit] /\ count[1] = used
    BY <1>1 DEF Month
  <1>3. TypeOK
    <2>1. worker \in [Mail -> Invocation]
      <3> DEFINE n == [pc |-> "idle", month |-> 1, answer |-> "none"]
      <3>1. n \in Invocation
        BY <1>2 DEF Invocation, Answer
      <3> QED BY <3>1 DEF Init
    <2>2. mta \in [Mail -> [state : {"queued", "bounced", "done"}, tries : 0..MaxTries]]
      <3> DEFINE n == [state |-> "queued", tries |-> 0]
      <3>1. n \in [state : {"queued", "bounced", "done"}, tries : 0..MaxTries]
        OBVIOUS
      <3> QED BY <3>1 DEF Init
    <2>3. claims \subseteq Key
      BY <1>2 DEF Init, Key
    <2> QED BY <1>2, <2>1, <2>2, <2>3 DEF Init, TypeOK
  <1>4. Signatures
    <2>1. Tried
      BY DEF Init, Tried
    <2>2. \A m \in Mail, t \in 1..MaxTries : processed[<<m, t>>] = 0
      BY DEF Init, Upload
    <2>3. Ordered /\ Guards
      BY <2>2 DEF Init, Ordered, Guards
    <2>4. UploadPassesOnce
      BY DEF Init, UploadPassesOnce
    <2> QED BY <2>1, <2>3, <2>4 DEF Signatures
  <1>5. Answers
    BY DEF Init, Answers, BounceIsDecided, Permanent
  <1>6. Quota
    <2>1. OneSender
      BY DEF Init, OneSender, Sending
    <2>2. <<"monthly", 1>> # <<"approaching", 1>>
      OBVIOUS
    <2>3. Exhausted
      BY DEF Init, Exhausted
    <2>4. Threshold < Limit => Threshold > 0
      BY DEF Threshold
    <2>5. Threshold \in Int
      BY DEF Threshold
    <2>6. Warning
      <3> SUFFICES ASSUME Threshold < Limit, NEW k \in Month, count[k] >= Threshold
                   PROVE  <<"approaching", k>> \in claims
        BY DEF Warning
      <3> HIDE DEF Threshold
      <3>1. k = 1
        BY <1>1, <2>4, <2>5
      <3> QED BY <3>1 DEF Init
    <2> QED BY <2>1, <2>3, <2>6 DEF Quota
  <1> QED BY <1>3, <1>4, <1>5, <1>6 DEF IInv

-----------------------------------------------------------------------------
(* The worker.                                                             *)

(* A new try is unsigned, as it was before.                                *)
LEMMA DeliverStep ==
  ASSUME IInv, NEW m \in Mail, Deliver(m)
  PROVE  IInv'
  <1> USE IngressAssumption DEF IngressAssumption
  <1>1. /\ worker[m].pc = "idle" /\ mta[m].tries < MaxTries /\ Goto(m, "preflight")
        /\ mta' = [mta EXCEPT ![m].tries = @ + 1]
        /\ UNCHANGED <<month, ledger, net, decided, kept, quota>>
    BY DEF Deliver
  <1>2. Moved(m, "preflight", worker[m].month, worker[m].answer)
    BY <1>1, GotoMoves DEF IInv, PC
  <1>3. mta \in [Mail -> [state : {"queued", "bounced", "done"}, tries : 0..MaxTries]]
    BY DEF IInv, TypeOK
  <1> DEFINE n == [mta[m] EXCEPT !.tries = mta[m].tries + 1]
  <1>4. /\ n \in [state : {"queued", "bounced", "done"}, tries : 0..MaxTries]
        /\ n.state = mta[m].state /\ n.tries = mta[m].tries + 1
    BY <1>1, <1>3
  <1>5. mta' = [mta EXCEPT ![m] = n]
    BY <1>1
  <1> HIDE DEF n
  <1>6. /\ mta' \in [Mail -> [state : {"queued", "bounced", "done"}, tries : 0..MaxTries]]
        /\ mta'[m].tries = mta[m].tries + 1 /\ \A x \in Mail \ {m} : mta'[x] = mta[x]
        /\ \A x \in Mail : mta'[x].state = mta[x].state
    BY <1>3, <1>4, <1>5
  <1>7. TypeOK'
    BY <1>1, <1>2, <1>6 DEF IInv, TypeOK, Moved, net, quota
  <1>8. Onward
    <2> SUFFICES ASSUME NEW x \in Mail, NEW t \in 1..MaxTries, Unsent(x, t)' PROVE Unsent(x, t)
      BY DEF Onward
    <2>1. CASE x = m
      <3>1. t >= mta[m].tries + 1 /\ mta[m].tries \in Nat
        BY <1>3, <1>6, <2>1 DEF Unsent
      <3> QED BY <2>1, <3>1 DEF Unsent
    <2>2. CASE x # m
      BY <1>2, <1>6, <2>2 DEF Unsent, Moved
    <2> QED BY <2>1, <2>2
  <1>9. Tried'
    BY <1>2, <1>3, <1>6 DEF IInv, Signatures, Tried, Moved
  <1>10. Signatures'
    BY <1>1, <1>8, <1>9, SignaturesKept DEF IInv, net
  <1>11. Answers'
    BY <1>1, <1>2, <1>6, AnswersKept DEF IInv, Moved
  <1>12. Quota'
    BY <1>1, QuotaKept DEF IInv
  <1> QED BY <1>7, <1>10, <1>11, <1>12 DEF IInv

(* An invocation moves and nothing else does.                              *)
LEMMA InvocationStep ==
  ASSUME IInv, NEW m \in Mail, NEW p, NEW k, NEW a, Moved(m, p, k, a),
         p # "idle" => worker[m].pc # "idle",
         p \in {"preflight", "decide"} => worker[m].pc \in {"preflight", "decide"},
         p = "answered" /\ a = "accept" => worker[m].pc \in {"preflight", "decide"},
         Permanent(a) => Permanent(worker[m].answer),
         UNCHANGED <<mta, month, ledger, net, decided, kept, quota>>
  PROVE  IInv'
  <1>1. TypeOK'
    BY DEF IInv, TypeOK, Moved, net, quota
  <1>2. Signatures'
    <2>1. Onward /\ Tried'
      BY MovedOnward DEF IInv, Signatures
    <2> QED BY <2>1, SignaturesKept DEF IInv, net
  <1>3. Answers'
    BY AnswersKept DEF IInv, Moved
  <1>4. Quota'
    BY QuotaKept DEF IInv
  <1> QED BY <1>1, <1>2, <1>3, <1>4 DEF IInv

(* The preflight captures its month.                                       *)
LEMMA PreflightBeginsStep ==
  ASSUME IInv, NEW m \in Mail, PreflightBegins(m)
  PROVE  IInv'
  <1>1. month \in Month
    BY DEF IInv, TypeOK
  <1>2. Moved(m, "decide", month, worker[m].answer)
    BY <1>1, MonthMoves DEF PreflightBegins, IInv, PC
  <1> QED BY <1>2, InvocationStep DEF PreflightBegins

(* A fetch fails.                                                          *)
LEMMA FetchFailsStep ==
  ASSUME IInv, NEW m \in Mail, FetchFails(m)
  PROVE  IInv'
  <1>1. Moved(m, "idle", worker[m].month, "none")
    BY AnswerMoves DEF FetchFails, IInv, PC, Answer
  <1> QED BY <1>1, InvocationStep DEF FetchFails, Permanent

(* A bounce follows a permanent answer, which follows a decision.          *)
LEMMA WorkerEndsStep ==
  ASSUME IInv, NEW m \in Mail, WorkerEnds(m)
  PROVE  IInv'
  <1> DEFINE s == IF worker[m].answer = "202" THEN "done"
                  ELSE IF Permanent(worker[m].answer) THEN "bounced" ELSE "queued"
             n == [mta[m] EXCEPT !.state = s]
  <1>1. /\ worker[m].pc = "answered" /\ mta' = [mta EXCEPT ![m] = n]
        /\ worker' = [worker EXCEPT ![m].pc = "idle", ![m].answer = "none"]
        /\ UNCHANGED <<month, ledger, net, decided, kept, quota>>
    BY DEF WorkerEnds
  <1>2. Moved(m, "idle", worker[m].month, "none")
    BY <1>1, AnswerMoves DEF IInv, PC, Answer
  <1>3. mta \in [Mail -> [state : {"queued", "bounced", "done"}, tries : 0..MaxTries]]
    BY DEF IInv, TypeOK
  <1>4. s \in {"queued", "bounced", "done"} /\ (s = "bounced" => Permanent(worker[m].answer))
    OBVIOUS
  <1> HIDE DEF s
  <1>5. /\ n \in [state : {"queued", "bounced", "done"}, tries : 0..MaxTries]
        /\ n.state = s /\ n.tries = mta[m].tries
    BY <1>3, <1>4
  <1> HIDE DEF n
  <1>6. /\ mta' \in [Mail -> [state : {"queued", "bounced", "done"}, tries : 0..MaxTries]]
        /\ mta'[m].state = s /\ \A x \in Mail \ {m} : mta'[x] = mta[x]
        /\ \A x \in Mail : mta'[x].tries = mta[x].tries
    BY <1>1, <1>3, <1>5
  <1>7. TypeOK'
    BY <1>1, <1>2, <1>6 DEF IInv, TypeOK, Moved, net, quota
  <1>8. Signatures'
    <2>1. Onward
      BY <1>2, <1>6 DEF Onward, Unsent, Moved
    <2>2. Tried'
      BY <1>2, <1>6 DEF IInv, Signatures, Tried, Moved
    <2> QED BY <1>1, <2>1, <2>2, SignaturesKept DEF IInv, net
  <1>9. Answers'
    <2>1. ASSUME NEW x \in Mail, mta'[x].state = "bounced" PROVE x \in decided
      BY <1>4, <1>6, <2>1 DEF IInv, Answers, BounceIsDecided
    <2>2. ASSUME NEW x \in Mail, Permanent(worker'[x].answer) PROVE x \in decided
      BY <1>2, <2>2 DEF IInv, Answers, Moved, Permanent
    <2> QED BY <1>1, <2>1, <2>2 DEF Answers, BounceIsDecided, Permanent
  <1>10. Quota'
    BY <1>1, QuotaKept DEF IInv
  <1> QED BY <1>7, <1>8, <1>9, <1>10 DEF IInv

-----------------------------------------------------------------------------
(* The decisions of the routes.                                            *)

(* What a verdict says about the month it is taken in.                     *)
LEMMA Verdicts ==
  ASSUME TypeOK, NEW k \in Month, NEW door \in RawDoor
  PROVE  /\ Verdict(door, k) \in {"accept", "busy", "gone", "quota", "reject"}
         /\ Verdict(door, k) = "gone" => door = "gone"
         /\ Verdict(door, k) = "quota" => count[k] >= Limit
         /\ Verdict(door, k) = "accept" => count[k] < Limit
  <1> USE IngressAssumption DEF IngressAssumption
  <1>1. count[k] \in 0..Limit
    BY DEF TypeOK
  <1>2. CASE door = "closed"
    BY <1>2 DEF Verdict
  <1>3. CASE door # "closed" /\ count[k] >= Limit
    <2>1. ~(count[k] < Limit)
      BY <1>1, <1>3
    <2> QED BY <1>3, <2>1 DEF Verdict
  <1>4. CASE door # "closed" /\ ~(count[k] >= Limit)
    <2>1. count[k] < Limit
      BY <1>1, <1>4
    <2> QED BY <1>4, <2>1 DEF Verdict, RawDoor, Door
  <1> QED BY <1>2, <1>3, <1>4

(* A notice as fired.                                                      *)
LEMMA FiredTask ==
  ASSUME TypeOK, NEW m \in Mail, NEW r \in {"approaching", "monthly"}, NEW k \in Month,
         NEW u \in 0..Limit
  PROVE  /\ Task(m, r, k, u) \in Fired /\ Task(m, r, k, u).step = "claim"
         /\ Task(m, r, k, u).reason = r /\ Task(m, r, k, u).month = k
         /\ Task(m, r, k, u).used = u
  <1>1. mta[m].tries \in 0..MaxTries
    BY DEF TypeOK
  <1> QED BY <1>1 DEF Task, Fired

(* A rejection for the quota fires a notice about an exhausted month.      *)
LEMMA FiresMonthly ==
  ASSUME TypeOK, Quota, NEW m \in Mail, NEW k \in Month, count[k] >= Limit,
         tasks' = tasks \cup {Task(m, "monthly", k, 0)},
         UNCHANGED <<count, full, claims, sends, failed>>
  PROVE  Quota' /\ tasks' \subseteq Fired
  <1> USE IngressAssumption DEF IngressAssumption
  <1> DEFINE t == Task(m, "monthly", k, 0)
  <1>1. t \in Fired /\ t.step = "claim" /\ t.month = k
    BY FiredTask
  <1> HIDE DEF t
  <1>2. tasks' = tasks \cup {t}
    BY DEF t
  <1>3. count \in [Month -> 0..Limit] /\ tasks \subseteq Fired
    BY DEF TypeOK
  <1>4. k \in full /\ \A x \in Month : count[x] >= Limit => x \in full
    BY DEF Quota, Exhausted
  <1>5. \A x \in Month : ~(Threshold < Limit /\ count[x] < Threshold /\ count'[x] >= Threshold)
    <2>1. Threshold \in Int
      BY DEF Threshold
    <2> HIDE DEF Threshold
    <2> QED BY <1>3, <2>1
  <1>6. Quota'
    BY <1>1, <1>2, <1>3, <1>4, <1>5, Fires
  <1> QED BY <1>1, <1>2, <1>3, <1>6

(* An acceptance is charged and fires a warning with the count it reached. *)
LEMMA FiresApproaching ==
  ASSUME TypeOK, Quota, NEW m \in Mail, NEW k \in Month, NEW r \in Month, count[k] < Limit,
         Charge(m, k, r),
         tasks' = tasks \cup {Task(m, "approaching", k, count[k] + 1)},
         UNCHANGED <<claims, sends, failed>>
  PROVE  /\ Quota' /\ tasks' \subseteq Fired /\ count' \in [Month -> 0..Limit]
         /\ full' \subseteq Month /\ charges' \subseteq Mail \X Month /\ queued' \subseteq Mail
  <1> USE IngressAssumption DEF IngressAssumption
  <1>1. count \in [Month -> 0..Limit] /\ tasks \subseteq Fired
    BY DEF TypeOK
  <1>2. /\ queued' = queued \cup {m} /\ charges' = charges \cup {<<m, r>>}
        /\ count' = [count EXCEPT ![k] = count[k] + 1]
        /\ full' = IF count[k] + 1 >= Limit THEN full \cup {k} ELSE full
    BY DEF Charge
  <1>3. count[k] + 1 \in 0..Limit
    BY <1>1
  <1>4. /\ count' \in [Month -> 0..Limit] /\ count'[k] = count[k] + 1
        /\ \A x \in Month : x # k => count'[x] = count[x]
    BY <1>2, <1>1, <1>3
  <1> DEFINE t == Task(m, "approaching", k, count[k] + 1)
  <1>5. t \in Fired /\ t.step = "claim" /\ t.reason = "approaching" /\ t.month = k
        /\ t.used = count[k] + 1
    BY <1>3, FiredTask
  <1> HIDE DEF t
  <1>6. tasks' = tasks \cup {t}
    BY DEF t
  <1>7. ASSUME NEW x \in Month, Threshold < Limit, count[x] < Threshold, count'[x] >= Threshold
        PROVE  Coming(x)'
    <2>1. Threshold \in Int
      BY DEF Threshold
    <2> HIDE DEF Threshold
    <2>2. x = k
      BY <1>1, <1>4, <1>7, <2>1
    <2>3. t.used >= Threshold /\ t.used < Limit
      BY <1>1, <1>4, <1>5, <1>7, <2>1, <2>2
    <2> QED BY <1>5, <1>6, <2>2, <2>3 DEF Coming, InBand
  <1>8. \A x \in tasks' \ tasks : x.step = "claim" /\ x.reason # "monthly"
    BY <1>5, <1>6
  <1>9. full \subseteq full' /\ \A x \in Month : count'[x] >= Limit => x \in full'
    <2>1. full \subseteq full'
      BY <1>2
    <2>2. ASSUME NEW x \in Month, count'[x] >= Limit PROVE x \in full'
      <3>1. CASE x = k
        BY <1>2, <1>4, <2>2, <3>1
      <3>2. CASE x # k
        BY <1>4, <2>1, <2>2, <3>2 DEF Quota, Exhausted
      <3> QED BY <3>1, <3>2
    <2> QED BY <2>1, <2>2
  <1>10. Quota'
    BY <1>4, <1>6, <1>7, <1>8, <1>9, Fires
  <1>11. full' \subseteq Month /\ charges' \subseteq Mail \X Month /\ queued' \subseteq Mail
    BY <1>2 DEF TypeOK
  <1> QED BY <1>1, <1>4, <1>5, <1>6, <1>10, <1>11

(* The preflight route answers.                                            *)
LEMMA PreflightDecidesStep ==
  ASSUME IInv, NEW m \in Mail, NEW door \in Door, PreflightDecides(m, door)
  PROVE  IInv'
  <1> DEFINE k == worker[m].month
             v == Verdict(door, k)
             a == PreflightAnswer(v)
  <1>1. /\ worker[m].pc = "decide"
        /\ decided' = IF Final(v) THEN decided \cup {m} ELSE decided
        /\ tasks' = IF v = "quota" THEN tasks \cup {Task(m, "monthly", k, 0)} ELSE tasks
        /\ worker' = [worker EXCEPT ![m].pc = "answered", ![m].answer = a]
        /\ UNCHANGED <<mta, month, ledger, net, kept, claims, sends, failed>>
    BY DEF PreflightDecides
  <1>2. TypeOK /\ k \in Month
    BY DEF IInv, TypeOK, Invocation
  <1>3. v \in {"accept", "busy", "quota", "reject"} /\ (v = "quota" => count[k] >= Limit)
    BY <1>2, Verdicts DEF RawDoor, Door
  <1>4. a \in Answer /\ (Permanent(a) => Final(v))
    BY <1>3 DEF PreflightAnswer, Permanent, Final, Answer
  <1> HIDE DEF v, a, k
  <1>5. Moved(m, "answered", worker[m].month, a)
    BY <1>1, <1>2, <1>4, AnswerMoves DEF PC
  <1>6. Quota' /\ tasks' \subseteq Fired
    <2>1. CASE v = "quota"
      BY <1>1, <1>2, <1>3, <2>1, FiresMonthly DEF IInv
    <2>2. CASE v # "quota"
      <3>1. UNCHANGED <<quota, count, full>>
        BY <1>1, <2>2 DEF quota
      <3> QED BY <1>2, <3>1, QuotaKept DEF IInv, TypeOK, quota
    <2> QED BY <2>1, <2>2
  <1>7. TypeOK'
    BY <1>1, <1>2, <1>5, <1>6 DEF TypeOK, Moved, net
  <1>8. Signatures'
    <2>1. Onward /\ Tried'
      BY <1>1, <1>5, MovedOnward DEF IInv, Signatures
    <2> QED BY <1>1, <1>2, <2>1, SignaturesKept DEF IInv, net
  <1>9. Answers'
    BY <1>1, <1>4, <1>5, AnswersKept DEF IInv, Moved
  <1> QED BY <1>6, <1>7, <1>8, <1>9 DEF IInv

(* The raw route answers: 403 only with a decision.                        *)
LEMMA RawDecidesStep ==
  ASSUME IInv, NEW h \in handling, NEW door \in RawDoor, NEW temperror \in BOOLEAN,
         RawDecides(h, door, temperror)
  PROVE  IInv'
  <1> DEFINE m == h.mail
             k == h.month
             v0 == Verdict(door, k)
             v == IF v0 = "accept" /\ temperror THEN "temperror" ELSE v0
             charged == v = "accept" /\ m \notin queued
             a == RawAnswer(v)
  <1>1. /\ h \in handling /\ handling' = handling \ {h}
        /\ decided' = IF Final(v) THEN decided \cup {m} ELSE decided
        /\ kept' = IF v = "busy" /\ m \notin queued THEN kept \cup {m} ELSE kept
        /\ IF charged THEN \E r \in k..month : Charge(m, k, r) ELSE UNCHANGED ledger
        /\ tasks' = IF charged THEN tasks \cup {Task(m, "approaching", k, count[k] + 1)}
                    ELSE IF v = "quota" THEN tasks \cup {Task(m, "monthly", k, 0)}
                    ELSE tasks
        /\ Respond(h, a)
        /\ UNCHANGED <<mta, month, wire, copies, nonces, processed, claims, sends, failed>>
    BY DEF RawDecides
  <1>2. TypeOK /\ m \in Mail /\ k \in Month
    BY <1>1 DEF IInv, TypeOK, Request
  <1>3. /\ v0 \in {"accept", "busy", "gone", "quota", "reject"} /\ (v0 = "quota" => count[k] >= Limit)
        /\ (v0 = "accept" => count[k] < Limit)
    BY <1>2, Verdicts
  <1>4. /\ v \in {"accept", "busy", "gone", "quota", "reject", "temperror"}
           /\ (v = "quota" => count[k] >= Limit)
        /\ (v = "accept" => count[k] < Limit)
    BY <1>3
  <1> HIDE DEF v, v0
  <1>5. a \in Answer /\ a # "accept" /\ (Permanent(a) => Final(v))
    BY <1>4 DEF RawAnswer, Permanent, Final, Answer
  <1> HIDE DEF a, k
  <1>6. Reached(m, a)
    BY <1>1, <1>2, <1>5, RespondReaches
  <1>7. /\ Quota' /\ tasks' \subseteq Fired /\ count' \in [Month -> 0..Limit]
        /\ full' \subseteq Month /\ charges' \subseteq Mail \X Month /\ queued' \subseteq Mail
    <2>1. CASE charged
      <3>1. PICK r \in k..month : Charge(m, k, r)
        BY <1>1, <2>1
      <3>2. r \in Month
        BY <1>2, <3>1, IngressAssumption DEF IngressAssumption, TypeOK, Month
      <3> QED BY <1>1, <1>2, <1>4, <2>1, <3>1, <3>2, FiresApproaching DEF IInv
    <2>2. CASE ~charged /\ v = "quota"
      <3>1. UNCHANGED ledger
        BY <1>1, <2>2
      <3> QED BY <1>1, <1>2, <1>4, <2>2, <3>1, FiresMonthly DEF IInv, TypeOK
    <2>3. CASE ~charged /\ v # "quota"
      <3>1. UNCHANGED <<quota, ledger>>
        BY <1>1, <2>3 DEF quota
      <3> QED BY <1>2, <3>1, QuotaKept DEF IInv, TypeOK, quota
    <2> QED BY <2>1, <2>2, <2>3
  <1>8. kept' \subseteq Mail /\ decided' \subseteq Mail
    BY <1>1, <1>2 DEF TypeOK
  <1> HIDE DEF charged, m
  <1>9. TypeOK'
    BY <1>1, <1>2, <1>6, <1>7, <1>8 DEF TypeOK, Reached
  <1>10. Signatures'
    <2>1. Onward /\ Tried'
      BY <1>1, <1>2, <1>5, <1>6, ReachedOnward DEF IInv, Signatures
    <2>2. \A u \in wire : u.mail \in Mail /\ u.try \in 1..MaxTries
      BY <1>2 DEF TypeOK, Signed
    <2>3. \A x \in handling : x.mail \in Mail /\ x.try \in 1..MaxTries
      BY <1>2 DEF TypeOK, Request
    <2>4. Ordered'
      BY <1>1, <2>1, <2>2, <2>3 DEF IInv, Signatures, Ordered, Onward
    <2>5. Guards' /\ UploadPassesOnce'
      BY <1>1 DEF IInv, Signatures, Guards, Guarded, UploadPassesOnce
    <2> QED BY <2>1, <2>4, <2>5 DEF Signatures
  <1>11. Answers'
    <2>1. ASSUME NEW x \in Mail, Permanent(worker'[x].answer)
          PROVE  Permanent(worker[x].answer) \/ x \in decided'
      BY <1>1, <1>5, <1>6, <2>1 DEF Reached
    <2> QED BY <1>1, <2>1, AnswersKept DEF IInv
  <1> QED BY <1>7, <1>9, <1>10, <1>11 DEF IInv

(* The recovery charges and warns like the route.                          *)
LEMMA RecoverStep ==
  ASSUME IInv, NEW m \in Mail, Recover(m)
  PROVE  IInv'
  <1>1. kept' = kept \ {m} /\ UNCHANGED <<mta, worker, month, net, decided, claims, sends, failed>>
    BY DEF Recover
  <1>2. TypeOK /\ month \in Month
    BY DEF IInv, TypeOK
  <1>3. /\ Quota' /\ tasks' \subseteq Fired /\ count' \in [Month -> 0..Limit]
        /\ full' \subseteq Month /\ charges' \subseteq Mail \X Month /\ queued' \subseteq Mail
    <2>1. CASE /\ count[month] < Limit /\ Charge(m, month, month)
               /\ tasks' = tasks \cup {Task(m, "approaching", month, count[month] + 1)}
      BY <1>1, <1>2, <2>1, FiresApproaching DEF IInv
    <2>2. CASE UNCHANGED <<ledger, tasks>>
      <3>1. UNCHANGED <<quota, ledger>>
        BY <1>1, <2>2 DEF quota
      <3> QED BY <1>2, <2>2, <3>1, QuotaKept DEF IInv, TypeOK
    <2> QED BY <2>1, <2>2 DEF Recover
  <1>4. TypeOK'
    BY <1>1, <1>2, <1>3 DEF TypeOK, net
  <1>5. Signatures'
    <2>1. Onward /\ Tried'
      BY <1>1 DEF IInv, Signatures, Onward, Unsent, Tried
    <2> QED BY <1>1, <1>2, <2>1, SignaturesKept DEF IInv, net
  <1>6. Answers'
    BY <1>1, AnswersKept DEF IInv
  <1> QED BY <1>3, <1>4, <1>5, <1>6 DEF IInv

(* A refund lowers a count; no month becomes exhausted by it, nor needs a  *)
(* warning it did not need before.                                         *)
LEMMA RefundStep ==
  ASSUME IInv, NEW c \in charges, Refund(c)
  PROVE  IInv'
  <1> USE IngressAssumption DEF IngressAssumption
  <1> DEFINE k == c[2]
             n == IF count[k] = 0 THEN 0 ELSE count[k] - 1
  <1>1. /\ charges' = charges \ {c} /\ count' = [count EXCEPT ![k] = n]
        /\ UNCHANGED <<mta, worker, month, full, queued, net, decided, kept, quota>>
    BY DEF Refund
  <1>2. TypeOK /\ k \in Month /\ count \in [Month -> 0..Limit]
    BY DEF IInv, TypeOK
  <1>3. n \in 0..Limit /\ n <= count[k]
    BY <1>2
  <1> HIDE DEF n, k
  <1>4. count' \in [Month -> 0..Limit] /\ \A x \in Month : count'[x] <= count[x]
    BY <1>1, <1>2, <1>3
  <1>5. TypeOK'
    BY <1>1, <1>2, <1>4 DEF TypeOK, net, quota
  <1>6. Signatures'
    <2>1. Onward /\ Tried'
      BY <1>1 DEF IInv, Signatures, Onward, Unsent, Tried
    <2> QED BY <1>1, <1>2, <2>1, SignaturesKept DEF IInv, net
  <1>7. Answers'
    BY <1>1, AnswersKept DEF IInv
  <1>8. OneSender'
    BY <1>1 DEF IInv, Quota, OneSender, Sending, KeyOf, quota
  <1>9. Exhausted'
    <2>1. \A x \in Month : count'[x] >= Limit => count[x] >= Limit
      BY <1>2, <1>4
    <2> QED BY <1>1, <2>1 DEF IInv, Quota, Exhausted, quota
  <1>10. Warning'
    <2>1. Threshold \in Int
      BY DEF Threshold
    <2> HIDE DEF Threshold
    <2>2. \A x \in Month : count'[x] >= Threshold => count[x] >= Threshold
      BY <1>2, <1>4, <2>1
    <2> QED BY <1>1, <2>2 DEF IInv, Quota, Warning, Coming, InBand, quota
  <1> QED BY <1>5, <1>6, <1>7, <1>8, <1>9, <1>10 DEF IInv, Quota

-----------------------------------------------------------------------------
(* The uploads.                                                            *)

(* A signed upload is the first trace of its try.                          *)
LEMMA SignUploadStep ==
  ASSUME IInv, NEW m \in Mail, SignUpload(m)
  PROVE  IInv'
  <1> USE IngressAssumption DEF IngressAssumption
  <1>1. PICK skew \in 0..MaxSkew :
          wire' = wire \cup {[mail |-> m, try |-> mta[m].tries, age |-> 0 - skew]}
    BY DEF SignUpload
  <1>2. /\ worker[m].pc = "answered" /\ worker[m].answer = "accept"
        /\ worker' = [worker EXCEPT ![m].pc = "uploading", ![m].answer = "none"]
        /\ UNCHANGED <<mta, month, ledger, copies, handling, nonces, processed, decided, kept, quota>>
    BY DEF SignUpload
  <1>3. TypeOK /\ mta[m].tries \in 1..MaxTries
    BY <1>2 DEF IInv, TypeOK, Signatures, Tried
  <1>4. Moved(m, "uploading", worker[m].month, "none")
    BY <1>2, <1>3, AnswerMoves DEF PC, Answer
  <1> DEFINE u == [mail |-> m, try |-> mta[m].tries, age |-> 0 - skew]
  <1>5. u \in Signed /\ u.mail = m /\ u.try = mta[m].tries
    BY <1>3 DEF Signed
  <1> HIDE DEF u
  <1>6. wire' = wire \cup {u}
    BY <1>1 DEF u
  <1>7. TypeOK'
    BY <1>2, <1>3, <1>4, <1>5, <1>6 DEF TypeOK, Moved, quota
  <1>8. Unsent(m, mta[m].tries) /\ ~Unsent(m, mta[m].tries)'
    BY <1>2, <1>3, <1>4 DEF Unsent, Moved
  <1>9. Onward /\ Tried'
    BY <1>2, <1>4, MovedOnward DEF IInv, Signatures
  <1>10. ~(processed[<<m, mta[m].tries>>] > 0)
    BY <1>3, <1>8 DEF IInv, Signatures, Ordered
  <1>11. Ordered'
    <2>1. \A x \in wire : x.mail \in Mail /\ x.try \in 1..MaxTries
      BY <1>3 DEF TypeOK, Signed
    <2>2. \A x \in handling : x.mail \in Mail /\ x.try \in 1..MaxTries
      BY <1>3 DEF TypeOK, Request
    <2>3. \A x : x = u => ~Unsent(x.mail, x.try)'
      BY <1>2, <1>5, <1>8 DEF Unsent
    <2>4. \A x \in wire' : ~Unsent(x.mail, x.try)'
      BY <1>6, <1>9, <2>1, <2>3 DEF IInv, Signatures, Ordered, Onward
    <2>5. \A x \in handling' : ~Unsent(x.mail, x.try)'
      BY <1>2, <1>9, <2>2 DEF IInv, Signatures, Ordered, Onward
    <2>6. \A x \in Mail, t \in 1..MaxTries : processed'[<<x, t>>] > 0 => ~Unsent(x, t)'
      BY <1>2, <1>9 DEF IInv, Signatures, Ordered, Onward
    <2> QED BY <2>4, <2>5, <2>6 DEF Ordered
  <1>12. Guards'
    BY <1>2, <1>5, <1>6, <1>10 DEF IInv, Signatures, Guards, Guarded
  <1>13. Signatures'
    BY <1>2, <1>9, <1>11, <1>12 DEF IInv, Signatures, UploadPassesOnce
  <1>14. Answers'
    BY <1>2, <1>4, AnswersKept DEF IInv, Moved, Permanent
  <1>15. Quota'
    BY <1>2, QuotaKept DEF IInv
  <1> QED BY <1>7, <1>13, <1>14, <1>15 DEF IInv

(* A request takes over the bound of its upload; a stale one is refused.   *)
LEMMA ArriveStep ==
  ASSUME IInv, NEW u \in wire, Arrive(u)
  PROVE  IInv'
  <1> USE IngressAssumption DEF IngressAssumption
  <1> DEFINE c == <<u.mail, u.try>> \in copies
             h == [mail |-> u.mail, try |-> u.try, copy |-> c, age |-> 0, pc |-> "nonce", month |-> 1]
  <1>1. UNCHANGED <<mta, month, ledger, nonces, processed, decided, kept, quota>>
    BY DEF Arrive
  <1>2. /\ TypeOK /\ u.mail \in Mail /\ u.try \in 1..MaxTries
        /\ u.age \in (0 - MaxSkew)..(MaxAge + 1)
    BY DEF IInv, TypeOK, Signed
  <1>3. wire' \subseteq wire /\ copies' \subseteq Upload
    <2>1. <<u.mail, u.try>> \in Upload
      BY <1>2 DEF Upload
    <2> QED BY <1>2, <2>1 DEF Arrive, TypeOK
  <1>4. c \in BOOLEAN
    BY SMT
  <1> HIDE DEF c
  <1>5. h \in Request /\ h.mail = u.mail /\ h.try = u.try /\ h.age = 0
    BY <1>2, <1>4 DEF Request, Month
  <1>6. \/ Fresh(u) /\ handling' = handling \cup {h} /\ worker' = worker
        \/ Respond(h, "401") /\ handling' = handling
    BY DEF Arrive, c
  <1> HIDE DEF h
  <1>7. Reached(u.mail, "401") /\ handling' \subseteq handling \cup {h}
    <2>1. CASE worker' = worker
      BY <1>2, <1>6, <2>1 DEF Reached, TypeOK
    <2>2. CASE Respond(h, "401") /\ handling' = handling
      <3>1. "401" \in Answer
        BY DEF Answer
      <3> QED BY <1>2, <1>5, <2>2, <3>1, RespondReaches
    <2> QED BY <1>6, <2>1, <2>2
  <1>8. TypeOK'
    BY <1>1, <1>2, <1>3, <1>5, <1>7 DEF TypeOK, Reached, quota
  <1>9. Onward /\ Tried'
    BY <1>1, <1>2, <1>7, ReachedOnward DEF IInv, Signatures
  <1>10. Ordered'
    <2>1. \A x \in wire : x.mail \in Mail /\ x.try \in 1..MaxTries /\ ~Unsent(x.mail, x.try)'
      BY <1>2, <1>9 DEF TypeOK, Signed, IInv, Signatures, Ordered, Onward
    <2>2. \A x \in handling : ~Unsent(x.mail, x.try)'
      BY <1>2, <1>9 DEF TypeOK, Request, IInv, Signatures, Ordered, Onward
    <2>3. \A x : x = h => ~Unsent(x.mail, x.try)'
      BY <1>5, <2>1
    <2>4. \A x \in handling' : ~Unsent(x.mail, x.try)'
      BY <1>7, <2>2, <2>3
    <2>5. \A x \in Mail, t \in 1..MaxTries : processed'[<<x, t>>] > 0 => ~Unsent(x, t)'
      BY <1>1, <1>9 DEF IInv, Signatures, Ordered, Onward
    <2> QED BY <1>3, <2>1, <2>4, <2>5 DEF Ordered
  <1>11. Guards'
    <2>1. \A x \in wire' : processed[<<x.mail, x.try>>] > 0 =>
            x.age > MaxAge \/ Guarded(<<x.mail, x.try>>, x.age + MaxSkew)
      BY <1>3 DEF IInv, Signatures, Guards
    <2>2. ASSUME NEW x \in handling', processed[<<x.mail, x.try>>] > 0, x.pc = "nonce"
          PROVE  Guarded(<<x.mail, x.try>>, MaxAge + MaxSkew + x.age)
      <3>1. CASE x \in handling
        BY <2>2, <3>1 DEF IInv, Signatures, Guards
      <3>2. CASE x \notin handling
        <4>1. x = h /\ Fresh(u)
          BY <1>6, <3>2
        <4>2. Guarded(<<u.mail, u.try>>, u.age + MaxSkew)
          <5>1. ~(u.age > MaxAge)
            BY <1>2, <4>1 DEF Fresh
          <5> QED BY <1>5, <2>2, <4>1, <5>1 DEF IInv, Signatures, Guards
        <4>3. PICK n \in nonces : n.sig = <<u.mail, u.try>> /\ n.age <= u.age + MaxSkew
          BY <4>2 DEF Guarded
        <4>4. n.age \in Nat
          BY <1>2 DEF TypeOK, Nonce
        <4>5. n.age <= MaxAge + MaxSkew + x.age
          BY <1>2, <1>5, <4>1, <4>3, <4>4 DEF Fresh
        <4> QED BY <1>5, <4>1, <4>3, <4>5 DEF Guarded
      <3> QED BY <3>1, <3>2
    <2> QED BY <1>1, <2>1, <2>2 DEF Guards, Guarded
  <1>12. Signatures'
    BY <1>1, <1>9, <1>10, <1>11 DEF IInv, Signatures, UploadPassesOnce
  <1>13. Answers'
    BY <1>1, <1>7, AnswersKept DEF IInv, Reached, Permanent
  <1>14. Quota'
    BY <1>1, QuotaKept DEF IInv
  <1> QED BY <1>8, <1>12, <1>13, <1>14 DEF IInv

(* A nonce that still guards a copy has not expired.                       *)
LEMMA LiveGuards ==
  ASSUME TypeOK, NEW sig, NEW a \in Int, a <= MaxAge + MaxSkew + HandlerTicks, Guarded(sig, a)
  PROVE  \E n \in nonces : n.sig = sig /\ n.age <= a /\ ~Expired(n)
  <1> USE IngressAssumption DEF IngressAssumption
  <1>1. PICK n \in nonces : n.sig = sig /\ n.age <= a
    BY DEF Guarded
  <1>2. n.age \in Nat
    BY DEF TypeOK, Nonce
  <1>3. ~Expired(n)
    BY <1>1, <1>2 DEF Expired
  <1> QED BY <1>1, <1>3

(* What a request finds when it claims its nonce: nothing only the first   *)
(* time.                                                                   *)
LEMMA ClaimNonceStep ==
  ASSUME IInv, NEW h \in handling, ClaimNonce(h)
  PROVE  IInv'
  <1> USE IngressAssumption DEF IngressAssumption
  <1> DEFINE live == {n \in nonces : ~Expired(n)}
             sig == <<h.mail, h.try>>
             g == [h EXCEPT !.pc = "decide", !.month = month]
             new == [sig |-> sig, age |-> 0]
  <1>1. h.pc = "nonce" /\ UNCHANGED <<mta, month, ledger, wire, copies, decided, kept, quota>>
    BY DEF ClaimNonce
  <1>2. /\ TypeOK /\ h.mail \in Mail /\ h.try \in 1..MaxTries /\ h.age \in 0..HandlerTicks
        /\ sig \in Upload
    BY DEF IInv, TypeOK, Request, Upload
  <1>3. g \in Request /\ g.mail = h.mail /\ g.try = h.try /\ g.pc = "decide"
    <2>1. h \in Request /\ month \in Month
      BY <1>2 DEF TypeOK
    <2> QED BY <2>1 DEF Request
  <1>4. new \in Nonce /\ new.sig = sig /\ new.age = 0
    BY <1>2 DEF Nonce
  <1>5. \/ /\ \A n \in live : n.sig # sig
           /\ nonces' = live \cup {new}
           /\ processed' = [processed EXCEPT ![sig] = processed[sig] + 1]
           /\ handling' = (handling \ {h}) \cup {g}
           /\ worker' = worker
        \/ /\ nonces' = live /\ handling' = handling \ {h} /\ Respond(h, "401") /\ processed' = processed
    BY DEF ClaimNonce
  <1> HIDE DEF g, new
  <1>6. Reached(h.mail, "401")
    <2>1. CASE worker' = worker
      BY <1>2, <2>1 DEF Reached, TypeOK
    <2>2. CASE Respond(h, "401")
      <3>1. "401" \in Answer
        BY DEF Answer
      <3> QED BY <1>2, <2>2, <3>1, RespondReaches
    <2> QED BY <1>5, <2>1, <2>2
  <1>7. handling' \subseteq (handling \ {h}) \cup {g} /\ live \subseteq nonces'
        /\ nonces' \subseteq Nonce
    BY <1>2, <1>4, <1>5 DEF TypeOK
  <1>8. processed \in [Upload -> Nat]
    BY <1>2 DEF TypeOK
  <1>9. processed[sig] > 0 => \E n \in live : n.sig = sig
    <2>1. SUFFICES ASSUME processed[sig] > 0 PROVE \E n \in live : n.sig = sig
      OBVIOUS
    <2>2. Guarded(sig, MaxAge + MaxSkew + h.age)
      BY <1>1, <2>1 DEF IInv, Signatures, Guards
    <2>3. MaxAge + MaxSkew + h.age \in Int
          /\ MaxAge + MaxSkew + h.age <= MaxAge + MaxSkew + HandlerTicks
      BY <1>2
    <2> HIDE DEF sig
    <2>4. \E n \in nonces : n.sig = sig /\ n.age <= MaxAge + MaxSkew + h.age /\ ~Expired(n)
      BY <1>2, <2>2, <2>3, LiveGuards
    <2> QED BY <2>4
  <1>10. /\ processed' \in [Upload -> Nat]
         /\ \A s \in Upload : s # sig => processed'[s] = processed[s]
         /\ processed'[sig] = processed[sig] \/ (processed[sig] = 0 /\ processed'[sig] = 1 /\ new \in nonces')
    <2> HIDE DEF sig
    <2>1. CASE processed' = processed
      BY <1>8, <2>1
    <2>2. CASE /\ processed' = [processed EXCEPT ![sig] = processed[sig] + 1] /\ new \in nonces'
               /\ \A n \in live : n.sig # sig
      <3>1. ~(processed[sig] > 0)
        BY <1>9, <2>2
      <3>2. processed[sig] \in Nat
        BY <1>2, <1>8
      <3> QED BY <1>2, <1>8, <2>2, <3>1, <3>2
    <2> QED BY <1>5, <2>1, <2>2
  <1> HIDE DEF live
  <1>11. TypeOK'
    BY <1>1, <1>2, <1>3, <1>6, <1>7, <1>10 DEF TypeOK, Reached, quota
  <1>12. Onward /\ Tried'
    BY <1>1, <1>2, <1>6, ReachedOnward DEF IInv, Signatures
  <1>13. Ordered'
    <2>1. \A x \in wire : ~Unsent(x.mail, x.try)'
      BY <1>2, <1>12 DEF TypeOK, Signed, IInv, Signatures, Ordered, Onward
    <2>2. \A x \in handling : ~Unsent(x.mail, x.try)'
      BY <1>2, <1>12 DEF TypeOK, Request, IInv, Signatures, Ordered, Onward
    <2>3. \A x : x = g => ~Unsent(x.mail, x.try)'
      BY <1>3, <2>2
    <2>4. \A x \in handling' : ~Unsent(x.mail, x.try)'
      BY <1>7, <2>2, <2>3
    <2>5. ASSUME NEW x \in Mail, NEW t \in 1..MaxTries, processed'[<<x, t>>] > 0
          PROVE  ~Unsent(x, t)'
      <3>1. <<x, t>> \in Upload
        BY DEF Upload
      <3>2. CASE <<x, t>> = sig
        BY <2>2, <3>2
      <3>3. CASE <<x, t>> # sig
        <4>1. processed[<<x, t>>] > 0
          BY <1>10, <2>5, <3>1, <3>3
        <4> QED BY <1>12, <4>1 DEF IInv, Signatures, Ordered, Onward
      <3> QED BY <3>2, <3>3
    <2> QED BY <1>1, <2>1, <2>4, <2>5 DEF Ordered
  <1>14. ASSUME NEW s \in Upload, NEW a \in Int, a >= 0, a <= MaxAge + MaxSkew + HandlerTicks,
                processed'[s] > 0, processed[s] > 0 => Guarded(s, a)
         PROVE  Guarded(s, a)'
    <2> HIDE DEF sig
    <2>1. CASE processed[s] > 0
      <3>1. PICK n \in nonces : n.sig = s /\ n.age <= a /\ ~Expired(n)
        BY <1>2, <1>14, <2>1, LiveGuards
      <3>2. n \in nonces'
        BY <1>7, <3>1 DEF live
      <3> QED BY <3>1, <3>2 DEF Guarded
    <2>2. CASE ~(processed[s] > 0)
      <3>1. s = sig /\ new \in nonces'
        BY <1>10, <1>14, <2>2
      <3> QED BY <1>4, <1>14, <3>1 DEF Guarded
    <2> QED BY <2>1, <2>2
  <1>15. Guards'
    <2>1. ASSUME NEW x \in wire', processed'[<<x.mail, x.try>>] > 0
          PROVE  x.age > MaxAge \/ Guarded(<<x.mail, x.try>>, x.age + MaxSkew)'
      <3>1. x \in wire /\ x.age \in (0 - MaxSkew)..(MaxAge + 1) /\ <<x.mail, x.try>> \in Upload
        BY <1>1, <1>2 DEF TypeOK, Signed, Upload
      <3>2. CASE ~(x.age > MaxAge)
        <4>1. /\ x.age + MaxSkew \in Int /\ x.age + MaxSkew >= 0
              /\ x.age + MaxSkew <= MaxAge + MaxSkew + HandlerTicks
          BY <3>1, <3>2
        <4>2. processed[<<x.mail, x.try>>] > 0 => Guarded(<<x.mail, x.try>>, x.age + MaxSkew)
          BY <3>1, <3>2 DEF IInv, Signatures, Guards
        <4> DEFINE s == <<x.mail, x.try>>
                   a == x.age + MaxSkew
        <4> HIDE DEF s, a
        <4>3. Guarded(s, a)'
          BY <1>14, <2>1, <3>1, <4>1, <4>2 DEF s, a
        <4> QED BY <4>3 DEF s, a
      <3> QED BY <3>2
    <2>2. ASSUME NEW x \in handling', processed'[<<x.mail, x.try>>] > 0, x.pc = "nonce"
          PROVE  Guarded(<<x.mail, x.try>>, MaxAge + MaxSkew + x.age)'
      <3>1. x \in handling
        BY <1>3, <1>7, <2>2
      <3>2. x.age \in 0..HandlerTicks /\ <<x.mail, x.try>> \in Upload
        BY <1>2, <3>1 DEF TypeOK, Request, Upload
      <3>3. /\ MaxAge + MaxSkew + x.age \in Int /\ MaxAge + MaxSkew + x.age >= 0
            /\ MaxAge + MaxSkew + x.age <= MaxAge + MaxSkew + HandlerTicks
        BY <3>2
      <3>4. processed[<<x.mail, x.try>>] > 0 => Guarded(<<x.mail, x.try>>, MaxAge + MaxSkew + x.age)
        BY <2>2, <3>1 DEF IInv, Signatures, Guards
      <3> QED BY <1>14, <2>2, <3>2, <3>3, <3>4
    <2> QED BY <1>1, <2>1, <2>2 DEF Guards, Guarded
  <1>16. UploadPassesOnce'
    BY <1>10 DEF IInv, Signatures, UploadPassesOnce
  <1>17. Signatures'
    BY <1>12, <1>13, <1>15, <1>16 DEF Signatures
  <1>18. Answers'
    BY <1>1, <1>6, AnswersKept DEF IInv, Reached, Permanent
  <1>19. Quota'
    BY <1>1, QuotaKept DEF IInv
  <1> QED BY <1>11, <1>17, <1>18, <1>19 DEF IInv

-----------------------------------------------------------------------------
(* The notices.                                                            *)

(* A step that leaves the invocations and the uploads alone.               *)
LEMMA QuotaOnly ==
  ASSUME IInv, tasks' \subseteq Fired, claims' \subseteq Key, sends' \in [Key -> Nat],
         failed' \subseteq Month, Quota',
         UNCHANGED <<mta, worker, month, ledger, net, decided, kept>>
  PROVE  IInv'
  <1>1. TypeOK'
    BY DEF IInv, TypeOK, net
  <1>2. Signatures'
    <2>1. Onward /\ Tried'
      BY DEF IInv, Signatures, Onward, Unsent, Tried
    <2> QED BY <2>1, SignaturesKept DEF IInv, net
  <1>3. Answers'
    BY AnswersKept DEF IInv
  <1> QED BY <1>1, <1>2, <1>3 DEF IInv

(* A fired notice and its key.                                             *)
LEMMA KeyType ==
  ASSUME NEW t \in Fired
  PROVE  KeyOf(t) \in Key /\ t.month \in Month /\ t.reason \in {"approaching", "monthly"}
  BY DEF Fired, KeyOf, Key

(* A task wins its claim, loses it, or sends.                              *)
LEMMA NotifyStep ==
  ASSUME IInv, NEW t \in tasks, Notify(t)
  PROVE  IInv'
  <1>1. UNCHANGED <<mta, worker, month, ledger, net, decided, kept>>
    BY DEF Notify
  <1>2. /\ tasks \subseteq Fired /\ t \in Fired /\ claims \subseteq Key /\ sends \in [Key -> Nat]
        /\ failed \subseteq Month
    BY DEF IInv, TypeOK
  <1>3. KeyOf(t) \in Key /\ t.month \in Month /\ t.reason \in {"approaching", "monthly"}
    BY <1>2, KeyType
  <1>4. Quota
    BY DEF IInv
  <1>5. CASE /\ t.step = "claim" /\ Wins(KeyOf(t)) /\ claims' = claims \cup {KeyOf(t)}
             /\ tasks' = (tasks \ {t}) \cup {[t EXCEPT !.step = "send"]}
             /\ UNCHANGED <<sends, failed>>
    <2> DEFINE s == [t EXCEPT !.step = "send"]
    <2>1. s \in Fired /\ KeyOf(s) = KeyOf(t) /\ s.reason = t.reason /\ s.month = t.month
          /\ s.step = "send"
      BY <1>2 DEF Fired, KeyOf
    <2> HIDE DEF s
    <2>2. tasks' = (tasks \ {t}) \cup {s}
      BY <1>5 DEF s
    <2>3. KeyOf(t) \notin claims
      BY <1>5 DEF Wins
    <2>4. Sending' = Sending \cup {s}
      BY <1>5, <2>1, <2>2 DEF Sending
    <2>5. OneSender'
      <3> DEFINE k == KeyOf(t)
      <3>1. sends[k] = 0
        BY <1>2, <1>3, <1>4, <2>3 DEF Quota, OneSender
      <3>2. \A x \in Sending : KeyOf(x) # k
        BY <1>4, <2>3 DEF Quota, OneSender
      <3>3. claims' = claims \cup {k} /\ sends' = sends /\ k \in Key /\ KeyOf(s) = k
        BY <1>3, <1>5, <2>1
      <3> HIDE DEF k
      <3>4. \A x \in Sending' : KeyOf(x) \in claims' /\ sends'[KeyOf(x)] = 0
        BY <1>4, <2>4, <3>1, <3>3 DEF Quota, OneSender
      <3>5. \A x, y \in Sending' : KeyOf(x) = KeyOf(y) => x = y
        BY <1>4, <2>4, <3>2, <3>3 DEF Quota, OneSender
      <3>6. \A x \in Key : sends'[x] <= 1 /\ (sends'[x] > 0 => x \in claims')
        BY <1>4, <3>3 DEF Quota, OneSender
      <3> QED BY <3>4, <3>5, <3>6 DEF OneSender, KeyOf
    <2>6. Exhausted'
      <3>1. \A x \in tasks' : x.reason = "monthly" => x.month \in full
        BY <1>4, <2>1, <2>2 DEF Quota, Exhausted
      <3>2. ASSUME NEW k \in Month, <<"monthly", k>> \in claims' PROVE k \in full
        <4>1. CASE <<"monthly", k>> \in claims
          BY <1>4, <4>1 DEF Quota, Exhausted
        <4>2. CASE <<"monthly", k>> = KeyOf(t)
          BY <1>4, <4>2 DEF Quota, Exhausted, KeyOf
        <4> QED BY <1>5, <3>2, <4>1, <4>2
      <3> QED BY <1>1, <1>4, <3>1, <3>2 DEF Quota, Exhausted
    <2>7. Warning'
      <3> SUFFICES ASSUME Threshold < Limit, NEW k \in Month, count[k] >= Threshold
                   PROVE  <<"approaching", k>> \in claims' \/ k \in failed \/ Coming(k)'
        BY <1>1, <1>5 DEF Warning
      <3>1. CASE <<"approaching", k>> \in claims \/ k \in failed
        BY <1>5, <3>1
      <3>2. ASSUME NEW x \in tasks, x.reason = "approaching", x.month = k, InBand(x)
            PROVE  <<"approaching", k>> \in claims' \/ Coming(k)'
        <4>1. CASE x = t
          BY <1>5, <3>2, <4>1 DEF KeyOf
        <4>2. CASE x # t
          BY <2>2, <3>2, <4>2 DEF Coming, InBand
        <4> QED BY <4>1, <4>2
      <3> QED BY <1>4, <3>1, <3>2 DEF Quota, Warning, Coming
    <2>8. Quota'
      BY <2>5, <2>6, <2>7 DEF Quota
    <2> QED BY <1>1, <1>2, <1>3, <1>5, <2>1, <2>2, <2>8, QuotaOnly
  <1>6. CASE /\ t.step = "claim" /\ ((t.reason = "approaching" /\ ~InBand(t)) \/ ~Wins(KeyOf(t)))
             /\ tasks' = tasks \ {t} /\ UNCHANGED <<claims, sends, failed>>
    <2>1. OneSender'
      BY <1>4, <1>6 DEF Quota, OneSender, Sending, KeyOf
    <2>2. Exhausted'
      BY <1>1, <1>4, <1>6 DEF Quota, Exhausted
    <2>3. Warning'
      <3> SUFFICES ASSUME Threshold < Limit, NEW k \in Month, count[k] >= Threshold
                   PROVE  <<"approaching", k>> \in claims \/ k \in failed \/ Coming(k)'
        BY <1>1, <1>6 DEF Warning
      <3>1. CASE <<"approaching", k>> \in claims \/ k \in failed
        BY <3>1
      <3>2. ASSUME NEW x \in tasks, x.reason = "approaching", x.month = k, InBand(x)
            PROVE  <<"approaching", k>> \in claims \/ Coming(k)'
        <4>1. CASE x = t
          BY <1>6, <3>2, <4>1 DEF KeyOf, Wins
        <4>2. CASE x # t
          BY <1>6, <3>2, <4>2 DEF Coming, InBand
        <4> QED BY <4>1, <4>2
      <3> QED BY <1>4, <3>1, <3>2 DEF Quota, Warning, Coming
    <2>4. Quota'
      BY <2>1, <2>2, <2>3 DEF Quota
    <2> QED BY <1>1, <1>2, <1>6, <2>4, QuotaOnly
  <1>7. CASE /\ t.step = "send" /\ \E k \in {KeyOf(t)} : sends' = [sends EXCEPT ![k] = @ + 1]
             /\ tasks' = tasks \ {t} /\ UNCHANGED <<claims, failed>>
    <2> DEFINE k == KeyOf(t)
    <2>1. sends' = [sends EXCEPT ![k] = sends[k] + 1] /\ k \in Key
      BY <1>3, <1>7
    <2>2. t \in Sending /\ Sending' = Sending \ {t}
      BY <1>7 DEF Sending
    <2>3. k \in claims /\ sends[k] = 0 /\ \A x \in Sending \ {t} : KeyOf(x) # k
      BY <1>4, <2>2 DEF Quota, OneSender
    <2>4. \A x \in Sending : KeyOf(x) \in Key
      BY <1>2, KeyType DEF Sending
    <2> HIDE DEF k
    <2>5. /\ sends' \in [Key -> Nat] /\ sends'[k] = 1 /\ \A x \in Key \ {k} : sends'[x] = sends[x]
      BY <1>2, <2>1, <2>3
    <2>6. OneSender'
      <3>1. \A x \in Sending' : KeyOf(x) \in claims /\ sends'[KeyOf(x)] = 0
        BY <1>4, <2>2, <2>3, <2>4, <2>5 DEF Quota, OneSender
      <3>2. \A x, y \in Sending' : KeyOf(x) = KeyOf(y) => x = y
        BY <1>4, <2>2 DEF Quota, OneSender
      <3>3. \A x \in Key : sends'[x] <= 1 /\ (sends'[x] > 0 => x \in claims)
        BY <1>4, <2>3, <2>5 DEF Quota, OneSender
      <3> QED BY <1>7, <3>1, <3>2, <3>3 DEF OneSender, KeyOf
    <2>7. Exhausted'
      BY <1>1, <1>4, <1>7 DEF Quota, Exhausted
    <2>8. Warning'
      <3> SUFFICES ASSUME Threshold < Limit, NEW y \in Month, count[y] >= Threshold
                   PROVE  <<"approaching", y>> \in claims \/ y \in failed \/ Coming(y)'
        BY <1>1, <1>7 DEF Warning
      <3>1. CASE <<"approaching", y>> \in claims \/ y \in failed
        BY <3>1
      <3>2. ASSUME NEW x \in tasks, x.reason = "approaching", x.month = y, InBand(x)
            PROVE  <<"approaching", y>> \in claims \/ Coming(y)'
        <4>1. CASE x = t
          BY <2>3, <3>2, <4>1 DEF KeyOf, k
        <4>2. CASE x # t
          BY <1>7, <3>2, <4>2 DEF Coming, InBand
        <4> QED BY <4>1, <4>2
      <3> QED BY <1>4, <3>1, <3>2 DEF Quota, Warning, Coming
    <2>9. Quota'
      BY <2>6, <2>7, <2>8 DEF Quota
    <2> QED BY <1>1, <1>2, <1>7, <2>5, <2>9, QuotaOnly
  <1> QED BY <1>5, <1>6, <1>7 DEF Notify

(* Tasks that vanish leave their months among the failed.                  *)
LEMMA QuotaLost ==
  ASSUME TypeOK, Quota, tasks' \subseteq tasks, failed' = failed \cup Warned(tasks \ tasks'),
         UNCHANGED <<claims, sends, count, full>>
  PROVE  Quota' /\ tasks' \subseteq Fired /\ failed' \subseteq Month
  <1>1. tasks \subseteq Fired /\ failed \subseteq Month
    BY DEF TypeOK
  <1>2. failed' \subseteq Month
    BY <1>1 DEF Warned, Fired
  <1>3. OneSender'
    BY DEF Quota, OneSender, Sending, KeyOf
  <1>4. Exhausted'
    BY DEF Quota, Exhausted
  <1>5. Warning'
    <2> SUFFICES ASSUME Threshold < Limit, NEW k \in Month, count[k] >= Threshold
                 PROVE  <<"approaching", k>> \in claims \/ k \in failed' \/ Coming(k)'
      BY DEF Warning
    <2>1. CASE <<"approaching", k>> \in claims \/ k \in failed
      BY <2>1
    <2>2. ASSUME NEW x \in tasks, x.reason = "approaching", x.month = k, InBand(x)
          PROVE  k \in failed' \/ Coming(k)'
      <3>1. CASE x \in tasks'
        BY <2>2, <3>1 DEF Coming, InBand
      <3>2. CASE x \notin tasks'
        BY <2>2, <3>2 DEF Warned
      <3> QED BY <3>1, <3>2
    <2> QED BY <2>1, <2>2 DEF Quota, Warning, Coming
  <1> QED BY <1>1, <1>2, <1>3, <1>4, <1>5 DEF Quota

(* The database or Telegram fails.                                         *)
LEMMA NotifyFailsStep ==
  ASSUME IInv, NEW t \in tasks, NotifyFails(t)
  PROVE  IInv'
  <1>1. /\ tasks' = tasks \ {t} /\ failed' = failed \cup Warned({t})
        /\ UNCHANGED <<mta, worker, month, ledger, net, decided, kept, claims, sends>>
    BY DEF NotifyFails
  <1>2. tasks \ tasks' = {t} /\ TypeOK
    BY <1>1 DEF IInv
  <1>3. Quota' /\ tasks' \subseteq Fired /\ failed' \subseteq Month
    BY <1>1, <1>2, QuotaLost DEF IInv
  <1> QED BY <1>1, <1>2, <1>3, QuotaOnly DEF TypeOK

-----------------------------------------------------------------------------
(* Restarts and time.                                                      *)

(* The requests and notices in memory are gone.                            *)
LEMMA RestartStep ==
  ASSUME IInv, Restart
  PROVE  IInv'
  <1>1. /\ handling' = {} /\ tasks' = {} /\ failed' = failed \cup Warned(tasks)
        /\ UNCHANGED <<mta, worker, month, ledger, wire, copies, nonces, processed,
                       decided, kept, claims, sends>>
    BY DEF Restart
  <1>2. tasks \ tasks' = tasks /\ TypeOK
    BY <1>1 DEF IInv
  <1>3. Quota' /\ tasks' \subseteq Fired /\ failed' \subseteq Month
    BY <1>1, <1>2, QuotaLost DEF IInv
  <1>4. TypeOK'
    BY <1>1, <1>2, <1>3 DEF TypeOK
  <1>5. Signatures'
    BY <1>1 DEF IInv, Signatures, Tried, Ordered, Unsent, Guards, Guarded, UploadPassesOnce
  <1>6. Answers'
    BY <1>1, AnswersKept DEF IInv
  <1> QED BY <1>3, <1>4, <1>5, <1>6 DEF IInv

(* A nonce ages at most as fast as the copies it guards.                   *)
LEMMA TickStep ==
  ASSUME IInv, Tick
  PROVE  IInv'
  <1> USE IngressAssumption DEF IngressAssumption
  <1>1. /\ \A h \in handling : h.pc = "nonce" => h.age < HandlerTicks
        /\ wire' = {Older(u, MaxAge) : u \in wire}
        /\ handling' = {IF h.pc = "nonce" THEN Older(h, HandlerTicks) ELSE h : h \in handling}
        /\ nonces' = {Older(n, NonceTicks) : n \in nonces}
        /\ UNCHANGED <<mta, worker, month, ledger, copies, processed, decided, kept, quota>>
    BY DEF Tick
  <1>2. TypeOK /\ wire \subseteq Signed /\ handling \subseteq Request /\ nonces \subseteq Nonce
    BY DEF IInv, TypeOK
  <1>3. ASSUME NEW u \in wire
        PROVE  LET v == Older(u, MaxAge) IN
                 /\ v \in Signed /\ v.mail = u.mail /\ v.try = u.try
                 /\ v.age > MaxAge \/ v.age = u.age + 1
    <2>1. u \in Signed
      BY <1>2
    <2> QED BY <2>1 DEF Signed, Older
  <1>4. ASSUME NEW h \in handling, h.pc = "nonce"
        PROVE  LET v == Older(h, HandlerTicks) IN
                 v \in Request /\ v.mail = h.mail /\ v.try = h.try /\ v.age = h.age + 1
    <2>1. h \in Request /\ h.age < HandlerTicks /\ h.age \in Nat
      BY <1>1, <1>2, <1>4 DEF Request
    <2> QED BY <2>1 DEF Request, Older
  <1>5. ASSUME NEW n \in nonces
        PROVE  LET v == Older(n, NonceTicks) IN v \in Nonce /\ v.sig = n.sig /\ v.age <= n.age + 1
    <2>1. n \in Nonce
      BY <1>2
    <2> QED BY <2>1 DEF Nonce, Older
  <1>6. \A h \in handling : h.pc # "nonce" => h \in Request
    BY <1>2
  <1>7. wire' \subseteq Signed /\ handling' \subseteq Request /\ nonces' \subseteq Nonce
    BY <1>1, <1>3, <1>4, <1>5, <1>6
  <1>8. TypeOK'
    BY <1>1, <1>2, <1>7 DEF TypeOK, quota
  <1>9. ASSUME NEW sig, NEW a \in Int, Guarded(sig, a) PROVE Guarded(sig, a + 1)'
    <2>1. PICK n \in nonces : n.sig = sig /\ n.age <= a
      BY <1>9 DEF Guarded
    <2> DEFINE v == Older(n, NonceTicks)
    <2>2. v \in Nonce /\ v.sig = sig /\ v.age <= n.age + 1 /\ v \in nonces'
      BY <1>1, <1>5, <2>1
    <2> HIDE DEF v
    <2>3. n.age \in Nat /\ v.age \in Nat
      BY <1>2, <2>2 DEF Nonce
    <2>4. v.age <= a + 1
      BY <2>1, <2>2, <2>3
    <2> QED BY <2>2, <2>4 DEF Guarded
  <1>10. \A m \in Mail, t \in 1..MaxTries : Unsent(m, t)' = Unsent(m, t)
    BY <1>1 DEF Unsent
  <1>11. ASSUME NEW x \in wire'
         PROVE  /\ ~Unsent(x.mail, x.try)'
                /\ processed'[<<x.mail, x.try>>] > 0 =>
                     x.age > MaxAge \/ Guarded(<<x.mail, x.try>>, x.age + MaxSkew)'
    <2>1. PICK u \in wire : x = Older(u, MaxAge)
      BY <1>1
    <2>2. /\ x.mail = u.mail /\ x.try = u.try /\ (x.age > MaxAge \/ x.age = u.age + 1)
          /\ u.mail \in Mail /\ u.try \in 1..MaxTries /\ u.age \in Int
      BY <1>2, <1>3, <2>1 DEF Signed
    <2>3. ~Unsent(x.mail, x.try)'
      BY <1>10, <2>2 DEF IInv, Signatures, Ordered
    <2>4. ASSUME processed[<<u.mail, u.try>>] > 0, ~(x.age > MaxAge)
          PROVE  Guarded(<<u.mail, u.try>>, x.age + MaxSkew)'
      <3>1. x.age = u.age + 1 /\ ~(u.age > MaxAge)
        BY <2>2, <2>4
      <3>2. Guarded(<<u.mail, u.try>>, u.age + MaxSkew)
        BY <2>4, <3>1 DEF IInv, Signatures, Guards
      <3>3. u.age + MaxSkew \in Int /\ x.age + MaxSkew = u.age + MaxSkew + 1
        BY <2>2, <3>1
      <3> QED BY <1>9, <3>2, <3>3
    <2> QED BY <1>1, <2>2, <2>3, <2>4
  <1>12. ASSUME NEW x \in handling'
         PROVE  /\ ~Unsent(x.mail, x.try)'
                /\ processed'[<<x.mail, x.try>>] > 0 /\ x.pc = "nonce" =>
                     Guarded(<<x.mail, x.try>>, MaxAge + MaxSkew + x.age)'
    <2>1. PICK h \in handling : x = IF h.pc = "nonce" THEN Older(h, HandlerTicks) ELSE h
      BY <1>1
    <2>2. /\ x.mail = h.mail /\ x.try = h.try /\ h.mail \in Mail /\ h.try \in 1..MaxTries
          /\ h.age \in Int
      BY <1>2, <1>4, <2>1 DEF Request
    <2>3. ~Unsent(x.mail, x.try)'
      BY <1>10, <2>2 DEF IInv, Signatures, Ordered
    <2>4. ASSUME processed[<<h.mail, h.try>>] > 0, x.pc = "nonce"
          PROVE  Guarded(<<h.mail, h.try>>, MaxAge + MaxSkew + x.age)'
      <3>1. h.pc = "nonce" /\ x.age = h.age + 1
        BY <1>4, <2>1, <2>4
      <3>2. Guarded(<<h.mail, h.try>>, MaxAge + MaxSkew + h.age)
        BY <2>4, <3>1 DEF IInv, Signatures, Guards
      <3>3. /\ MaxAge + MaxSkew + h.age \in Int
            /\ MaxAge + MaxSkew + x.age = MaxAge + MaxSkew + h.age + 1
        BY <2>2, <3>1
      <3> QED BY <1>9, <3>2, <3>3
    <2> QED BY <1>1, <2>2, <2>3, <2>4
  <1>13. Guards'
    BY <1>11, <1>12 DEF Guards, Guarded
  <1>14. Ordered'
    BY <1>1, <1>10, <1>11, <1>12 DEF IInv, Signatures, Ordered
  <1>15. Signatures'
    BY <1>1, <1>13, <1>14 DEF IInv, Signatures, Tried, UploadPassesOnce
  <1>16. Answers'
    BY <1>1, AnswersKept DEF IInv
  <1>17. Quota'
    BY <1>1, QuotaKept DEF IInv
  <1> QED BY <1>8, <1>15, <1>16, <1>17 DEF IInv

(* The month ends.                                                         *)
LEMMA NewMonthStep ==
  ASSUME IInv, NewMonth
  PROVE  IInv'
  <1> USE IngressAssumption DEF IngressAssumption
  <1>1. /\ month' = month + 1 /\ month < MaxMonth
        /\ UNCHANGED <<mta, worker, ledger, net, decided, kept, quota>>
    BY DEF NewMonth
  <1>2. TypeOK'
    <2>1. month' \in Month
      BY <1>1 DEF IInv, TypeOK, Month
    <2> QED BY <1>1, <2>1 DEF IInv, TypeOK, net, quota
  <1>3. Signatures'
    <2>1. Onward /\ Tried'
      BY <1>1 DEF IInv, Signatures, Onward, Unsent, Tried
    <2> QED BY <1>1, <2>1, SignaturesKept DEF IInv, net
  <1>4. Answers'
    BY <1>1, AnswersKept DEF IInv
  <1>5. Quota'
    BY <1>1, QuotaKept DEF IInv
  <1> QED BY <1>2, <1>3, <1>4, <1>5 DEF IInv

-----------------------------------------------------------------------------
(* Every step, and what follows.                                           *)

(* No step breaks the invariant.                                           *)
LEMMA NextStep ==
  ASSUME IInv, [Next]_vars
  PROVE  IInv'
  <1>1. CASE UNCHANGED vars
    <2>1. UNCHANGED <<mta, worker, month, ledger, net, decided, kept, quota>>
      BY <1>1 DEF vars, net, quota
    <2>2. Quota'
      BY <2>1, QuotaKept DEF IInv
    <2> QED BY <2>1, <2>2, QuotaOnly DEF IInv, TypeOK, quota
  <1>2. ASSUME NEW m \in Mail, NEW d \in Door, PreflightDecides(m, d) PROVE IInv'
    BY <1>2, PreflightDecidesStep
  <1>3. ASSUME NEW m \in Mail, Deliver(m) \/ PreflightBegins(m) \/ SignUpload(m) \/ WorkerEnds(m)
                                 \/ FetchFails(m) \/ Recover(m)
        PROVE  IInv'
    BY <1>3, DeliverStep, PreflightBeginsStep, SignUploadStep, WorkerEndsStep, FetchFailsStep,
       RecoverStep
  <1>4. ASSUME NEW u \in wire, Arrive(u) PROVE IInv'
    BY <1>4, ArriveStep
  <1>5. ASSUME NEW h \in handling, ClaimNonce(h) PROVE IInv'
    BY <1>5, ClaimNonceStep
  <1>6. ASSUME NEW h \in handling, NEW d \in RawDoor, NEW b \in BOOLEAN, RawDecides(h, d, b)
        PROVE  IInv'
    BY <1>6, RawDecidesStep
  <1>7. ASSUME NEW t \in tasks, Notify(t) \/ NotifyFails(t) PROVE IInv'
    BY <1>7, NotifyStep, NotifyFailsStep
  <1>8. ASSUME NEW c \in charges, Refund(c) PROVE IInv'
    BY <1>8, RefundStep
  <1> QED BY <1>1, <1>2, <1>3, <1>4, <1>5, <1>6, <1>7, <1>8, RestartStep, TickStep, NewMonthStep
          DEF Next

(* The invariant holds in every reachable state.                           *)
THEOREM Inductive == Spec => []IInv
  BY InitIInv, NextStep, PTL DEF Spec

(* Every variable keeps its type; no month is charged beyond its limit.    *)
THEOREM TypeCorrect == Spec => []TypeOK
  <1>1. IInv => TypeOK
    BY DEF IInv
  <1> QED BY <1>1, Inductive, PTL

(* No signed upload passes the nonce check twice, however long a copy is   *)
(* held back and although expired nonces are deleted.                      *)
THEOREM UploadPassesOnceHolds == Spec => []UploadPassesOnce
  <1>1. IInv => UploadPassesOnce
    BY DEF IInv, Signatures
  <1> QED BY <1>1, Inductive, PTL

(* A mail bounces only after a route decided against it for good.          *)
THEOREM BounceIsDecidedHolds == Spec => []BounceIsDecided
  <1>1. IInv => BounceIsDecided
    BY DEF IInv, Answers
  <1> QED BY <1>1, Inductive, PTL

(* A quota notice is sent at most once per reason and month, and only for  *)
(* a month whose count has reached the limit, refunds or not.              *)
THEOREM QuotaNoticeFitsHolds == Spec => []QuotaNoticeFits
  <1>1. IInv => QuotaNoticeFits
    BY DEF IInv, Quota, OneSender, Exhausted, QuotaNoticeFits
  <1> QED BY <1>1, Inductive, PTL

(* A month past its warning band was warned, or its warning failed or is   *)
(* under way.                                                              *)
THEOREM WarnedBeforeLimitHolds == Spec => []WarnedBeforeLimit
  <1>1. IInv => WarnedBeforeLimit
    BY DEF IInv, Quota, Warning, Coming, WarnedBeforeLimit
  <1> QED BY <1>1, Inductive, PTL

=============================================================================
