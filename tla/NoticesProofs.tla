---------------------------- MODULE NoticesProofs ----------------------------
(***************************************************************************)
(* Proofs about Notices, for all jobs, domains, capacities and budgets.    *)
(*                                                                         *)
(* IInv has three independent parts besides the types: Line, what the      *)
(* queue's counters count; Earned, how a domain gets from an authenticated *)
(* mail through the activation row and the notice to a rule; and Known,    *)
(* where the evidence of a delivery is.                                    *)
(***************************************************************************)
EXTENDS Notices, FiniteSetTheorems, SequenceTheorems, TLAPS

Waiting == {j \in Job : job[j].pc = "waiting"}
HeldMime == {j \in Held : job[j].mime}

Counted ==
  /\ IsFiniteSet(Held) /\ queue.admitted = Cardinality(Held)
  /\ IsFiniteSet(HeldMime) /\ queue.held = Cardinality(HeldMime)

(* A running authentication belongs to the job that asked for it or that   *)
(* went on without it; the line holds every waiting job once.              *)
Line ==
  /\ IsFiniteSet(authing) /\ queue.active = Cardinality(authing)
  /\ \A j \in authing : job[j].pc \in {"authing", "revalidate", "reading", "send", "settling"}
  /\ Waiting = Range(queue.waiters)
  /\ IsInjective(queue.waiters)
  /\ queue.waiters # <<>> => queue.active = AuthSlots

(* The activation row is that of its token's job.                          *)
TokenOfJob ==
  act.token # None =>
    /\ job[act.token].pc \in {"auth", "waiting", "authing", "domain", "revalidate", "reading",
                              "send", "settling", "settled"}
    /\ act.version = job[act.token].version
    /\ act.domain # None =>
         /\ job[act.token].pc \in {"revalidate", "reading", "send", "settling", "settled"}
         /\ job[act.token].passes /\ job[act.token].from = act.domain

NoticeOfJob ==
  \A n \in notices :
    /\ job[n.token].pc \in {"reading", "send", "settling", "settled"}
    /\ n.arrived => job[n.token].pc \notin {"reading", "send"}
    /\ n.domain # None => job[n.token].passes /\ job[n.token].from = n.domain

RuleOfNotice ==
  \A r \in added :
    /\ \E n \in notices : n.token = r.token /\ n.domain = r.domain /\ n.arrived
    /\ r.status = "active" /\ r.version = job[r.token].version
    /\ act.token # r.token

OneRule == \A r, s \in added : r.token = s.token => r = s

Earned ==
  /\ \A j \in Job : job[j].pc = "domain" => job[j].passes
  /\ TokenOfJob /\ NoticeOfJob /\ RuleOfNotice /\ OneRule

(* A delivery is remembered by the marker or by an attempt, and attempts   *)
(* are purged only once the marker is set.                                 *)
Known ==
  /\ worked => Working
  /\ pass = "purge" => act.marked

IInv == TypeOK /\ Counted /\ Line /\ Earned /\ Known

-----------------------------------------------------------------------------
(* The line of waiters.                                                    *)

(* A job at the end of the line.                                           *)
LEMMA Appended ==
  ASSUME NEW S, NEW s \in Seq(S), NEW x \in S, IsInjective(s), x \notin Range(s)
  PROVE  /\ Append(s, x) \in Seq(S) /\ IsInjective(Append(s, x))
         /\ Range(Append(s, x)) = Range(s) \cup {x} /\ Append(s, x) # <<>>
  <1> DEFINE t == Append(s, x)
  <1>1. /\ t \in Seq(S) /\ Len(s) \in Nat /\ DOMAIN s = 1..Len(s) /\ DOMAIN t = 1..(Len(s) + 1)
        /\ t[Len(s) + 1] = x /\ \A i \in 1..Len(s) : t[i] = s[i]
    OBVIOUS
  <1>2. t # <<>>
    BY <1>1
  <1> HIDE DEF t
  <1>3. \A i \in 1..Len(s) : t[i] # x
    BY <1>1 DEF Range
  <1>4. IsInjective(t)
    <2> SUFFICES ASSUME NEW a \in 1..(Len(s) + 1), NEW b \in 1..(Len(s) + 1), t[a] = t[b]
                 PROVE  a = b
      BY <1>1 DEF IsInjective
    <2>1. a \in 1..Len(s) \/ a = Len(s) + 1
      BY <1>1
    <2>2. b \in 1..Len(s) \/ b = Len(s) + 1
      BY <1>1
    <2> QED BY <1>1, <1>3, <2>1, <2>2 DEF IsInjective
  <1>5. Range(t) = Range(s) \cup {x}
    <2>1. \A i \in 1..(Len(s) + 1) : i \in 1..Len(s) \/ i = Len(s) + 1
      BY <1>1
    <2>2. \A i \in 1..Len(s) : i \in 1..(Len(s) + 1)
      BY <1>1
    <2>3. Len(s) + 1 \in 1..(Len(s) + 1)
      BY <1>1
    <2> QED BY <1>1, <2>1, <2>2, <2>3 DEF Range
  <1> QED BY <1>1, <1>2, <1>4, <1>5 DEF t

(* t is s without its place i.                                             *)
Without(t, s, i) ==
  /\ Len(t) = Len(s) - 1
  /\ \A k \in 1..Len(t) : t[k] = IF k < i THEN s[k] ELSE s[k + 1]

(* A line without the job at place i.                                      *)
LEMMA Removed ==
  ASSUME NEW S, NEW s \in Seq(S), IsInjective(s), NEW i \in 1..Len(s),
         NEW t \in Seq(S), Without(t, s, i)
  PROVE  IsInjective(t) /\ Range(t) = Range(s) \ {s[i]}
  <1>1. /\ Len(s) \in Nat /\ DOMAIN s = 1..Len(s) /\ DOMAIN t = 1..Len(t) /\ Len(t) \in Nat
        /\ Len(t) = Len(s) - 1
        /\ \A k \in 1..Len(t) : t[k] = IF k < i THEN s[k] ELSE s[k + 1]
    BY DEF Without
  <1> DEFINE from(k) == IF k < i THEN k ELSE k + 1
  <1>2. \A k \in 1..Len(t) : from(k) \in 1..Len(s) /\ from(k) # i /\ t[k] = s[from(k)]
    BY <1>1
  <1>3. \A k, l \in 1..Len(t) : from(k) = from(l) => k = l
    BY <1>1
  <1>4. \A m \in 1..Len(s) : m # i => \E k \in 1..Len(t) : from(k) = m
    <2> SUFFICES ASSUME NEW m \in 1..Len(s), m # i PROVE \E k \in 1..Len(t) : from(k) = m
      OBVIOUS
    <2>1. CASE m < i
      <3>1. m \in 1..Len(t) /\ from(m) = m
        BY <1>1, <2>1
      <3> QED BY <3>1
    <2>2. CASE ~(m < i)
      <3>1. m - 1 \in 1..Len(t) /\ from(m - 1) = m
        BY <1>1, <2>2
      <3> QED BY <3>1
    <2> QED BY <2>1, <2>2
  <1> HIDE DEF from
  <1>5. \A a, b \in 1..Len(s) : s[a] = s[b] => a = b
    BY <1>1 DEF IsInjective
  <1>6. IsInjective(t)
    BY <1>1, <1>2, <1>3, <1>5 DEF IsInjective
  <1>7. ASSUME NEW x PROVE x \in Range(t) <=> x \in Range(s) /\ x # s[i]
    <2>1. ASSUME x \in Range(t) PROVE x \in Range(s) /\ x # s[i]
      BY <1>1, <1>2, <1>5, <2>1 DEF Range
    <2>2. ASSUME x \in Range(s), x # s[i] PROVE x \in Range(t)
      <3>1. PICK m \in 1..Len(s) : x = s[m]
        BY <1>1, <2>2 DEF Range
      <3>2. m # i
        BY <2>2, <3>1
      <3>3. PICK k \in 1..Len(t) : from(k) = m
        BY <1>4, <3>2
      <3>4. t[k] = x
        BY <1>2, <3>1, <3>3
      <3> QED BY <1>1, <3>4 DEF Range
    <2> QED BY <2>1, <2>2
  <1> QED BY <1>6, <1>7

(* Slots.release: the first waiter leaves.                                 *)
LEMMA TailRemoves ==
  ASSUME NEW S, NEW s \in Seq(S), IsInjective(s), s # <<>>
  PROVE  /\ Tail(s) \in Seq(S) /\ IsInjective(Tail(s)) /\ Range(Tail(s)) = Range(s) \ {Head(s)}
         /\ Head(s) \in Range(s) /\ Head(s) \in S
  <1>1. /\ Tail(s) \in Seq(S) /\ Len(Tail(s)) = Len(s) - 1 /\ Head(s) \in S
        /\ \A k \in 1..Len(Tail(s)) : Tail(s)[k] = s[k + 1]
    BY HeadTailProperties
  <1>2. Len(s) \in Nat \ {0} /\ DOMAIN s = 1..Len(s) /\ Head(s) = s[1]
    BY EmptySeq
  <1>3. 1 \in 1..Len(s) /\ \A k \in 1..Len(Tail(s)) : ~(k < 1)
    BY <1>2
  <1>4. IsInjective(Tail(s)) /\ Range(Tail(s)) = Range(s) \ {s[1]}
    <2>1. Without(Tail(s), s, 1)
      BY <1>1, <1>3 DEF Without
    <2> DEFINE t == Tail(s)
    <2>2. t \in Seq(S) /\ Without(t, s, 1)
      BY <1>1, <2>1
    <2> HIDE DEF t
    <2>3. IsInjective(t) /\ Range(t) = Range(s) \ {s[1]}
      BY <1>3, <2>2, Removed
    <2> QED BY <2>3 DEF t
  <1> QED BY <1>1, <1>2, <1>3, <1>4 DEF Range

(* splice(index, 1): an abandoned waiter leaves.                           *)
LEMMA RemoveAtRemoves ==
  ASSUME NEW S, NEW s \in Seq(S), IsInjective(s), NEW i \in 1..Len(s)
  PROVE  /\ RemoveAt(s, i) \in Seq(S) /\ IsInjective(RemoveAt(s, i))
         /\ Range(RemoveAt(s, i)) = Range(s) \ {s[i]}
  <1> DEFINE a == SubSeq(s, 1, i - 1)
             b == SubSeq(s, i + 1, Len(s))
  <1>1. Len(s) \in Nat /\ i \in Nat /\ 1 <= i /\ i <= Len(s)
    OBVIOUS
  <1>2. /\ a \in Seq(S) /\ Len(a) = i - 1 /\ \A k \in 1..(i - 1) : a[k] = s[k]
    <2>1. \A k \in 1..(i - 1) : s[k] \in S
      BY <1>1
    <2>2. /\ a \in Seq(S) /\ Len(a) = (IF 1 <= i - 1 THEN i - 1 - 1 + 1 ELSE 0)
          /\ \A k \in 1..(i - 1 - 1 + 1) : a[k] = s[1 + k - 1]
      BY <1>1, <2>1, SubSeqProperties
    <2> QED BY <1>1, <2>2
  <1>3. /\ b \in Seq(S) /\ Len(b) = Len(s) - i /\ \A k \in 1..(Len(s) - i) : b[k] = s[i + k]
    <2>1. \A k \in (i + 1)..Len(s) : s[k] \in S
      BY <1>1
    <2>2. /\ b \in Seq(S) /\ Len(b) = (IF i + 1 <= Len(s) THEN Len(s) - (i + 1) + 1 ELSE 0)
          /\ \A k \in 1..(Len(s) - (i + 1) + 1) : b[k] = s[i + 1 + k - 1]
      BY <1>1, <2>1, SubSeqProperties
    <2> QED BY <1>1, <2>2
  <1>4. RemoveAt(s, i) = a \o b
    BY DEF RemoveAt
  <1> HIDE DEF a, b
  <1> DEFINE t == a \o b
  <1>5. /\ t \in Seq(S) /\ Len(t) = Len(a) + Len(b)
        /\ \A k \in 1..Len(a) + Len(b) : t[k] = IF k <= Len(a) THEN a[k] ELSE b[k - Len(a)]
    BY <1>2, <1>3, ConcatProperties
  <1> HIDE DEF t
  <1>6. Len(t) = Len(s) - 1
    BY <1>1, <1>2, <1>3, <1>5
  <1>7. \A k \in 1..Len(t) : t[k] = IF k < i THEN s[k] ELSE s[k + 1]
    <2> SUFFICES ASSUME NEW k \in 1..Len(t) PROVE t[k] = IF k < i THEN s[k] ELSE s[k + 1]
      OBVIOUS
    <2>1. CASE k < i
      <3>1. k \in 1..(i - 1) /\ k <= Len(a) /\ k \in 1..Len(a) + Len(b)
        BY <1>1, <1>2, <1>5, <2>1
      <3> QED BY <1>2, <1>5, <2>1, <3>1
    <2>2. CASE ~(k < i)
      <3>1. k - (i - 1) \in 1..(Len(s) - i) /\ ~(k <= Len(a)) /\ k \in 1..Len(a) + Len(b)
            /\ i + (k - (i - 1)) = k + 1
        BY <1>1, <1>2, <1>5, <1>6, <2>2
      <3> QED BY <1>2, <1>3, <1>5, <2>2, <3>1
    <2> QED BY <2>1, <2>2
  <1>8. IsInjective(t) /\ Range(t) = Range(s) \ {s[i]}
    <2>1. Without(t, s, i)
      BY <1>6, <1>7 DEF Without
    <2> QED BY <1>5, <2>1, Removed
  <1> QED BY <1>4, <1>5, <1>8 DEF t

-----------------------------------------------------------------------------
(* Frames: what a step may do without disturbing a part.                   *)

Late == {"auth", "waiting", "authing", "domain", "revalidate", "reading", "send", "settling",
         "settled"}
Alive == {"admitted", "claim", "claiming", "auth", "waiting", "authing", "domain",
          "revalidate", "reading", "send", "settling"}

(* One job advances and keeps its mail.                                    *)
Moves(j, p) ==
  /\ job' \in [Job -> JobState]
  /\ job'[j].pc = p /\ job'[j].mime = job[j].mime /\ job'[j].from = job[j].from
  /\ \A k \in Job \ {j} : job'[k] = job[k]

(* A job never falls back, and what it earned stays.                       *)
JobKept(k) ==
  /\ job[k].pc \in Late => job'[k].pc \in Late /\ job'[k].version = job[k].version
  /\ job[k].pc \in {"revalidate", "reading", "send", "settling", "settled"} =>
       /\ job'[k].pc \in {"revalidate", "reading", "send", "settling", "settled"}
       /\ job'[k].passes = job[k].passes /\ job'[k].from = job[k].from
  /\ job[k].pc \in {"reading", "send", "settling", "settled"} =>
       job'[k].pc \in {"reading", "send", "settling", "settled"}
  /\ job[k].pc \in {"settling", "settled"} => job'[k].pc \in {"settling", "settled"}
  /\ job'[k].pc = "domain" => job'[k].passes

(* A job that Goto moves.                                                  *)
LEMMA GotoMoves ==
  ASSUME TypeOK, NEW j \in Job, NEW p \in Alive \cup {"refused", "settled"}, Goto(j, p)
  PROVE  /\ Moves(j, p)
         /\ job'[j].passes = job[j].passes /\ job'[j].version = job[j].version
  <1>1. job \in [Job -> JobState] /\ job[j] \in JobState
    BY DEF TypeOK
  <1> DEFINE n == [job[j] EXCEPT !.pc = p]
  <1>2. /\ n \in JobState /\ n.pc = p /\ n.mime = job[j].mime /\ n.from = job[j].from
        /\ n.passes = job[j].passes /\ n.version = job[j].version
    BY <1>1 DEF JobState, Alive
  <1>3. job' = [job EXCEPT ![j] = n]
    BY DEF Goto
  <1> HIDE DEF n
  <1> QED BY <1>1, <1>2, <1>3 DEF Moves

(* The same jobs are in the queue.                                         *)
LEMMA CountedKept ==
  ASSUME Counted, \A k \in Job : (k \in Held' <=> k \in Held) /\ job'[k].mime = job[k].mime,
         queue'.admitted = queue.admitted, queue'.held = queue.held
  PROVE  Counted'
  <1>1. Held' = Held
    BY DEF Held
  <1>2. HeldMime' = HeldMime
    BY <1>1 DEF HeldMime, Held
  <1> QED BY <1>1, <1>2 DEF Counted

(* A job that is in the queue before and after its step.                   *)
LEMMA MoveCounted ==
  ASSUME TypeOK, Counted, NEW j \in Job, NEW p \in Alive, Moves(j, p), job[j].pc \in Alive,
         queue'.admitted = queue.admitted, queue'.held = queue.held
  PROVE  Counted'
  <1>1. \A k \in Job : (k \in Held' <=> k \in Held) /\ job'[k].mime = job[k].mime
    BY DEF Moves, Held, Alive
  <1> QED BY <1>1, CountedKept

(* A job that neither waits before nor after its step, and does not leave  *)
(* its running authentication behind.                                      *)
LEMMA MoveLine ==
  ASSUME TypeOK, Line, NEW j \in Job, NEW p, Moves(j, p), job[j].pc # "waiting", p # "waiting",
         j \in authing => p \in {"authing", "revalidate", "reading", "send", "settling"},
         authing' = authing, queue'.active = queue.active, queue'.waiters = queue.waiters
  PROVE  Line'
  <1>1. Waiting' = Waiting
    BY DEF Moves, Waiting
  <1>2. \A k \in authing : job'[k].pc \in {"authing", "revalidate", "reading", "send", "settling"}
    BY DEF Moves, Line, TypeOK
  <1> QED BY <1>1, <1>2 DEF Line

(* Jobs advance, the token stays or is cleared, notices and rules stay.    *)
LEMMA EarnedKept ==
  ASSUME TypeOK, Earned, \A k \in Job : JobKept(k), UNCHANGED <<notices, added>>,
         act'.token \in {None, act.token},
         act'.token # None => act'.domain = act.domain /\ act'.version = act.version
  PROVE  Earned'
  <1> USE NoticesAssumption DEF NoticesAssumption
  <1>1. \A k \in Job : job'[k].pc = "domain" => job'[k].passes
    BY DEF JobKept
  <1>2. TokenOfJob'
    <2> SUFFICES ASSUME act'.token # None PROVE TokenOfJob'
      BY DEF TokenOfJob
    <2>1. act'.token = act.token /\ act.token \in Job
      BY DEF TypeOK, Row
    <2> QED BY <2>1 DEF TokenOfJob, Earned, JobKept, Late
  <1>3. NoticeOfJob'
    <2> SUFFICES ASSUME NEW n \in notices
                 PROVE  /\ job'[n.token].pc \in {"reading", "send", "settling", "settled"}
                        /\ n.arrived => job'[n.token].pc \notin {"reading", "send"}
                        /\ n.domain # None => job'[n.token].passes /\ job'[n.token].from = n.domain
      BY DEF NoticeOfJob
    <2>1. n.token \in Job
      BY DEF TypeOK
    <2> QED BY <2>1 DEF NoticeOfJob, Earned, JobKept
  <1>4. RuleOfNotice'
    <2> SUFFICES ASSUME NEW r \in added
                 PROVE  /\ \E n \in notices : n.token = r.token /\ n.domain = r.domain /\ n.arrived
                        /\ r.status = "active" /\ r.version = job'[r.token].version
                        /\ act'.token # r.token
      BY DEF RuleOfNotice
    <2>1. r.token \in Job /\ r.token # None
      BY DEF TypeOK
    <2>2. job[r.token].pc \in Late
      BY DEF RuleOfNotice, NoticeOfJob, Earned, Late
    <2>3. r.version = job'[r.token].version
      BY <2>1, <2>2 DEF RuleOfNotice, Earned, JobKept
    <2> QED BY <2>1, <2>3 DEF RuleOfNotice, Earned
  <1>5. OneRule'
    BY DEF OneRule, Earned
  <1> QED BY <1>1, <1>2, <1>3, <1>4, <1>5 DEF Earned

(* No evidence of a delivery is lost.                                      *)
LEMMA KnownKept ==
  ASSUME Known, UNCHANGED <<worked, logged, pass>>, act.marked => act'.marked
  PROVE  Known'
  BY DEF Known, Working

(* A step of one job inside the queue that only looks.                     *)
LEMMA QuietMove ==
  ASSUME IInv, NEW j \in Job, NEW p \in Alive \ {"waiting"}, Moves(j, p),
         job[j].pc \in Alive \ {"waiting"},
         j \in authing => p \in {"authing", "revalidate", "reading", "send", "settling"},
         JobKept(j), UNCHANGED <<world, act, queue, authing, notices, added>>
  PROVE  IInv'
  <1>1. \A k \in Job : JobKept(k)
    <2>1. \A k \in Job \ {j} : JobKept(k)
      BY DEF IInv, Earned, Moves, JobKept
    <2> QED BY <2>1
  <1>2. TypeOK'
    BY DEF IInv, TypeOK, Moves, world, proof
  <1>3. Counted'
    BY MoveCounted DEF IInv
  <1>4. Line'
    BY MoveLine DEF IInv
  <1>5. Earned'
    BY <1>1, EarnedKept DEF IInv
  <1>6. Known'
    BY KnownKept DEF IInv, world, proof
  <1> QED BY <1>2, <1>3, <1>4, <1>5, <1>6 DEF IInv

(* A step that leaves the jobs alone.                                      *)
LEMMA JobsIdle ==
  ASSUME IInv, UNCHANGED jobs, TypeOK', Known', act'.token \in {None, act.token},
         act'.token # None => act'.domain = act.domain /\ act'.version = act.version
  PROVE  IInv'
  <1>1. UNCHANGED <<job, queue, authing, notices, added>>
    BY DEF jobs
  <1>2. \A k \in Job : JobKept(k)
    BY <1>1 DEF IInv, Earned, JobKept, Late
  <1>3. Earned'
    BY <1>1, <1>2, EarnedKept DEF IInv
  <1>4. Held' = Held /\ HeldMime' = HeldMime /\ Waiting' = Waiting
    BY <1>1 DEF Held, HeldMime, Waiting
  <1>5. Counted' /\ Line'
    BY <1>1, <1>4 DEF IInv, Counted, Line
  <1> QED BY <1>3, <1>5 DEF IInv

(* Initially nothing has happened.                                         *)
LEMMA InitIInv == Init => IInv
  <1> SUFFICES ASSUME Init PROVE IInv
    OBVIOUS
  <1> USE NoticesAssumption DEF NoticesAssumption, Init
  <1>1. TRUE \in BOOLEAN /\ FALSE \in BOOLEAN
    BY Zenon
  <1>2. [pc |-> "none", from |-> None, passes |-> FALSE, mime |-> FALSE, version |-> 0] \in JobState
    BY <1>1 DEF JobState
  <1>3. act \in Row
    BY <1>1 DEF Row
  <1>4. queue \in [admitted : 0..MaxAdmitted, held : 0..MaxHeldMime, active : 0..AuthSlots,
                   waiters : Seq(Job), closed : BOOLEAN]
    BY <1>1
  <1>5. alias \in [status : Status, version : 0..MaxVersion, young : BOOLEAN]
    BY <1>1 DEF Status
  <1>6. accepted \in BOOLEAN /\ logged \in BOOLEAN /\ marking \in BOOLEAN /\ worked \in BOOLEAN
    BY <1>1, Zenon
  <1>7. TypeOK
    BY <1>2, <1>3, <1>4, <1>5, <1>6 DEF TypeOK
  <1>8. \A j \in Job : job[j].pc = "none"
    OBVIOUS
  <1>9. Held = {} /\ HeldMime = {} /\ Waiting = {}
    BY <1>8 DEF Held, HeldMime, Waiting
  <1>10. Counted
    BY <1>9, FS_EmptySet DEF Counted
  <1>11. Range(queue.waiters) = {} /\ IsInjective(queue.waiters) /\ queue.waiters = <<>>
    BY DEF Range, IsInjective
  <1>12. Line
    BY <1>9, <1>11, FS_EmptySet DEF Line
  <1>13. Earned
    BY <1>8 DEF Earned, TokenOfJob, NoticeOfJob, RuleOfNotice, OneRule
  <1>14. ~worked /\ pass = "idle"
    OBVIOUS
  <1>15. Known
    BY <1>14 DEF Known
  <1> QED BY <1>7, <1>10, <1>12, <1>13, <1>15 DEF IInv

-----------------------------------------------------------------------------
(* Rules, deliveries, cleanup, the alias and the clock.                    *)

(* A row whose marker, window or life changes is still a row.              *)
LEMMA RowFlags ==
  ASSUME TypeOK, NEW b \in BOOLEAN
  PROVE  /\ [act EXCEPT !.marked = b] \in Row /\ [act EXCEPT !.recent = b] \in Row
         /\ [act EXCEPT !.live = b] \in Row
  BY DEF TypeOK, Row

(* The owner's commands on rules.                                          *)
LEMMA RuleSteps ==
  ASSUME IInv, NEW d \in Domain,
         AllowCommand(d) \/ QuickAllow(d) \/ DeleteRule(d) \/ RuleReply(d)
  PROVE  IInv'
  <1>1. UNCHANGED <<alias, act, proof, jobs>> /\ rules' \subseteq Domain
    BY DEF AllowCommand, QuickAllow, DeleteRule, RuleReply, AddRule, RemoveRule, IInv, TypeOK
  <1>2. TypeOK'
    BY <1>1 DEF IInv, TypeOK, proof, jobs
  <1>3. Known'
    BY <1>1, KnownKept DEF IInv, proof
  <1> QED BY <1>1, <1>2, <1>3, JobsIdle

(* A mail is accepted, delivered, and its delivery marked.                 *)
LEMMA DeliverySteps ==
  ASSUME IInv, AcceptMail \/ DeliverySucceeds \/ MarkFirstDelivered
  PROVE  IInv'
  <1>0. TRUE \in BOOLEAN /\ FALSE \in BOOLEAN
    BY Zenon
  <1>1. CASE AcceptMail
    <2>1. UNCHANGED <<alias, act, rules, logged, marking, worked, pass, jobs>> /\ accepted' = TRUE
      BY <1>1 DEF AcceptMail
    <2>2. accepted' \in BOOLEAN
      BY <1>0, <2>1, Zenon
    <2>3. TypeOK'
      BY <2>1, <2>2 DEF IInv, TypeOK, jobs
    <2>4. Known'
      BY <2>1, KnownKept DEF IInv
    <2> QED BY <2>1, <2>3, <2>4, JobsIdle
  <1>2. CASE DeliverySucceeds
    <2>1. UNCHANGED <<alias, act, rules, pass, jobs>>
      BY <1>2 DEF DeliverySucceeds
    <2>2. logged' /\ accepted' \in BOOLEAN /\ logged' \in BOOLEAN /\ worked' \in BOOLEAN
          /\ marking' \in BOOLEAN
      BY <1>2, Zenon DEF DeliverySucceeds
    <2>3. TypeOK'
      BY <2>1, <2>2 DEF IInv, TypeOK, jobs
    <2>4. Known'
      BY <2>1, <2>2 DEF IInv, Known, Working
    <2> QED BY <2>1, <2>3, <2>4, JobsIdle
  <1>3. CASE MarkFirstDelivered
    <2>1. PICK ok \in BOOLEAN : act' = [act EXCEPT !.marked = @ \/ ok]
      BY <1>3 DEF MarkFirstDelivered
    <2>2. UNCHANGED <<alias, rules, accepted, logged, worked, pass, jobs>>
      BY <1>3 DEF MarkFirstDelivered
    <2>3. (act.marked \/ ok) \in BOOLEAN
      BY Zenon
    <2>4. /\ act' \in Row /\ act'.token = act.token /\ act'.domain = act.domain
          /\ act'.version = act.version
      BY <2>1, <2>3, RowFlags DEF IInv, TypeOK, Row
    <2>5. act.marked => act'.marked
      BY <2>1 DEF IInv, TypeOK, Row
    <2>6. marking' \in BOOLEAN
      BY <1>3, Zenon DEF MarkFirstDelivered
    <2>7. TypeOK'
      BY <2>2, <2>4, <2>6 DEF IInv, TypeOK, jobs
    <2>8. Known'
      BY <2>2, <2>5, KnownKept DEF IInv
    <2> QED BY <2>2, <2>4, <2>7, <2>8, JobsIdle
  <1> QED BY <1>1, <1>2, <1>3

(* Cleanup: reconciliation of the marker, then the purge of the attempts.  *)
LEMMA CleanupSteps ==
  ASSUME IInv, Reconcile \/ PurgeLogs
  PROVE  IInv'
  <1>1. CASE Reconcile
    <2>1. /\ UNCHANGED <<alias, rules, accepted, logged, marking, worked, jobs>>
          /\ logged /\ pass' = "purge" /\ act' = [act EXCEPT !.marked = @ \/ logged]
      BY <1>1 DEF Reconcile, Reconciled
    <2>2. (act.marked \/ logged) \in BOOLEAN /\ (act.marked \/ logged)
      BY <2>1, Zenon
    <2>3. /\ act' \in Row /\ act'.token = act.token /\ act'.domain = act.domain
          /\ act'.version = act.version
      BY <2>1, <2>2, RowFlags DEF IInv, TypeOK, Row
    <2>4. act'.marked
      BY <2>1, <2>2 DEF IInv, TypeOK, Row
    <2>5. TypeOK'
      BY <2>1, <2>3 DEF IInv, TypeOK, jobs
    <2>6. Known'
      BY <2>4 DEF Known, Working
    <2> QED BY <2>1, <2>3, <2>5, <2>6, JobsIdle
  <1>2. CASE PurgeLogs
    <2>1. UNCHANGED <<alias, act, rules, accepted, marking, worked, jobs>> /\ pass = "purge"
          /\ pass' = "idle"
      BY <1>2 DEF PurgeLogs
    <2>2. logged' \in BOOLEAN
      <3>1. logged' = FALSE \/ logged' = logged
        BY <1>2 DEF PurgeLogs
      <3>2. logged \in BOOLEAN
        BY DEF IInv, TypeOK
      <3> QED BY <3>1, <3>2, Zenon
    <2>3. TypeOK'
      BY <2>1, <2>2 DEF IInv, TypeOK, jobs
    <2>4. Known'
      BY <2>1 DEF IInv, Known, Working
    <2> QED BY <2>1, <2>3, <2>4, JobsIdle
  <1> QED BY <1>1, <1>2

(* The alias changes.                                                      *)
LEMMA AliasSteps ==
  ASSUME IInv, Reroute \/ (\E x \in Status : SetStatus(x)) \/ Matures
  PROVE  IInv'
  <1> USE NoticesAssumption DEF NoticesAssumption
  <1>0. FALSE \in BOOLEAN
    BY Zenon
  <1>1. UNCHANGED <<act, rules, proof, jobs>>
    BY DEF Reroute, SetStatus, Matures
  <1>2. alias' \in [status : Status, version : 0..MaxVersion, young : BOOLEAN]
    <2>1. alias \in [status : Status, version : 0..MaxVersion, young : BOOLEAN]
      BY DEF IInv, TypeOK
    <2>2. CASE Reroute
      <3>1. alias.version + 1 \in 0..MaxVersion
        BY <2>1, <2>2 DEF Reroute
      <3> QED BY <2>1, <2>2, <3>1 DEF Reroute
    <2>3. CASE \E x \in Status : SetStatus(x)
      BY <2>1, <2>3 DEF SetStatus
    <2>4. CASE Matures
      BY <1>0, <2>1, <2>4 DEF Matures
    <2> QED BY <2>2, <2>3, <2>4
  <1>3. TypeOK'
    BY <1>1, <1>2 DEF IInv, TypeOK, proof, jobs
  <1>4. Known'
    BY <1>1, KnownKept DEF IInv, proof
  <1> QED BY <1>1, <1>3, <1>4, JobsIdle

(* The window, the token's life and the cleanup of dead tokens.            *)
LEMMA ClockSteps ==
  ASSUME IInv, ClearExpired \/ WindowPasses \/ TokenExpires
  PROVE  IInv'
  <1>0. FALSE \in BOOLEAN
    BY Zenon
  <1>1. UNCHANGED <<world, jobs>>
    BY DEF ClearExpired, WindowPasses, TokenExpires
  <1>2. /\ act' \in Row /\ act'.marked = act.marked /\ act'.token \in {None, act.token}
        /\ act'.token # None => act'.domain = act.domain /\ act'.version = act.version
    <2>1. act \in Row
      BY DEF IInv, TypeOK
    <2>2. CASE ClearExpired
      <3>1. act' = [act EXCEPT !.token = None, !.domain = None]
        BY <2>2 DEF ClearExpired
      <3> QED BY <2>1, <3>1 DEF Row
    <2>3. CASE WindowPasses
      <3>1. act' = [act EXCEPT !.recent = FALSE]
        BY <2>3 DEF WindowPasses
      <3> QED BY <1>0, <2>1, <3>1 DEF Row
    <2>4. CASE TokenExpires
      <3>1. act' = [act EXCEPT !.live = FALSE]
        BY <2>4 DEF TokenExpires
      <3> QED BY <1>0, <2>1, <3>1 DEF Row
    <2> QED BY <2>2, <2>3, <2>4
  <1>3. TypeOK'
    BY <1>1, <1>2 DEF IInv, TypeOK, world, proof, jobs
  <1>4. Known'
    BY <1>1, <1>2, KnownKept DEF IInv, world, proof
  <1> QED BY <1>1, <1>2, <1>3, <1>4, JobsIdle

(* Shutdown closes the queue.                                              *)
LEMMA ShutdownStep ==
  ASSUME IInv, Shutdown
  PROVE  IInv'
  <1>0. TRUE \in BOOLEAN
    BY Zenon
  <1>1. UNCHANGED <<world, act, job, authing, notices, added>>
        /\ queue' = [queue EXCEPT !.closed = TRUE]
    BY DEF Shutdown
  <1>2. /\ queue' \in [admitted : 0..MaxAdmitted, held : 0..MaxHeldMime, active : 0..AuthSlots,
                       waiters : Seq(Job), closed : BOOLEAN]
        /\ queue'.admitted = queue.admitted /\ queue'.held = queue.held
        /\ queue'.active = queue.active /\ queue'.waiters = queue.waiters
    BY <1>0, <1>1 DEF IInv, TypeOK
  <1>3. TypeOK'
    BY <1>1, <1>2 DEF IInv, TypeOK, world, proof
  <1>4. Held' = Held /\ HeldMime' = HeldMime /\ Waiting' = Waiting
    BY <1>1 DEF Held, HeldMime, Waiting
  <1>5. Counted' /\ Line'
    BY <1>1, <1>2, <1>4 DEF IInv, Counted, Line
  <1>6. \A k \in Job : JobKept(k)
    BY <1>1 DEF IInv, Earned, JobKept, Late
  <1>7. Earned'
    BY <1>1, <1>6, EarnedKept DEF IInv
  <1>8. Known'
    BY <1>1, KnownKept DEF IInv, world, proof
  <1> QED BY <1>3, <1>5, <1>7, <1>8 DEF IInv

-----------------------------------------------------------------------------
(* The queue.                                                              *)

(* admit(): refused, or one more in the queue and maybe one more MIME.     *)
LEMMA AdmitStep ==
  ASSUME IInv, NEW j \in Job, NEW d \in Domain \cup {None}, Admit(j, d)
  PROVE  IInv'
  <1> USE NoticesAssumption DEF NoticesAssumption
  <1>1. /\ job[j].pc = "none" /\ job[j] \in JobState /\ job \in [Job -> JobState]
        /\ UNCHANGED <<world, act, authing, notices, added>>
    BY DEF Admit, IInv, TypeOK
  <1>2. j \notin authing /\ j \notin Held /\ j \notin HeldMime
    BY <1>1 DEF IInv, Line, Held, HeldMime
  <1>3. CASE queue.closed \/ queue.admitted >= MaxAdmitted
    <2>1. Goto(j, "refused") /\ UNCHANGED queue
      BY <1>3 DEF Admit
    <2>2. Moves(j, "refused") /\ job'[j].passes = job[j].passes /\ job'[j].version = job[j].version
      BY <2>1, GotoMoves DEF IInv
    <2>3. TypeOK'
      BY <1>1, <2>1, <2>2 DEF IInv, TypeOK, Moves, world, proof
    <2>4. \A k \in Job : (k \in Held' <=> k \in Held) /\ job'[k].mime = job[k].mime
      BY <1>1, <2>2 DEF Held, Moves
    <2>5. Counted'
      BY <2>1, <2>4, CountedKept DEF IInv
    <2>6. Line'
      BY <1>1, <1>2, <2>1, <2>2, MoveLine DEF IInv
    <2>7. \A k \in Job : JobKept(k)
      <3>1. JobKept(j)
        BY <1>1, <2>2 DEF JobKept, Moves, Late
      <3>2. \A k \in Job \ {j} : JobKept(k)
        BY <2>2 DEF IInv, Earned, Moves, JobKept
      <3> QED BY <3>1, <3>2
    <2>8. Earned' /\ Known'
      BY <1>1, <2>7, EarnedKept, KnownKept DEF IInv, world, proof
    <2> QED BY <2>3, <2>5, <2>6, <2>8 DEF IInv
  <1>4. CASE ~(queue.closed \/ queue.admitted >= MaxAdmitted)
    <2> DEFINE mime == d # None /\ queue.held < MaxHeldMime
               n == [job[j] EXCEPT !.pc = "admitted", !.from = d, !.mime = mime]
               a == queue.admitted + 1
               h == IF mime THEN queue.held + 1 ELSE queue.held
    <2>1. job' = [job EXCEPT ![j] = n]
      BY <1>4 DEF Admit
    <2>2. queue' = [queue EXCEPT !.admitted = a, !.held = h]
      BY <1>4 DEF Admit
    <2>3. mime \in BOOLEAN
      BY Zenon
    <2>4. queue \in [admitted : 0..MaxAdmitted, held : 0..MaxHeldMime, active : 0..AuthSlots,
                      waiters : Seq(Job), closed : BOOLEAN]
      BY DEF IInv, TypeOK
    <2>5. a \in 0..MaxAdmitted /\ h \in 0..MaxHeldMime
      BY <1>4, <2>4
    <2>6. /\ queue' \in [admitted : 0..MaxAdmitted, held : 0..MaxHeldMime, active : 0..AuthSlots,
                         waiters : Seq(Job), closed : BOOLEAN]
          /\ queue'.admitted = a /\ queue'.held = h
          /\ queue'.active = queue.active /\ queue'.waiters = queue.waiters
      <3> HIDE DEF a, h
      <3> QED BY <2>2, <2>4, <2>5
    <2>7. n \in JobState /\ n.pc = "admitted" /\ n.mime = mime
      <3> HIDE DEF mime
      <3> QED BY <1>1, <2>3 DEF JobState
    <2> HIDE DEF n
    <2>8. /\ job' \in [Job -> JobState] /\ job'[j].pc = "admitted" /\ job'[j].mime = mime
          /\ \A k \in Job \ {j} : job'[k] = job[k]
      <3> HIDE DEF mime
      <3> QED BY <1>1, <2>1, <2>7
    <2>9. TypeOK'
      BY <1>1, <2>6, <2>8 DEF IInv, TypeOK, world, proof
    <2>10. Held' = Held \cup {j}
      BY <1>1, <2>8 DEF Held
    <2>11. HeldMime' = IF mime THEN HeldMime \cup {j} ELSE HeldMime
      <3> HIDE DEF mime
      <3>1. \A k \in Job : k \in HeldMime' <=> (k \in HeldMime \/ (k = j /\ mime))
        BY <1>2, <2>8, <2>10 DEF HeldMime
      <3>2. HeldMime' \subseteq Job /\ HeldMime \subseteq Job
        BY DEF HeldMime, Held
      <3> QED BY <2>3, <3>1, <3>2
    <2>12. Counted'
      <3>1. IsFiniteSet(Held') /\ Cardinality(Held') = a
        BY <1>2, <2>10, FS_AddElement DEF IInv, Counted
      <3>2. IsFiniteSet(HeldMime') /\ Cardinality(HeldMime') = h
        <4>1. CASE mime
          <5> HIDE DEF mime
          <5>1. HeldMime' = HeldMime \cup {j} /\ h = queue.held + 1
            BY <2>11, <4>1
          <5> QED BY <1>2, <5>1, FS_AddElement DEF IInv, Counted
        <4>2. CASE ~mime
          <5> HIDE DEF mime
          <5>1. HeldMime' = HeldMime /\ h = queue.held
            BY <2>11, <4>2
          <5> QED BY <5>1 DEF IInv, Counted
        <4> QED BY <4>1, <4>2
      <3> HIDE DEF a, h
      <3> QED BY <2>6, <3>1, <3>2 DEF Counted
    <2>13. Line'
      <3>1. Waiting' = Waiting
        BY <1>1, <2>8 DEF Waiting
      <3>2. \A k \in authing : job'[k].pc \in {"authing", "revalidate", "reading", "send", "settling"}
        BY <1>2, <2>8 DEF IInv, Line, TypeOK
      <3> QED BY <1>1, <2>6, <3>1, <3>2 DEF IInv, Line
    <2>14. \A k \in Job : JobKept(k)
      <3>1. JobKept(j)
        BY <1>1, <2>8 DEF JobKept, Late
      <3>2. \A k \in Job \ {j} : JobKept(k)
        BY <2>8 DEF IInv, Earned, JobKept
      <3> QED BY <3>1, <3>2
    <2>15. Earned' /\ Known'
      BY <1>1, <2>14, EarnedKept, KnownKept DEF IInv, world, proof
    <2> QED BY <2>9, <2>12, <2>13, <2>15 DEF IInv
  <1> QED BY <1>3, <1>4

(* A settled job gives back its place and its MIME, once.                  *)
LEMMA SettleStep ==
  ASSUME IInv, NEW j \in Job, Settle(j)
  PROVE  IInv'
  <1> DEFINE a == queue.admitted - 1
             h == IF job[j].mime THEN queue.held - 1 ELSE queue.held
  <1>1. /\ job[j].pc = "settling" /\ j \notin authing /\ Goto(j, "settled")
        /\ queue' = [queue EXCEPT !.admitted = a, !.held = h]
        /\ UNCHANGED <<world, act, authing, notices, added>>
    BY DEF Settle
  <1>2. Moves(j, "settled") /\ job'[j].passes = job[j].passes /\ job'[j].version = job[j].version
    BY <1>1, GotoMoves DEF IInv
  <1>3. j \in Held /\ (j \in HeldMime <=> job[j].mime)
    BY <1>1 DEF Held, HeldMime
  <1>4. Held' = Held \ {j} /\ HeldMime' = HeldMime \ {j}
    <2>1. Held' = Held \ {j}
      BY <1>1, <1>2 DEF Held, Moves
    <2> QED BY <2>1, <1>2 DEF HeldMime, Held, Moves
  <1>5. IsFiniteSet(Held') /\ Cardinality(Held') = a
    BY <1>3, <1>4, FS_RemoveElement DEF IInv, Counted
  <1>6. IsFiniteSet(HeldMime') /\ Cardinality(HeldMime') = h
    <2>1. CASE job[j].mime
      <3>1. h = queue.held - 1 /\ j \in HeldMime
        BY <1>3, <2>1
      <3> QED BY <1>4, <3>1, FS_RemoveElement DEF IInv, Counted
    <2>2. CASE ~job[j].mime
      <3>1. h = queue.held /\ j \notin HeldMime
        BY <1>3, <2>2
      <3> QED BY <1>4, <3>1, FS_RemoveElement DEF IInv, Counted
    <2> QED BY <2>1, <2>2
  <1>7. queue \in [admitted : 0..MaxAdmitted, held : 0..MaxHeldMime, active : 0..AuthSlots,
                   waiters : Seq(Job), closed : BOOLEAN]
    BY DEF IInv, TypeOK
  <1>8. a \in 0..MaxAdmitted /\ h \in 0..MaxHeldMime
    <2>1. Cardinality(Held') \in Nat /\ Cardinality(HeldMime') \in Nat
      BY <1>5, <1>6, FS_CardinalityType
    <2>2. a \in Nat /\ h \in Nat
      BY <1>5, <1>6, <2>1
    <2> QED BY <1>7, <2>2, NoticesAssumption DEF NoticesAssumption
  <1> HIDE DEF a, h
  <1>9. /\ queue' \in [admitted : 0..MaxAdmitted, held : 0..MaxHeldMime, active : 0..AuthSlots,
                       waiters : Seq(Job), closed : BOOLEAN]
        /\ queue'.admitted = a /\ queue'.held = h
        /\ queue'.active = queue.active /\ queue'.waiters = queue.waiters
    BY <1>1, <1>7, <1>8
  <1>10. TypeOK'
    BY <1>1, <1>2, <1>9 DEF IInv, TypeOK, Moves, world, proof
  <1>11. Counted'
    BY <1>5, <1>6, <1>9 DEF Counted
  <1>12. Line'
    BY <1>1, <1>2, <1>9, MoveLine DEF IInv
  <1>13. \A k \in Job : JobKept(k)
    <2>1. JobKept(j)
      BY <1>1, <1>2 DEF JobKept, Moves, Late
    <2>2. \A k \in Job \ {j} : JobKept(k)
      BY <1>2 DEF IInv, Earned, Moves, JobKept
    <2> QED BY <2>1, <2>2
  <1>14. Earned' /\ Known'
    BY <1>1, <1>13, EarnedKept, KnownKept DEF IInv, world, proof
  <1> QED BY <1>10, <1>11, <1>12, <1>14 DEF IInv

-----------------------------------------------------------------------------
(* The phases.                                                             *)

(* A job that gives up, or goes on without changing anything else.         *)
LEMMA QuietGoto ==
  ASSUME IInv, NEW j \in Job, NEW p \in {"claim", "revalidate", "settling"}, Goto(j, p),
         job[j].pc \in Alive \ {"waiting"},
         job[j].pc \in {"reading", "send", "settling"} => p = "settling",
         p = "claim" => job[j].pc = "admitted",
         UNCHANGED <<world, act, queue, authing, notices, added>>
  PROVE  IInv'
  <1>1. Moves(j, p) /\ job'[j].passes = job[j].passes /\ job'[j].version = job[j].version
    BY GotoMoves DEF IInv, Alive
  <1>2. JobKept(j)
    BY <1>1 DEF JobKept, Moves, Late, Alive
  <1>3. j \in authing => p \in {"authing", "revalidate", "reading", "send", "settling"}
    BY DEF IInv, Line
  <1>4. p \in Alive \ {"waiting"}
    BY DEF Alive
  <1> QED BY <1>1, <1>2, <1>3, <1>4, QuietMove

(* run() starts the job or drops it.                                       *)
LEMMA StartStep ==
  ASSUME IInv, NEW j \in Job, Start(j)
  PROVE  IInv'
  BY QuietGoto DEF Start, Alive

(* The gate remembers the alias's version.                                 *)
LEMMA ReadGateStep ==
  ASSUME IInv, NEW j \in Job, ReadGate(j)
  PROVE  IInv'
  <1>1. job[j].pc = "claim" /\ UNCHANGED <<world, act, queue, authing, notices, added>>
    BY DEF ReadGate
  <1>2. CASE Goto(j, "settling")
    BY <1>1, <1>2, QuietGoto DEF Alive
  <1>3. CASE job' = [job EXCEPT ![j].pc = "claiming", ![j].version = alias.version]
    <2>1. job \in [Job -> JobState] /\ job[j] \in JobState /\ alias.version \in 0..MaxVersion
      BY DEF IInv, TypeOK
    <2> DEFINE n == [[job[j] EXCEPT !.pc = "claiming"] EXCEPT !.version = alias.version]
    <2>2. job' = [job EXCEPT ![j] = n]
      BY <1>3, <2>1
    <2>3. n \in JobState /\ n.pc = "claiming" /\ n.mime = job[j].mime /\ n.from = job[j].from
      BY <2>1 DEF JobState
    <2> HIDE DEF n
    <2>4. Moves(j, "claiming")
      BY <2>1, <2>2, <2>3 DEF Moves
    <2>5. JobKept(j)
      BY <1>1, <2>4 DEF JobKept, Moves, Late
    <2>6. j \notin authing
      BY <1>1 DEF IInv, Line
    <2> QED BY <1>1, <2>4, <2>5, <2>6, QuietMove DEF Alive
  <1> QED BY <1>2, <1>3 DEF ReadGate

(* What a claim writes.                                                    *)
LEMMA ClaimedRow ==
  ASSUME TypeOK, NEW j \in Job, Claimable
  PROVE  /\ Claimed(j) \in Row /\ Claimed(j).token = j /\ Claimed(j).domain = None
         /\ Claimed(j).version = job[j].version /\ Claimed(j).marked = act.marked
  <1> USE NoticesAssumption DEF NoticesAssumption
  <1>1. act \in Row /\ act.claims + 1 \in 0..ClaimBudget /\ job[j].version \in 0..MaxVersion
    BY DEF TypeOK, Row, Claimable, JobState
  <1>2. TRUE \in BOOLEAN
    BY Zenon
  <1> DEFINE a == [act EXCEPT !.claims = act.claims + 1]
             b == [a EXCEPT !.recent = TRUE]
             c == [b EXCEPT !.token = j]
             d == [c EXCEPT !.live = TRUE]
             e == [d EXCEPT !.domain = None]
             f == [e EXCEPT !.version = job[j].version]
  <1>3. a \in Row /\ a.marked = act.marked
    BY <1>1 DEF Row
  <1>4. b \in Row /\ b.marked = act.marked
    <2> HIDE DEF a
    <2> QED BY <1>2, <1>3 DEF Row
  <1>5. c \in Row /\ c.marked = act.marked /\ c.token = j
    <2> HIDE DEF b
    <2> QED BY <1>4 DEF Row
  <1>6. d \in Row /\ d.marked = act.marked /\ d.token = j
    <2> HIDE DEF c
    <2> QED BY <1>2, <1>5 DEF Row
  <1>7. e \in Row /\ e.marked = act.marked /\ e.token = j /\ e.domain = None
    <2> HIDE DEF d
    <2> QED BY <1>6 DEF Row
  <1>8. /\ f \in Row /\ f.marked = act.marked /\ f.token = j /\ f.domain = None
        /\ f.version = job[j].version
    <2> HIDE DEF e
    <2> QED BY <1>1, <1>7 DEF Row
  <1>9. Claimed(j) = f
    BY DEF Claimed
  <1> HIDE DEF f
  <1> QED BY <1>8, <1>9

(* The claim takes the token over; no domain is earned for it yet.         *)
LEMMA ClaimStep ==
  ASSUME IInv, NEW j \in Job, Claim(j)
  PROVE  IInv'
  <1> USE NoticesAssumption DEF NoticesAssumption
  <1>1. job[j].pc = "claiming" /\ UNCHANGED <<world, queue, authing, notices, added>>
    BY DEF Claim
  <1>2. CASE Goto(j, "settling") /\ UNCHANGED act
    BY <1>1, <1>2, QuietGoto DEF Alive
  <1>3. ASSUME Claimable, act' = Claimed(j), NEW p \in {"auth", "revalidate"}, Goto(j, p)
        PROVE  IInv'
    <2>1. Moves(j, p) /\ job'[j].passes = job[j].passes /\ job'[j].version = job[j].version
      BY <1>3, GotoMoves DEF IInv, Alive
    <2>2. /\ act' \in Row /\ act'.token = j /\ act'.domain = None
          /\ act'.version = job[j].version /\ act'.marked = act.marked
      BY <1>3, ClaimedRow DEF IInv
    <2>3. TypeOK'
      BY <1>1, <2>1, <2>2 DEF IInv, TypeOK, Moves, world, proof
    <2>4. Counted'
      BY <1>1, <2>1, MoveCounted DEF IInv, Alive
    <2>5. Line'
      <3>1. j \notin authing
        BY <1>1 DEF IInv, Line
      <3> QED BY <1>1, <2>1, <3>1, MoveLine DEF IInv
    <2>6. Known'
      BY <1>1, <2>2, KnownKept DEF IInv, world, proof
    <2>7. TokenOfJob'
      BY <2>1, <2>2 DEF TokenOfJob, Moves
    <2>8. \A n \in notices : n.token \in Job \ {j}
      BY <1>1 DEF IInv, Earned, NoticeOfJob, TypeOK
    <2>9. \A n \in notices : job'[n.token] = job[n.token]
      BY <2>1, <2>8 DEF Moves
    <2>10. \A r \in added : r.token \in Job \ {j} /\ job'[r.token] = job[r.token]
      BY <2>8, <2>9 DEF IInv, Earned, RuleOfNotice
    <2>11. NoticeOfJob'
      BY <1>1, <2>9 DEF IInv, Earned, NoticeOfJob
    <2>12. RuleOfNotice'
      BY <1>1, <2>2, <2>10 DEF IInv, Earned, RuleOfNotice
    <2>13. OneRule'
      BY <1>1 DEF IInv, Earned, OneRule
    <2>14. \A k \in Job : job'[k].pc = "domain" => job'[k].passes
      BY <2>1 DEF Moves, IInv, Earned
    <2>15. Earned'
      BY <2>7, <2>11, <2>12, <2>13, <2>14 DEF Earned
    <2> QED BY <2>3, <2>4, <2>5, <2>6, <2>15 DEF IInv
  <1> QED BY <1>2, <1>3 DEF Claim

(* The domain that passed is stored under the token it was earned for.     *)
LEMMA StoreDomainStep ==
  ASSUME IInv, NEW j \in Job, StoreDomain(j)
  PROVE  IInv'
  <1> USE NoticesAssumption DEF NoticesAssumption
  <1>1. job[j].pc = "domain" /\ UNCHANGED <<world, queue, authing, notices, added>>
    BY DEF StoreDomain
  <1>2. CASE UNCHANGED act /\ (Goto(j, "settling") \/ Goto(j, "revalidate"))
    BY <1>1, <1>2, QuietGoto DEF Alive
  <1>3. CASE Stored(j) /\ act' = [act EXCEPT !.domain = job[j].from] /\ Goto(j, "revalidate")
    <2>1. Moves(j, "revalidate") /\ job'[j].passes = job[j].passes
          /\ job'[j].version = job[j].version
      BY <1>3, GotoMoves DEF IInv, Alive
    <2>2. act \in Row /\ job[j].from \in Domain \cup {None} /\ act.token = j
      BY <1>3 DEF IInv, TypeOK, JobState, Stored
    <2>3. /\ act' \in Row /\ act'.token = j /\ act'.domain = job[j].from
          /\ act'.version = act.version /\ act'.marked = act.marked
      BY <1>3, <2>2 DEF Row
    <2>4. TypeOK'
      BY <1>1, <2>1, <2>3 DEF IInv, TypeOK, Moves, world, proof
    <2>5. Counted'
      BY <1>1, <2>1, MoveCounted DEF IInv, Alive
    <2>6. Line'
      BY <1>1, <2>1, MoveLine DEF IInv
    <2>7. Known'
      BY <1>1, <2>3, KnownKept DEF IInv, world, proof
    <2>8. job[j].passes /\ act.version = job[j].version
      BY <1>1, <2>2 DEF IInv, Earned, TokenOfJob
    <2>9. TokenOfJob'
      BY <2>1, <2>3, <2>8 DEF TokenOfJob, Moves
    <2>10. \A n \in notices : n.token \in Job \ {j} /\ job'[n.token] = job[n.token]
      BY <1>1, <2>1 DEF IInv, Earned, NoticeOfJob, TypeOK, Moves
    <2>11. NoticeOfJob'
      BY <1>1, <2>10 DEF IInv, Earned, NoticeOfJob
    <2>12. \A r \in added : r.token \in Job \ {j} /\ job'[r.token] = job[r.token]
      BY <2>10 DEF IInv, Earned, RuleOfNotice
    <2>13. RuleOfNotice'
      BY <1>1, <2>3, <2>12 DEF IInv, Earned, RuleOfNotice
    <2>14. OneRule' /\ \A k \in Job : job'[k].pc = "domain" => job'[k].passes
      BY <1>1, <2>1 DEF IInv, Earned, OneRule, Moves
    <2>15. Earned'
      BY <2>9, <2>11, <2>13, <2>14 DEF Earned
    <2> QED BY <2>4, <2>5, <2>6, <2>7, <2>15 DEF IInv
  <1> QED BY <1>2, <1>3 DEF StoreDomain

(* A notice shows the domain that its own mail earned.                     *)
LEMMA RevalidateStep ==
  ASSUME IInv, NEW j \in Job, Revalidate(j)
  PROVE  IInv'
  <1> USE NoticesAssumption DEF NoticesAssumption
  <1>1. job[j].pc = "revalidate" /\ UNCHANGED <<world, act, queue, authing, added>>
    BY DEF Revalidate
  <1>2. CASE Goto(j, "settling") /\ UNCHANGED notices
    BY <1>1, <1>2, QuietGoto DEF Alive
  <1> DEFINE n == [token |-> j, domain |-> OneTap(j), arrived |-> FALSE]
  <1>3. CASE StillEligible(j) /\ Goto(j, "reading") /\ notices' = notices \cup {n}
    <2>1. Moves(j, "reading") /\ job'[j].passes = job[j].passes /\ job'[j].version = job[j].version
      BY <1>3, GotoMoves DEF IInv, Alive
    <2>2. FALSE \in BOOLEAN
      BY Zenon
    <2>3. act.token = j /\ act.domain \in Domain \cup {None}
      BY <1>3 DEF StillEligible, IInv, TypeOK, Row
    <2>4. OneTap(j) \in Domain \cup {None} /\ (OneTap(j) # None => OneTap(j) = act.domain)
      BY <2>3 DEF OneTap
    <2>5. OneTap(j) # None => job[j].passes /\ job[j].from = OneTap(j)
      BY <2>3, <2>4 DEF IInv, Earned, TokenOfJob
    <2>6. /\ n \in [token : Job, domain : Domain \cup {None}, arrived : BOOLEAN]
          /\ n.token = j /\ n.domain = OneTap(j) /\ ~n.arrived
      BY <2>2, <2>4
    <2> HIDE DEF n
    <2>7. TypeOK'
      BY <1>1, <1>3, <2>1, <2>6 DEF IInv, TypeOK, Moves, world, proof
    <2>8. Counted'
      BY <1>1, <2>1, MoveCounted DEF IInv, Alive
    <2>9. Line'
      BY <1>1, <2>1, MoveLine DEF IInv
    <2>10. Known'
      BY <1>1, KnownKept DEF IInv, world, proof
    <2>11. \A k \in Job : job'[k].passes = job[k].passes /\ job'[k].from = job[k].from
                            /\ job'[k].version = job[k].version
      BY <2>1 DEF Moves
    <2>12. TokenOfJob'
      BY <1>1, <2>1, <2>3, <2>11 DEF IInv, Earned, TokenOfJob, Moves
    <2>13. NoticeOfJob'
      <3>1. ASSUME NEW m \in notices
            PROVE  m.token \in Job \ {j} /\ job'[m.token] = job[m.token]
        BY <1>1, <2>1 DEF IInv, Earned, NoticeOfJob, TypeOK, Moves
      <3>2. job'[j].pc = "reading" /\ (n.domain # None => job'[j].passes /\ job'[j].from = n.domain)
        BY <2>1, <2>5, <2>6, <2>11 DEF Moves
      <3> QED BY <1>3, <2>6, <3>1, <3>2 DEF IInv, Earned, NoticeOfJob
    <2>14. RuleOfNotice'
      <3>1. \A r \in added : r.token \in Job
        BY DEF IInv, TypeOK
      <3>2. notices \subseteq notices'
        BY <1>3
      <3> QED BY <1>1, <2>11, <3>1, <3>2 DEF IInv, Earned, RuleOfNotice
    <2>15. OneRule' /\ \A k \in Job : job'[k].pc = "domain" => job'[k].passes
      BY <1>1, <2>1 DEF IInv, Earned, OneRule, Moves
    <2>16. Earned'
      BY <2>12, <2>13, <2>14, <2>15 DEF Earned
    <2> QED BY <2>7, <2>8, <2>9, <2>10, <2>16 DEF IInv
  <1> QED BY <1>2, <1>3 DEF Revalidate

(* The notice whose read has committed goes on its way, or is dropped.     *)
LEMMA BeginSendStep ==
  ASSUME IInv, NEW j \in Job, BeginSend(j)
  PROVE  IInv'
  <1>1. job[j].pc = "reading" /\ UNCHANGED <<world, act, queue, authing, added>>
    BY DEF BeginSend
  <1>2. CASE Goto(j, "send") /\ UNCHANGED notices
    <2>1. Moves(j, "send") /\ job'[j].passes = job[j].passes /\ job'[j].version = job[j].version
      BY <1>2, GotoMoves DEF IInv, Alive
    <2>2. JobKept(j)
      BY <1>1, <2>1 DEF JobKept, Moves, Late
    <2> QED BY <1>1, <1>2, <2>1, <2>2, QuietMove DEF Alive
  <1>3. CASE Goto(j, "settling") /\ notices' = {n \in notices : n.token # j}
    <2>1. /\ Moves(j, "settling")
          /\ job'[j].passes = job[j].passes /\ job'[j].version = job[j].version
      BY <1>3, GotoMoves DEF IInv, Alive
    <2>2. /\ \A k \in Job : k # j => job'[k] = job[k]
          /\ \A k \in Job : /\ job'[k].passes = job[k].passes /\ job'[k].from = job[k].from
                            /\ job'[k].version = job[k].version
      BY <2>1 DEF Moves
    <2>3. TypeOK'
      BY <1>1, <1>3, <2>1 DEF IInv, TypeOK, Moves, world, proof
    <2>4. Counted'
      BY <1>1, <2>1, MoveCounted DEF IInv, Alive
    <2>5. Line'
      BY <1>1, <2>1, MoveLine DEF IInv
    <2>6. Known'
      BY <1>1, KnownKept DEF IInv, world, proof
    <2>7. TokenOfJob'
      <3> SUFFICES ASSUME act.token # None PROVE TokenOfJob'
        BY <1>1 DEF TokenOfJob
      <3>1. act.token \in Job
        BY DEF IInv, TypeOK, Row
      <3>2. CASE act.token = j
        BY <1>1, <2>1, <2>2, <3>2 DEF IInv, Earned, TokenOfJob, Moves
      <3>3. CASE act.token # j
        BY <1>1, <2>2, <3>1, <3>3 DEF IInv, Earned, TokenOfJob
      <3> QED BY <3>2, <3>3
    <2>8. NoticeOfJob'
      <3> SUFFICES ASSUME NEW n \in notices, n.token # j
                   PROVE  /\ job'[n.token].pc \in {"reading", "send", "settling", "settled"}
                          /\ n.arrived => job'[n.token].pc \notin {"reading", "send"}
                          /\ n.domain # None => /\ job'[n.token].passes
                                                 /\ job'[n.token].from = n.domain
        BY <1>3 DEF NoticeOfJob
      <3>1. job'[n.token] = job[n.token]
        BY <2>2 DEF IInv, TypeOK
      <3> QED BY <3>1 DEF IInv, Earned, NoticeOfJob
    <2>9. RuleOfNotice'
      <3>1. \A n \in notices : n.arrived => n \in notices'
        BY <1>1, <1>3 DEF IInv, Earned, NoticeOfJob
      <3>2. \A r \in added : r.token \in Job
        BY DEF IInv, TypeOK
      <3> QED BY <1>1, <2>2, <3>1, <3>2 DEF IInv, Earned, RuleOfNotice
    <2>10. OneRule' /\ \A k \in Job : job'[k].pc = "domain" => job'[k].passes
      BY <1>1, <2>1 DEF IInv, Earned, OneRule, Moves
    <2>11. Earned'
      BY <2>7, <2>8, <2>9, <2>10 DEF Earned
    <2> QED BY <2>3, <2>4, <2>5, <2>6, <2>11 DEF IInv
  <1> QED BY <1>2, <1>3 DEF BeginSend

(* The send ends: its notice arrived or is gone, others stay.              *)
LEMMA SendStep ==
  ASSUME IInv, NEW j \in Job, Send(j)
  PROVE  IInv'
  <1>1. job[j].pc = "send" /\ Goto(j, "settling") /\ UNCHANGED <<world, act, queue, authing, added>>
    BY DEF Send
  <1>2. PICK n \in notices, arrives \in BOOLEAN :
          /\ n.token = j
          /\ notices' = (notices \ {n}) \cup (IF arrives THEN {[n EXCEPT !.arrived = TRUE]} ELSE {})
    BY DEF Send
  <1> DEFINE m == [n EXCEPT !.arrived = TRUE]
  <1>3. Moves(j, "settling") /\ job'[j].passes = job[j].passes /\ job'[j].version = job[j].version
    BY <1>1, GotoMoves DEF IInv, Alive
  <1>4. TRUE \in BOOLEAN
    BY Zenon
  <1>5. /\ m \in [token : Job, domain : Domain \cup {None}, arrived : BOOLEAN]
        /\ m.token = j /\ m.domain = n.domain
    BY <1>2, <1>4 DEF IInv, TypeOK
  <1>6. notices' \subseteq (notices \cup {m}) /\ notices \ {n} \subseteq notices'
    BY <1>2
  <1> HIDE DEF m
  <1>7. TypeOK'
    BY <1>1, <1>3, <1>5, <1>6 DEF IInv, TypeOK, Moves, world, proof
  <1>8. Counted'
    BY <1>1, <1>3, MoveCounted DEF IInv, Alive
  <1>9. Line'
    BY <1>1, <1>3, MoveLine DEF IInv
  <1>10. Known'
    BY <1>1, KnownKept DEF IInv, world, proof
  <1>11. \A k \in Job : job'[k].passes = job[k].passes /\ job'[k].from = job[k].from
                          /\ job'[k].version = job[k].version
    BY <1>3 DEF Moves
  <1>12. \A k \in Job : k # j => job'[k] = job[k]
    BY <1>3 DEF Moves
  <1>13. TokenOfJob'
    <2> SUFFICES ASSUME act.token # None PROVE TokenOfJob'
      BY <1>1 DEF TokenOfJob
    <2>1. act.token \in Job
      BY DEF IInv, TypeOK, Row
    <2>2. CASE act.token = j
      BY <1>1, <1>3, <1>11, <2>2 DEF IInv, Earned, TokenOfJob, Moves
    <2>3. CASE act.token # j
      BY <1>1, <1>12, <2>1, <2>3 DEF IInv, Earned, TokenOfJob
    <2> QED BY <2>2, <2>3
  <1>14. NoticeOfJob'
    <2> SUFFICES ASSUME NEW x \in notices \cup {m}
                 PROVE  /\ job'[x.token].pc \in {"reading", "send", "settling", "settled"}
                        /\ x.arrived => job'[x.token].pc \notin {"reading", "send"}
                        /\ x.domain # None => job'[x.token].passes /\ job'[x.token].from = x.domain
      BY <1>6 DEF NoticeOfJob
    <2>1. x.token \in Job /\ job'[j].pc = "settling"
      BY <1>3, <1>5 DEF IInv, TypeOK, Moves
    <2>2. CASE x \in notices
      <3>1. CASE x.token = j
        BY <1>11, <2>1, <2>2, <3>1 DEF IInv, Earned, NoticeOfJob
      <3>2. CASE x.token # j
        BY <1>12, <2>1, <2>2, <3>2 DEF IInv, Earned, NoticeOfJob
      <3> QED BY <3>1, <3>2
    <2>3. CASE x = m
      BY <1>2, <1>5, <1>11, <2>1, <2>3 DEF IInv, Earned, NoticeOfJob
    <2> QED BY <2>2, <2>3
  <1>15. RuleOfNotice'
    <2>1. ~n.arrived
      BY <1>1, <1>2 DEF IInv, Earned, NoticeOfJob
    <2>2. \A x \in notices : x.arrived => x \in notices'
      BY <1>6, <2>1
    <2>3. \A r \in added : r.token \in Job
      BY DEF IInv, TypeOK
    <2> QED BY <1>1, <1>11, <2>2, <2>3 DEF IInv, Earned, RuleOfNotice
  <1>16. OneRule' /\ \A k \in Job : job'[k].pc = "domain" => job'[k].passes
    BY <1>1, <1>3 DEF IInv, Earned, OneRule, Moves
  <1>17. Earned'
    BY <1>13, <1>14, <1>15, <1>16 DEF Earned
  <1> QED BY <1>7, <1>8, <1>9, <1>10, <1>17 DEF IInv

(* A tap spends the token and adds the domain the button showed.           *)
LEMMA TapStep ==
  ASSUME IInv, NEW t \in Job, TapAllow(t)
  PROVE  IInv'
  <1> USE NoticesAssumption DEF NoticesAssumption
  <1>1. PICK n \in notices : n.token = t /\ n.arrived /\ n.domain # None
    BY DEF TapAllow
  <1>2. /\ act.token = t /\ act' = [act EXCEPT !.token = None]
        /\ UNCHANGED <<alias, proof, job, queue, authing, notices>>
    BY DEF TapAllow, Consumes
  <1> DEFINE r == [token |-> t, domain |-> act.domain, version |-> alias.version,
                   status |-> alias.status]
  <1>3. \/ UNCHANGED <<rules, added>>
        \/ SameAlias /\ rules' = rules \cup {act.domain} /\ added' = added \cup {r}
    BY DEF TapAllow
  <1>4. act \in Row /\ act' \in Row /\ act'.token = None /\ act'.marked = act.marked
    BY <1>2 DEF IInv, TypeOK, Row
  <1>5. Counted'
    BY <1>2, CountedKept DEF IInv, Held
  <1>6. Line'
    BY <1>2 DEF IInv, Line, Waiting
  <1>7. Known'
    BY <1>2, <1>4, KnownKept DEF IInv, proof
  <1>8. ASSUME SameAlias
        PROVE  /\ r \in [token : Job, domain : Domain, version : 0..MaxVersion, status : Status]
               /\ r.token = t /\ r.domain = n.domain /\ r.status = "active"
               /\ r.version = job[t].version /\ act.domain \in Domain
    <2>1. act.domain \in Domain /\ alias.status = "active" /\ alias.version = act.version
      BY <1>4, <1>8 DEF SameAlias, Row
    <2>2. act.version = job[t].version /\ job[t].from = act.domain
      BY <1>2, <2>1 DEF IInv, Earned, TokenOfJob
    <2>3. n.domain = job[t].from
      BY <1>1 DEF IInv, Earned, NoticeOfJob
    <2>4. alias.version \in 0..MaxVersion /\ alias.status \in Status
      BY DEF IInv, TypeOK
    <2> QED BY <2>1, <2>2, <2>3, <2>4
  <1> HIDE DEF r
  <1>9. TypeOK'
    BY <1>2, <1>3, <1>4, <1>8 DEF IInv, TypeOK, proof
  <1>10. \A x \in added : x.token # t /\ x.token # None
    BY <1>2 DEF IInv, Earned, RuleOfNotice, TypeOK
  <1>11. RuleOfNotice'
    <2>1. \A x \in added : /\ \E m \in notices : m.token = x.token /\ m.domain = x.domain /\ m.arrived
                            /\ x.status = "active" /\ x.version = job[x.token].version
      BY DEF IInv, Earned, RuleOfNotice
    <2> QED BY <1>1, <1>2, <1>3, <1>4, <1>8, <1>10, <2>1 DEF RuleOfNotice
  <1>12. OneRule'
    BY <1>3, <1>8, <1>10 DEF IInv, Earned, OneRule
  <1>13. TokenOfJob'
    BY <1>4 DEF TokenOfJob
  <1>14. NoticeOfJob' /\ \A k \in Job : job'[k].pc = "domain" => job'[k].passes
    BY <1>2 DEF IInv, Earned, NoticeOfJob
  <1>15. Earned'
    BY <1>11, <1>12, <1>13, <1>14 DEF Earned
  <1> QED BY <1>5, <1>6, <1>7, <1>9, <1>15 DEF IInv

-----------------------------------------------------------------------------
(* The authentication slots.                                               *)

Queue == [admitted : 0..MaxAdmitted, held : 0..MaxHeldMime, active : 0..AuthSlots,
          waiters : Seq(Job), closed : BOOLEAN]

(* A queue with another number of running authentications.                 *)
LEMMA ActiveSet ==
  ASSUME TypeOK, NEW x \in 0..AuthSlots
  PROVE  LET q == [queue EXCEPT !.active = x] IN
           /\ q \in Queue /\ q.active = x /\ q.waiters = queue.waiters
           /\ q.admitted = queue.admitted /\ q.held = queue.held
  BY DEF TypeOK, Queue

(* A queue with another line.                                              *)
LEMMA WaitersSet ==
  ASSUME TypeOK, NEW x \in Seq(Job)
  PROVE  LET q == [queue EXCEPT !.waiters = x] IN
           /\ q \in Queue /\ q.active = queue.active /\ q.waiters = x
           /\ q.admitted = queue.admitted /\ q.held = queue.held
  BY DEF TypeOK, Queue

(* A step of the slots: everything but the line.                           *)
LEMMA SlotStep ==
  ASSUME IInv, job' \in [Job -> JobState], queue' \in Queue, authing' \subseteq Job, Line',
         queue'.admitted = queue.admitted, queue'.held = queue.held,
         \A k \in Job : (k \in Held' <=> k \in Held) /\ job'[k].mime = job[k].mime,
         \A k \in Job : JobKept(k), UNCHANGED <<world, act, notices, added>>
  PROVE  IInv'
  <1>1. TypeOK'
    BY DEF IInv, TypeOK, Queue, world, proof
  <1>2. Counted'
    BY CountedKept DEF IInv
  <1>3. Earned' /\ Known'
    BY EarnedKept, KnownKept DEF IInv, world, proof
  <1> QED BY <1>1, <1>2, <1>3 DEF IInv

(* ctx.authenticate takes a slot, stands in line or gives up.              *)
LEMMA BeginAuthStep ==
  ASSUME IInv, NEW j \in Job, BeginAuth(j)
  PROVE  IInv'
  <1> USE NoticesAssumption DEF NoticesAssumption
  <1>1. job[j].pc = "auth" /\ UNCHANGED <<world, act, notices, added>>
    BY DEF BeginAuth
  <1>2. queue \in Queue /\ queue.active \in 0..AuthSlots /\ queue.waiters \in Seq(Job)
        /\ authing \subseteq Job
    BY DEF IInv, TypeOK, Queue
  <1>3. j \notin authing /\ j \notin Range(queue.waiters)
    BY <1>1 DEF IInv, Line, Waiting
  <1>4. CASE Goto(j, "settling") /\ UNCHANGED <<queue, authing>>
    BY <1>1, <1>4, QuietGoto DEF Alive
  <1>5. ASSUME NEW p \in {"authing", "waiting"}, Goto(j, p)
        PROVE  /\ Moves(j, p)
               /\ \A k \in Job : (k \in Held' <=> k \in Held) /\ job'[k].mime = job[k].mime
               /\ \A k \in Job : JobKept(k)
    <2>1. Moves(j, p) /\ job'[j].version = job[j].version
      BY <1>5, GotoMoves DEF IInv, Alive
    <2>2. JobKept(j)
      BY <1>1, <2>1 DEF JobKept, Moves, Late
    <2>3. \A k \in Job \ {j} : JobKept(k)
      BY <2>1 DEF IInv, Earned, Moves, JobKept
    <2>4. \A k \in Job : (k \in Held' <=> k \in Held) /\ job'[k].mime = job[k].mime
      BY <1>1, <2>1 DEF Moves, Held
    <2> QED BY <2>1, <2>2, <2>3, <2>4
  <1>6. CASE /\ queue.active < AuthSlots /\ queue' = [queue EXCEPT !.active = @ + 1]
             /\ authing' = authing \cup {j} /\ Goto(j, "authing")
    <2>1. queue.active + 1 \in 0..AuthSlots
      BY <1>2, <1>6
    <2>2. /\ queue' \in Queue /\ queue'.active = queue.active + 1 /\ queue'.waiters = queue.waiters
          /\ queue'.admitted = queue.admitted /\ queue'.held = queue.held
      BY <1>6, <2>1, ActiveSet DEF IInv
    <2>3. Moves(j, "authing")
      BY <1>5, <1>6
    <2>4. IsFiniteSet(authing') /\ Cardinality(authing') = queue'.active
      BY <1>3, <1>6, <2>2, FS_AddElement DEF IInv, Line
    <2>5. \A k \in authing' : job'[k].pc \in {"authing", "revalidate", "reading", "send", "settling"}
      BY <1>2, <1>6, <2>3 DEF IInv, Line, Moves
    <2>6. Waiting' = Waiting
      BY <1>1, <2>3 DEF Waiting, Moves
    <2>7. queue.waiters = <<>>
      BY <1>2, <1>6 DEF IInv, Line
    <2>8. Line'
      BY <2>2, <2>4, <2>5, <2>6, <2>7 DEF IInv, Line
    <2>9. job' \in [Job -> JobState] /\ authing' \subseteq Job
      BY <1>2, <1>6, <2>3 DEF Moves
    <2> QED BY <1>1, <1>5, <1>6, <2>2, <2>8, <2>9, SlotStep
  <1>7. CASE /\ queue.active >= AuthSlots /\ queue' = [queue EXCEPT !.waiters = Append(@, j)]
             /\ Goto(j, "waiting") /\ UNCHANGED authing
    <2>1. /\ Append(queue.waiters, j) \in Seq(Job) /\ IsInjective(Append(queue.waiters, j))
          /\ Range(Append(queue.waiters, j)) = Range(queue.waiters) \cup {j}
      BY <1>2, <1>3, Appended DEF IInv, Line
    <2>2. /\ queue' \in Queue /\ queue'.active = queue.active
          /\ queue'.waiters = Append(queue.waiters, j)
          /\ queue'.admitted = queue.admitted /\ queue'.held = queue.held
      BY <1>7, <2>1, WaitersSet DEF IInv
    <2>3. Moves(j, "waiting")
      BY <1>5, <1>7
    <2>4. Waiting' = Waiting \cup {j}
      BY <2>3 DEF Waiting, Moves
    <2>5. \A k \in authing : job'[k].pc \in {"authing", "revalidate", "reading", "send", "settling"}
      BY <1>2, <1>3, <2>3 DEF IInv, Line, Moves
    <2>6. queue.active = AuthSlots
      BY <1>2, <1>7
    <2>7. Line'
      BY <1>7, <2>1, <2>2, <2>4, <2>5, <2>6 DEF IInv, Line
    <2>8. job' \in [Job -> JobState] /\ authing' \subseteq Job
      BY <1>2, <1>7, <2>3 DEF Moves
    <2> QED BY <1>1, <1>5, <1>7, <2>2, <2>7, <2>8, SlotStep
  <1> QED BY <1>4, <1>6, <1>7 DEF BeginAuth

(* An abandoned wait leaves the line; a running authentication stays.      *)
LEMMA StopWaitingStep ==
  ASSUME IInv, NEW j \in Job, StopWaiting(j)
  PROVE  IInv'
  <1>1. /\ job[j].pc \in {"waiting", "authing"} /\ Goto(j, "revalidate")
        /\ UNCHANGED <<world, act, authing, notices, added>>
    BY DEF StopWaiting
  <1>2. queue \in Queue /\ queue.waiters \in Seq(Job) /\ authing \subseteq Job
    BY DEF IInv, TypeOK, Queue
  <1>3. Moves(j, "revalidate") /\ job'[j].version = job[j].version
    BY <1>1, GotoMoves DEF IInv, Alive
  <1>4. \A k \in Job : JobKept(k)
    <2>1. JobKept(j)
      BY <1>1, <1>3 DEF JobKept, Moves, Late
    <2>2. \A k \in Job \ {j} : JobKept(k)
      BY <1>3 DEF IInv, Earned, Moves, JobKept
    <2> QED BY <2>1, <2>2
  <1>5. \A k \in Job : (k \in Held' <=> k \in Held) /\ job'[k].mime = job[k].mime
    BY <1>1, <1>3 DEF Moves, Held
  <1>6. \A k \in authing : job'[k].pc \in {"authing", "revalidate", "reading", "send", "settling"}
    BY <1>2, <1>3 DEF IInv, Line, Moves
  <1>7. Waiting' = Waiting \ {j}
    BY <1>3 DEF Waiting, Moves
  <1>8. job' \in [Job -> JobState] /\ authing' \subseteq Job
    BY <1>1, <1>2, <1>3 DEF Moves
  <1>9. CASE UNCHANGED queue /\ \A i \in DOMAIN queue.waiters : queue.waiters[i] # j
    <2>1. j \notin Waiting
      BY <1>9 DEF IInv, Line, Range
    <2>2. Line'
      BY <1>1, <1>6, <1>7, <1>9, <2>1 DEF IInv, Line
    <2> QED BY <1>1, <1>2, <1>4, <1>5, <1>8, <1>9, <2>2, SlotStep
  <1>10. ASSUME NEW i \in DOMAIN queue.waiters, queue.waiters[i] = j,
                queue' = [queue EXCEPT !.waiters = RemoveAt(@, i)]
         PROVE  IInv'
    <2> DEFINE w == RemoveAt(queue.waiters, i)
    <2>1. i \in 1..Len(queue.waiters)
      BY <1>2
    <2>2. w \in Seq(Job) /\ IsInjective(w) /\ Range(w) = Range(queue.waiters) \ {j}
      BY <1>2, <1>10, <2>1, RemoveAtRemoves DEF IInv, Line
    <2> HIDE DEF w
    <2>3. /\ queue' \in Queue /\ queue'.active = queue.active /\ queue'.waiters = w
          /\ queue'.admitted = queue.admitted /\ queue'.held = queue.held
      BY <1>10, <2>2, WaitersSet DEF IInv, w
    <2>4. queue.active = AuthSlots
      <3>1. queue.waiters # <<>>
        BY <1>2, <2>1
      <3> QED BY <3>1 DEF IInv, Line
    <2>5. Line'
      BY <1>1, <1>6, <1>7, <2>2, <2>3, <2>4 DEF IInv, Line
    <2> QED BY <1>1, <1>4, <1>5, <1>8, <2>3, <2>5, SlotStep
  <1> QED BY <1>9, <1>10 DEF StopWaiting

(* A finished authentication frees its slot or hands it to the first       *)
(* waiter.                                                                 *)
LEMMA AuthSettlesStep ==
  ASSUME IInv, NEW j \in Job, NEW ok \in BOOLEAN, AuthSettles(j, ok)
  PROVE  IInv'
  <1> USE NoticesAssumption DEF NoticesAssumption
  <1> DEFINE next == IF queue.waiters = <<>> THEN {} ELSE {Head(queue.waiters)}
             n == [job[j] EXCEPT !.passes = ok, !.pc = IF ok THEN "domain" ELSE "revalidate"]
  <1>1. /\ j \in authing /\ queue' = Release(queue) /\ authing' = (authing \ {j}) \cup next
        /\ job' = [k \in Job |->
             CASE k = j /\ job[j].pc = "authing" -> n
               [] k \in next -> [job[k] EXCEPT !.pc = "authing"]
               [] OTHER -> job[k]]
        /\ UNCHANGED <<world, act, notices, added>>
    BY DEF AuthSettles
  <1>2. /\ queue \in Queue /\ queue.waiters \in Seq(Job) /\ authing \subseteq Job
        /\ queue.active \in 0..AuthSlots /\ job \in [Job -> JobState]
    BY DEF IInv, TypeOK, Queue
  <1>3. /\ job[j].pc \in {"authing", "revalidate", "reading", "send", "settling"} /\ j \notin Waiting
        /\ IsFiniteSet(authing) /\ queue.active = Cardinality(authing)
    BY <1>1 DEF IInv, Line, Waiting
  <1>4. next \subseteq Waiting
    <2>1. CASE queue.waiters # <<>>
      BY <1>2, <2>1, TailRemoves DEF IInv, Line
    <2> QED BY <2>1
  <1>5. j \notin next /\ \A k \in next : k \in Job /\ job[k].pc = "waiting" /\ k \notin authing
    BY <1>3, <1>4 DEF Waiting, IInv, Line
  <1>6. /\ n \in JobState /\ n.mime = job[j].mime /\ n.version = job[j].version
        /\ n.from = job[j].from
        /\ n.passes = ok /\ n.pc = (IF ok THEN "domain" ELSE "revalidate")
    <2>1. job[j] \in JobState /\ (IF ok THEN "domain" ELSE "revalidate") \in {"domain", "revalidate"}
      BY <1>2
    <2> DEFINE a == [job[j] EXCEPT !.passes = ok]
               p == IF ok THEN "domain" ELSE "revalidate"
    <2>2. /\ a \in JobState /\ a.mime = job[j].mime /\ a.version = job[j].version
          /\ a.from = job[j].from /\ a.passes = ok
      BY <2>1 DEF JobState
    <2>3. n = [a EXCEPT !.pc = p]
      OBVIOUS
    <2> HIDE DEF a, n, p
    <2>4. p \in {"domain", "revalidate"}
      BY DEF p
    <2>5. /\ n \in JobState /\ n.mime = job[j].mime /\ n.version = job[j].version
          /\ n.from = job[j].from /\ n.passes = ok /\ n.pc = p
      BY <2>2, <2>3, <2>4 DEF JobState
    <2> QED BY <2>5 DEF p
  <1> HIDE DEF n
  <1>7. \A k \in next :
          LET m == [job[k] EXCEPT !.pc = "authing"] IN
            /\ m \in JobState /\ m.mime = job[k].mime /\ m.version = job[k].version
            /\ m.from = job[k].from /\ m.passes = job[k].passes /\ m.pc = "authing"
    <2> HIDE DEF next
    <2> SUFFICES ASSUME NEW k \in next
                 PROVE  LET m == [job[k] EXCEPT !.pc = "authing"] IN
                          /\ m \in JobState /\ m.mime = job[k].mime /\ m.version = job[k].version
                          /\ m.from = job[k].from /\ m.passes = job[k].passes /\ m.pc = "authing"
      OBVIOUS
    <2>1. job[k] \in JobState
      BY <1>2, <1>5
    <2> QED BY <2>1 DEF JobState
  <1>8. /\ job[j].pc = "authing" => job'[j] = n
        /\ job[j].pc # "authing" => job'[j] = job[j]
        /\ \A k \in next : job'[k] = [job[k] EXCEPT !.pc = "authing"]
        /\ \A k \in Job : k # j /\ k \notin next => job'[k] = job[k]
    <2> HIDE DEF next
    <2>1. job'[j] = CASE job[j].pc = "authing" -> n
                      [] j \in next -> [job[j] EXCEPT !.pc = "authing"]
                      [] OTHER -> job[j]
      BY <1>1
    <2>2. \A k \in Job : k # j =>
            job'[k] = IF k \in next THEN [job[k] EXCEPT !.pc = "authing"] ELSE job[k]
      BY <1>1
    <2> QED BY <1>5, <2>1, <2>2
  <1> HIDE DEF next
  <1>9. job' \in [Job -> JobState]
    <2>1. ASSUME NEW k \in Job PROVE job'[k] \in JobState
      <3>1. job[k] \in JobState
        BY <1>2
      <3>2. CASE k = j
        BY <1>6, <1>8, <3>1, <3>2
      <3>3. CASE k \in next
        BY <1>7, <1>8, <3>3
      <3>4. CASE k # j /\ k \notin next
        BY <1>8, <3>1, <3>4
      <3> QED BY <3>2, <3>3, <3>4
    <2>2. job' = [k \in Job |-> job'[k]]
      BY <1>1
    <2> QED BY <2>1, <2>2
  <1>10. \A k \in Job : (k \in Held' <=> k \in Held) /\ job'[k].mime = job[k].mime
    <2> SUFFICES ASSUME NEW k \in Job PROVE (k \in Held' <=> k \in Held)
                        /\ job'[k].mime = job[k].mime
      OBVIOUS
    <2>1. CASE k = j
      BY <1>3, <1>6, <1>8, <2>1 DEF Held
    <2>2. CASE k \in next
      BY <1>5, <1>7, <1>8, <2>2 DEF Held
    <2>3. CASE k # j /\ k \notin next
      BY <1>8, <2>3 DEF Held
    <2> QED BY <2>1, <2>2, <2>3
  <1>11. \A k \in Job : JobKept(k)
    <2> SUFFICES ASSUME NEW k \in Job PROVE JobKept(k)
      OBVIOUS
    <2>1. CASE k = j
      BY <1>3, <1>6, <1>8, <2>1 DEF JobKept, Late
    <2>2. CASE k \in next
      BY <1>5, <1>7, <1>8, <2>2 DEF JobKept, Late
    <2>3. CASE k # j /\ k \notin next
      BY <1>8, <2>3 DEF JobKept, Late, IInv, Earned
    <2> QED BY <2>1, <2>2, <2>3
  <1>12. Waiting' = Waiting \ next
    <2>1. \A k \in Job : job'[k].pc = "waiting" <=> job[k].pc = "waiting" /\ k \notin next
      <3> SUFFICES ASSUME NEW k \in Job
                   PROVE  job'[k].pc = "waiting" <=> job[k].pc = "waiting" /\ k \notin next
        OBVIOUS
      <3>1. CASE k = j
        BY <1>3, <1>6, <1>8, <3>1
      <3>2. CASE k \in next
        BY <1>7, <1>8, <3>2
      <3>3. CASE k # j /\ k \notin next
        BY <1>8, <3>3
      <3> QED BY <3>1, <3>2, <3>3
    <2> QED BY <2>1 DEF Waiting
  <1>13. \A k \in authing' : job'[k].pc \in {"authing", "revalidate", "reading", "send", "settling"}
    <2> SUFFICES ASSUME NEW k \in authing'
                 PROVE  job'[k].pc \in {"authing", "revalidate", "reading", "send", "settling"}
      OBVIOUS
    <2>1. k # j /\ k \in Job
      BY <1>1, <1>2, <1>5
    <2>2. CASE k \in next
      BY <1>7, <1>8, <2>2
    <2>3. CASE k \notin next
      <3>1. k \in authing /\ job'[k] = job[k]
        BY <1>1, <1>8, <2>1, <2>3
      <3> QED BY <3>1 DEF IInv, Line
    <2> QED BY <2>2, <2>3
  <1>14. authing' \subseteq Job
    BY <1>1, <1>2, <1>5
  <1>15. IsFiniteSet(authing \ {j}) /\ Cardinality(authing \ {j}) = queue.active - 1
    BY <1>1, <1>3, FS_RemoveElement
  <1>16. CASE queue.waiters = <<>>
    <2>1. next = {} /\ authing' = authing \ {j}
      BY <1>1, <1>16 DEF next
    <2>2. queue.active - 1 \in 0..AuthSlots
      BY <1>2, <1>15, FS_CardinalityType
    <2>3. queue' = [queue EXCEPT !.active = queue.active - 1]
      BY <1>1, <1>16 DEF Release
    <2>4. /\ queue' \in Queue /\ queue'.active = queue.active - 1 /\ queue'.waiters = queue.waiters
          /\ queue'.admitted = queue.admitted /\ queue'.held = queue.held
      BY <2>2, <2>3, ActiveSet DEF IInv
    <2>5. Line'
      BY <1>12, <1>13, <1>15, <1>16, <2>1, <2>4 DEF IInv, Line
    <2> QED BY <1>1, <1>9, <1>10, <1>11, <1>14, <2>4, <2>5, SlotStep
  <1>17. CASE queue.waiters # <<>>
    <2> DEFINE h == Head(queue.waiters)
               w == Tail(queue.waiters)
    <2>1. next = {h} /\ authing' = (authing \ {j}) \cup {h} /\ h \notin authing
      BY <1>1, <1>5, <1>17 DEF next
    <2>2. w \in Seq(Job) /\ IsInjective(w) /\ Range(w) = Range(queue.waiters) \ {h}
      BY <1>2, <1>17, TailRemoves DEF IInv, Line
    <2>3. IsFiniteSet(authing') /\ Cardinality(authing') = queue.active
      <3> HIDE DEF h
      <3>1. IsFiniteSet(authing') /\ Cardinality(authing') = queue.active - 1 + 1
        BY <1>15, <2>1, FS_AddElement
      <3> QED BY <1>2, <3>1
    <2>4. queue' = [queue EXCEPT !.waiters = w]
      BY <1>1, <1>17 DEF Release
    <2> HIDE DEF w, h
    <2>5. /\ queue' \in Queue /\ queue'.active = queue.active /\ queue'.waiters = w
          /\ queue'.admitted = queue.admitted /\ queue'.held = queue.held
      BY <2>2, <2>4, WaitersSet DEF IInv
    <2>6. Line'
      BY <1>12, <1>13, <1>17, <2>1, <2>2, <2>3, <2>5 DEF IInv, Line
    <2> QED BY <1>1, <1>9, <1>10, <1>11, <1>14, <2>5, <2>6, SlotStep
  <1> QED BY <1>16, <1>17

-----------------------------------------------------------------------------
(* Theorems.                                                               *)

(* Every step keeps the invariant.                                         *)
LEMMA NextStep ==
  ASSUME IInv, [Next]_vars
  PROVE  IInv'
  <1>1. CASE UNCHANGED vars
    <2>1. UNCHANGED <<world, act, jobs>>
      BY <1>1 DEF vars, jobs
    <2>2. TypeOK'
      BY <2>1 DEF IInv, TypeOK, world, proof, jobs
    <2>3. Known'
      BY <2>1, KnownKept DEF IInv, world, proof
    <2> QED BY <2>1, <2>2, <2>3, JobsIdle
  <1>2. ASSUME NEW j \in Job, JobStep(j) PROVE IInv'
    BY <1>2, StartStep, ReadGateStep, ClaimStep, BeginAuthStep, StopWaitingStep, StoreDomainStep,
       RevalidateStep, BeginSendStep, SendStep, SettleStep DEF JobStep
  <1>3. ASSUME NEW j \in Job, TapAllow(j) PROVE IInv'
    BY <1>3, TapStep
  <1>4. ASSUME NEW j \in Job, NEW ok \in BOOLEAN, AuthSettles(j, ok) PROVE IInv'
    BY <1>4, AuthSettlesStep
  <1>5. ASSUME NEW j \in Job, NEW d \in Domain \cup {None}, Admit(j, d) PROVE IInv'
    BY <1>5, AdmitStep
  <1>6. ASSUME NEW d \in Domain, AllowCommand(d) \/ QuickAllow(d) \/ DeleteRule(d) \/ RuleReply(d)
        PROVE IInv'
    BY <1>6, RuleSteps
  <1> QED BY <1>1, <1>2, <1>3, <1>4, <1>5, <1>6, ShutdownStep, DeliverySteps, CleanupSteps,
             AliasSteps, ClockSteps DEF Next

(* The invariant holds in every reachable state.                           *)
THEOREM Inductive == Spec => []IInv
  BY InitIInv, NextStep, PTL DEF Spec

(* Every variable keeps its type; no counter of the queue leaves its       *)
(* bounds.                                                                 *)
THEOREM TypeCorrect == Spec => []TypeOK
  <1>1. IInv => TypeOK
    BY DEF IInv
  <1> QED BY <1>1, Inductive, PTL

(* No place, MIME or slot of the notice queue is leaked or freed twice.    *)
THEOREM NothingLeakedHolds == Spec => []NothingLeaked
  <1>1. ASSUME IInv PROVE NothingLeaked
    <2>1. queue.held = Cardinality({j \in Held : job[j].mime}) /\ queue.admitted = Cardinality(Held)
      BY <1>1 DEF IInv, Counted, HeldMime
    <2>2. authing \subseteq Held
      BY <1>1 DEF IInv, Line, TypeOK, Held
    <2>3. {j \in Job : job[j].pc = "waiting"} = {queue.waiters[i] : i \in DOMAIN queue.waiters}
      BY <1>1 DEF IInv, Line, Waiting, Range
    <2>4. queue.active = Cardinality(authing) /\ (queue.waiters # <<>> => queue.active = AuthSlots)
      BY <1>1 DEF IInv, Line
    <2> QED BY <2>1, <2>2, <2>3, <2>4 DEF NothingLeaked
  <1> QED BY <1>1, Inductive, PTL

(* A tap adds only the domain that its button showed and that the claim's  *)
(* own mail authenticated, once per token.                                 *)
THEOREM TapAddsEarnedDomainHolds == Spec => []TapAddsEarnedDomain
  <1>1. ASSUME IInv PROVE TapAddsEarnedDomain
    <2>1. \A n \in notices : n.domain # None => job[n.token].passes /\ job[n.token].from = n.domain
      BY <1>1 DEF IInv, Earned, NoticeOfJob
    <2>2. \A r \in added :
            /\ \E n \in notices : n.token = r.token /\ n.domain = r.domain
            /\ r.status = "active" /\ r.version = job[r.token].version
      BY <1>1 DEF IInv, Earned, RuleOfNotice
    <2>3. \A r, s \in added : r.token = s.token => r = s
      BY <1>1 DEF IInv, Earned, OneRule
    <2> QED BY <2>1, <2>2, <2>3 DEF TapAddsEarnedDomain
  <1> QED BY <1>1, Inductive, PTL

-----------------------------------------------------------------------------
(* What passes the last check.                                             *)

(* Job j, and no other, may get to p.                                      *)
Starts(j, p) == \A k \in Job : job[k].pc # "reading" /\ job'[k].pc = "reading" => k = j /\ p = "reading"

(* A job that Goto moves.                                                  *)
LEMMA GotoStarts ==
  ASSUME TypeOK, NEW j \in Job, NEW p \in Alive \cup {"refused", "settled"}, Goto(j, p)
  PROVE  Starts(j, p)
  BY GotoMoves DEF Moves, Starts

(* The steps of a job other than its revalidation.                         *)
LEMMA JobStarts ==
  ASSUME IInv, NEW j \in Job, JobStep(j), ~Revalidate(j)
  PROVE  \A k \in Job : job[k].pc # "reading" => job'[k].pc # "reading"
  <1>1. TypeOK /\ job[j] \in JobState
    BY DEF IInv, TypeOK
  <1>2. CASE \E p \in (Alive \cup {"refused", "settled"}) \ {"reading"} : Goto(j, p)
    BY <1>1, <1>2, GotoStarts DEF Starts
  <1>3. CASE job' = [job EXCEPT ![j].pc = "claiming", ![j].version = alias.version]
    <2> DEFINE n == [[job[j] EXCEPT !.pc = "claiming"] EXCEPT !.version = alias.version]
    <2>1. job \in [Job -> JobState] /\ job' = [job EXCEPT ![j] = n]
      BY <1>3 DEF IInv, TypeOK
    <2>2. n.pc = "claiming"
      BY <1>1 DEF JobState
    <2> HIDE DEF n
    <2> QED BY <2>1, <2>2
  <1>4. CASE \/ Start(j) \/ StopWaiting(j) \/ StoreDomain(j) \/ BeginSend(j)
             \/ Send(j) \/ Settle(j)
    BY <1>2, <1>4 DEF Start, StopWaiting, StoreDomain, BeginSend, Send, Settle, Alive
  <1>5. CASE Claim(j) \/ BeginAuth(j)
    BY <1>2, <1>5 DEF Claim, BeginAuth, Alive
  <1>6. CASE ReadGate(j)
    BY <1>2, <1>3, <1>6 DEF ReadGate, Alive
  <1> QED BY <1>4, <1>5, <1>6 DEF JobStep

(* An admission moves its job to the queue or refuses it.                  *)
LEMMA AdmitStarts ==
  ASSUME IInv, NEW j \in Job, NEW d \in Domain \cup {None}, Admit(j, d)
  PROVE  \A k \in Job : job[k].pc # "reading" => job'[k].pc # "reading"
  <1>1. CASE Goto(j, "refused")
    BY <1>1, GotoStarts DEF IInv, Starts
  <1>2. CASE ~Goto(j, "refused")
    <2> DEFINE n == [job[j] EXCEPT !.pc = "admitted", !.from = d,
                                   !.mime = d # None /\ queue.held < MaxHeldMime]
    <2>1. job' = [job EXCEPT ![j] = n]
      BY <1>2 DEF Admit
    <2>2. job \in [Job -> JobState] /\ job[j] \in JobState
      BY DEF IInv, TypeOK
    <2>3. n.pc = "admitted"
      BY <2>2 DEF JobState
    <2> HIDE DEF n
    <2> QED BY <2>1, <2>2, <2>3
  <1> QED BY <1>1, <1>2

(* A finished authentication moves its job and the first waiter on.        *)
LEMMA AuthSettlesStarts ==
  ASSUME IInv, NEW j \in Job, NEW ok \in BOOLEAN, AuthSettles(j, ok)
  PROVE  \A k \in Job : job[k].pc # "reading" => job'[k].pc # "reading"
  <1> DEFINE next == IF queue.waiters = <<>> THEN {} ELSE {Head(queue.waiters)}
             p == IF ok THEN "domain" ELSE "revalidate"
             n == [job[j] EXCEPT !.passes = ok, !.pc = p]
             m(k) == [job[k] EXCEPT !.pc = "authing"]
  <1>1. job' = [k \in Job |-> CASE k = j /\ job[j].pc = "authing" -> n
                                [] k \in next -> m(k)
                                [] OTHER -> job[k]]
    BY DEF AuthSettles
  <1>2. job \in [Job -> JobState]
    BY DEF IInv, TypeOK
  <1>3. n.pc = p /\ p # "reading"
    BY <1>2 DEF JobState
  <1>4. \A k \in Job : m(k).pc = "authing"
    BY <1>2 DEF JobState
  <1> HIDE DEF next, n, m, p
  <1> SUFFICES ASSUME NEW k \in Job, job[k].pc # "reading" PROVE job'[k].pc # "reading"
    OBVIOUS
  <1>5. job'[k] \in {n, m(k), job[k]}
    <2>1. job'[k] = CASE k = j /\ job[j].pc = "authing" -> n
                      [] k \in next -> m(k)
                      [] OTHER -> job[k]
      BY <1>1
    <2>2. CASE k = j /\ job[j].pc = "authing" /\ k \in next
      BY <2>1, <2>2
    <2>3. CASE k = j /\ job[j].pc = "authing" /\ k \notin next
      BY <2>1, <2>3
    <2>4. CASE ~(k = j /\ job[j].pc = "authing") /\ k \in next
      BY <2>1, <2>4
    <2>5. CASE ~(k = j /\ job[j].pc = "authing") /\ k \notin next
      BY <2>1, <2>5
    <2> QED BY <2>2, <2>3, <2>4, <2>5
  <1> QED BY <1>3, <1>4, <1>5

(* Only a revalidation that found nothing changed passes the last check.   *)
LEMMA ReadsAreEligible ==
  ASSUME IInv, [Next]_vars, NEW k \in Job, job[k].pc # "reading", job'[k].pc = "reading"
  PROVE  StillEligible(k)
  <1>1. ASSUME NEW j \in Job, Revalidate(j) PROVE StillEligible(k)
    <2>1. CASE Goto(j, "settling")
      <3>1. Starts(j, "settling")
        BY <2>1, GotoStarts DEF IInv, Alive
      <3> QED BY <3>1 DEF Starts
    <2>2. CASE Goto(j, "reading") /\ StillEligible(j)
      <3>1. Starts(j, "reading")
        BY <2>2, GotoStarts DEF IInv, Alive
      <3> QED BY <2>2, <3>1 DEF Starts
    <2> QED BY <1>1, <2>1, <2>2 DEF Revalidate
  <1>2. CASE UNCHANGED job
    BY <1>2
  <1>3. ASSUME NEW j \in Job, JobStep(j) PROVE StillEligible(k)
    BY <1>1, <1>3, JobStarts
  <1>4. ASSUME NEW j \in Job, NEW ok \in BOOLEAN, AuthSettles(j, ok) PROVE StillEligible(k)
    BY <1>4, AuthSettlesStarts
  <1>5. ASSUME NEW j \in Job, NEW d \in Domain \cup {None}, Admit(j, d) PROVE StillEligible(k)
    BY <1>5, AdmitStarts
  <1>6. CASE UNCHANGED vars \/ Shutdown \/ \E j \in Job : TapAllow(j)
    BY <1>2, <1>6 DEF vars, Shutdown, TapAllow
  <1>7. ASSUME NEW d \in Domain, AllowCommand(d) \/ QuickAllow(d) \/ DeleteRule(d) \/ RuleReply(d)
        PROVE  StillEligible(k)
    BY <1>2, <1>7 DEF AllowCommand, QuickAllow, DeleteRule, RuleReply, jobs
  <1>8. CASE AcceptMail \/ DeliverySucceeds \/ MarkFirstDelivered \/ Reconcile \/ PurgeLogs
    BY <1>2, <1>8 DEF AcceptMail, DeliverySucceeds, MarkFirstDelivered, Reconcile, PurgeLogs, jobs
  <1>9. CASE ClearExpired \/ Reroute \/ (\E s \in Status : SetStatus(s)) \/ Matures
             \/ WindowPasses \/ TokenExpires
    BY <1>2, <1>9 DEF ClearExpired, Reroute, SetStatus, Matures, WindowPasses, TokenExpires, jobs
  <1> QED BY <1>3, <1>4, <1>5, <1>6, <1>7, <1>8, <1>9 DEF Next

(* Once a delivery succeeded the last check before a notice never passes,  *)
(* although the marker write may have failed and the attempts may have     *)
(* been purged since.                                                      *)
THEOREM WorkingAliasIsQuietHolds == Spec => WorkingAliasIsQuiet
  <1>1. ASSUME IInv, [Next]_vars
        PROVE  [\A j \in Job :
                   job[j].pc = "revalidate" /\ job'[j].pc = "reading" => ~worked]_vars
    <2> SUFFICES ASSUME NEW j \in Job, job[j].pc = "revalidate", job'[j].pc = "reading"
                 PROVE  ~worked
      OBVIOUS
    <2>1. StillEligible(j)
      BY <1>1, ReadsAreEligible
    <2> QED BY <1>1, <2>1 DEF StillEligible, IInv, Known
  <1> QED BY <1>1, Inductive, PTL DEF Spec, WorkingAliasIsQuiet

=============================================================================
