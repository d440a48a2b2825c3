---------------------------- MODULE BillingProofs ----------------------------
(***************************************************************************)
(* Proofs about Billing, for all users, customers, subscriptions,          *)
(* references and grants.  IInv has a part for the ledger and one for each *)
(* user: what the history variables mean for the row.                      *)
(***************************************************************************)
EXTENDS Billing, TLAPS, SequenceTheorems

Grant == [plan : PlanCode, status : SubscriptionStatus, paid : 0..MaxPaid, kept : BOOLEAN]
Operation ==
  [user : User, ref : Ref, grant : Payload, rank : Nat, admin : BOOLEAN, fresh : BOOLEAN]
Subscription ==
  [status : StripeStatus, user : User \cup {None}, cust : Customer \cup {None}, paid : 0..MaxPaid]

(* Only a business plan keeps the link to Stripe.                          *)
LedgerValid == \A r \in Ref : ledger[r] # None /\ ledger[r].kept => ledger[r].plan = "business"

(* Without a row there is nothing to remember.                             *)
NoRowNoHistory(u) == ~Exists(u) => invoiced[u] = 0 /\ decision[u] = None

Paid(u) == Exists(u) => row[u].paid >= invoiced[u]

(* The grant that was last applied is in the ledger, and while it is the   *)
(* newest one the row shows it; unless it kept the link, there is none.    *)
Applied(u) ==
  decision[u] # None =>
    /\ ledger[decision[u]] # None /\ ledger[decision[u]].user = u
    /\ decision[u] = Latest(u) =>
         /\ row[u].plan = ledger[decision[u]].plan
         /\ row[u].status = ledger[decision[u]].status
         /\ ~ledger[decision[u]].kept => row[u].cust = None /\ row[u].sub = None

UserInv(u) == NoRowNoHistory(u) /\ Paid(u) /\ Applied(u)

IInv == TypeOK /\ LedgerValid /\ \A u \in User : UserInv(u)

-----------------------------------------------------------------------------
(* Operators.                                                              *)

(* The larger of two numbers.                                              *)
LEMMA MaxOfTwo ==
  ASSUME NEW a \in Nat, NEW b \in Nat
  PROVE  /\ Max({a, b}) \in {a, b} /\ Max({a, b}) >= a /\ Max({a, b}) >= b
  <1>1. \E x \in {a, b} : \A y \in {a, b} : x >= y
    <2>1. CASE a >= b
      BY <2>1
    <2>2. CASE ~(a >= b)
      BY <2>2
    <2> QED BY <2>1, <2>2
  <1> QED BY <1>1 DEF Max

(* The newest grant of a user depends on the user's ledger rows only.      *)
LEMMA LatestStays ==
  ASSUME NEW u,
         \A r \in Ref : r \in EventsOf(u)' <=> r \in EventsOf(u),
         \A r \in EventsOf(u) : ledger'[r].rank = ledger[r].rank
  PROVE  Latest(u)' = Latest(u)
  <1>1. EventsOf(u)' = EventsOf(u)
    BY DEF EventsOf
  <1>2. {<<r, ledger[r].rank>> : r \in EventsOf(u)}' = {<<r, ledger[r].rank>> : r \in EventsOf(u)}
    BY <1>1
  <1> QED BY <1>1, <1>2 DEF Latest

(* A row with another plan.                                                *)
LEMMA PlanSet ==
  ASSUME NEW r \in Row, NEW x \in PlanCode
  PROVE  LET n == [r EXCEPT !.plan = x] IN
           /\ n \in Row /\ n.plan = x /\ n.status = r.status /\ n.paid = r.paid
           /\ n.cust = r.cust /\ n.sub = r.sub
  BY DEF Row

(* A row with another status.                                              *)
LEMMA StatusSet ==
  ASSUME NEW r \in Row, NEW x \in SubscriptionStatus
  PROVE  LET n == [r EXCEPT !.status = x] IN
           /\ n \in Row /\ n.plan = r.plan /\ n.status = x /\ n.paid = r.paid
           /\ n.cust = r.cust /\ n.sub = r.sub
  BY DEF Row

(* A row paid through another period.                                      *)
LEMMA PaidSet ==
  ASSUME NEW r \in Row, NEW x \in 0..MaxPaid
  PROVE  LET n == [r EXCEPT !.paid = x] IN
           /\ n \in Row /\ n.plan = r.plan /\ n.status = r.status /\ n.paid = x
           /\ n.cust = r.cust /\ n.sub = r.sub
  BY DEF Row

(* A row with another customer.                                            *)
LEMMA CustSet ==
  ASSUME NEW r \in Row, NEW x \in Customer \cup {None}
  PROVE  LET n == [r EXCEPT !.cust = x] IN
           /\ n \in Row /\ n.plan = r.plan /\ n.status = r.status /\ n.paid = r.paid
           /\ n.cust = x /\ n.sub = r.sub
  BY DEF Row

(* A row with another subscription.                                        *)
LEMMA SubSet ==
  ASSUME NEW r \in Row, NEW x \in Sub \cup {None}
  PROVE  LET n == [r EXCEPT !.sub = x] IN
           /\ n \in Row /\ n.plan = r.plan /\ n.status = r.status /\ n.paid = r.paid
           /\ n.cust = r.cust /\ n.sub = x
  BY DEF Row

(* What an event that is not refused makes of a row.                       *)
LEMMA EffectOnRow ==
  ASSUME NEW r \in Row, NEW e \in Event, Effect(r, e) # None,
         e.type # "checkout" => e.sub # None, r.sub # None => r.cust # None
  PROVE  /\ Effect(r, e) \in Row
         /\ Effect(r, e).sub # None => Effect(r, e).cust # None
         /\ Effect(r, e).paid >= r.paid
         /\ e.type = "invoice" => Effect(r, e).paid = Max({r.paid, e.paid})
         /\ r.sub # None /\ Effect(r, e).sub \notin {None, r.sub} => CanReplace(r.status)
  <1> USE BillingAssumption DEF BillingAssumption
  <1>1. CASE e.type = "checkout"
    <2>1. Effect(r, e) = [r EXCEPT !.cust = e.cust]
      BY <1>1 DEF Effect
    <2> QED BY <1>1, <2>1 DEF Row, Event
  <1>2. CASE e.type = "invoice"
    <2>1. Effect(r, e) = [r EXCEPT !.paid = Max({r.paid, e.paid})]
      BY <1>2 DEF Effect, PaidThroughIfLater, PaidThrough
    <2>2. r.paid \in Nat /\ e.paid \in Nat /\ r.paid \in 0..MaxPaid /\ e.paid \in 0..MaxPaid
      BY DEF Row, Event
    <2>3. Max({r.paid, e.paid}) \in 0..MaxPaid /\ Max({r.paid, e.paid}) >= r.paid
      BY <2>2, MaxOfTwo
    <2> QED BY <1>2, <2>1, <2>3 DEF Row
  <1>3. CASE e.type \notin {"checkout", "invoice"}
    <2>1. /\ Effect(r, e) = SubscriptionPatch(r, e)
          /\ ~OtherSubscription(r, e) /\ PlanOf(e.sub) # None
      BY <1>3 DEF Effect
    <2>2. e.sub \in Sub /\ e.cust \in Customer
      BY <1>3 DEF Event
    <2>3. PlanOf(e.sub) \in PlanCode /\ MapStatus(e.status) \in SubscriptionStatus
      BY <2>1, <2>2 DEF PlanOf, PlanCode, MapStatus, SubscriptionStatus
    <2>4. SubscriptionPatch(r, e) =
            [[[[r EXCEPT !.plan = PlanOf(e.sub)] EXCEPT !.status = MapStatus(e.status)]
                EXCEPT !.cust = e.cust] EXCEPT !.sub = e.sub]
      BY DEF SubscriptionPatch
    <2>5. r.paid \in 0..MaxPaid /\ r.paid \in Nat
      BY DEF Row
    <2> DEFINE a == [r EXCEPT !.plan = PlanOf(e.sub)]
               b == [a EXCEPT !.status = MapStatus(e.status)]
               c == [b EXCEPT !.cust = e.cust]
               n == [c EXCEPT !.sub = e.sub]
    <2>6. a \in Row /\ a.paid = r.paid
      BY <2>3, PlanSet
    <2>7. b \in Row /\ b.paid = r.paid
      <3> HIDE DEF a
      <3> QED BY <2>3, <2>6, StatusSet
    <2>8. c \in Row /\ c.paid = r.paid /\ c.cust = e.cust
      <3> HIDE DEF b
      <3> QED BY <2>2, <2>7, CustSet
    <2>9. n \in Row /\ n.paid = r.paid /\ n.cust = e.cust /\ n.sub = e.sub
      <3> HIDE DEF c
      <3> QED BY <2>2, <2>8, SubSet
    <2>10. Effect(r, e) = n
      BY <2>1, <2>4
    <2>11. r.sub # None /\ e.sub # r.sub => CanReplace(r.status)
      BY <2>1 DEF OtherSubscription
    <2> HIDE DEF n
    <2> QED BY <1>3, <2>2, <2>5, <2>9, <2>10, <2>11
  <1> QED BY <1>1, <1>2, <1>3

(* While the grant last applied is the newest one, Stripe's events are     *)
(* ignored.                                                                *)
LEMMA GrantIsShielded ==
  ASSUME IInv, NEW u \in User, NEW e, decision[u] # None, decision[u] = Latest(u)
  PROVE  ShouldIgnore(u, e)
  <1> DEFINE m == ledger[decision[u]]
  <1>1. /\ m # None /\ row[u].plan = m.plan
        /\ ~m.kept => row[u].cust = None /\ row[u].sub = None
    BY DEF IInv, UserInv, Applied
  <1>2. Latest(u) # None /\ ledger[Latest(u)] = m
    OBVIOUS
  <1>3. decision[u] \in Ref
    BY DEF IInv, TypeOK
  <1>4. m.kept => m.plan = "business"
    BY <1>1, <1>3 DEF IInv, LedgerValid
  <1>5. CASE m.kept
    BY <1>1, <1>2, <1>4, <1>5 DEF ShouldIgnore, LatestIs
  <1>6. CASE ~m.kept
    BY <1>1, <1>2, <1>6 DEF ShouldIgnore, LatestIs
  <1> QED BY <1>5, <1>6

-----------------------------------------------------------------------------
(* Frames.                                                                 *)

(* A step leaves a user's row, history and ledger rows alone.              *)
Untouched(u) ==
  /\ row'[u] = row[u] /\ decision'[u] = decision[u] /\ invoiced'[u] = invoiced[u]
  /\ \A r \in Ref : r \in EventsOf(u)' <=> r \in EventsOf(u)
  /\ \A r \in EventsOf(u) : ledger'[r] = ledger[r]

(* An untouched user keeps the invariant.                                  *)
LEMMA UntouchedKeeps ==
  ASSUME TypeOK, NEW u \in User, UserInv(u), Untouched(u)
  PROVE  UserInv(u)'
  <1>1. Latest(u)' = Latest(u)
    BY LatestStays DEF Untouched
  <1>2. NoRowNoHistory(u)' /\ Paid(u)'
    BY DEF UserInv, Untouched, NoRowNoHistory, Paid, Exists
  <1>3. decision[u] # None => decision[u] \in EventsOf(u)
    BY DEF UserInv, Applied, EventsOf, TypeOK
  <1>4. Applied(u)'
    <2> SUFFICES ASSUME decision'[u] # None PROVE Applied(u)'
      BY DEF Applied
    <2>1. ledger'[decision[u]] = ledger[decision[u]] /\ decision'[u] = decision[u]
      BY <1>3 DEF Untouched
    <2> QED BY <1>1, <2>1 DEF UserInv, Applied, Untouched
  <1> QED BY <1>2, <1>4 DEF UserInv

(* A step that leaves rows, ledger and history alone.                      *)
LEMMA BystandersKeep ==
  ASSUME IInv, TypeOK', UNCHANGED <<row, ledger, decision, invoiced>>
  PROVE  IInv'
  <1>1. LedgerValid'
    BY DEF IInv, LedgerValid
  <1>2. \A u \in User : Untouched(u)
    BY DEF Untouched, EventsOf
  <1> QED BY <1>1, <1>2, UntouchedKeeps DEF IInv

(* Initially every user is new.                                            *)
LEMMA InitIInv == Init => IInv
  <1> SUFFICES ASSUME Init PROVE IInv
    OBVIOUS
  <1> USE BillingAssumption DEF BillingAssumption, Init
  <1>1. NewUser \in Row
    BY DEF NewUser, Row, PlanCode, SubscriptionStatus
  <1>2. NoSub \in Subscription
    BY DEF NoSub, Subscription, StripeStatus
  <1>3. stripe \in [Sub -> Subscription] /\ row \in [User -> Row \cup {None}]
    BY <1>1, <1>2
  <1>4. events \in Seq(Event) /\ Len(events) = 0
    OBVIOUS
  <1>5. \A u \in User : row[u] = NewUser /\ NewUser.sub = None
    BY DEF NewUser
  <1>6. \A s \in Sub : stripe[s].status = "none"
    BY DEF NoSub
  <1>7. TypeOK
    BY <1>3, <1>4, <1>5, <1>6 DEF TypeOK, Subscription, Exists
  <1>8. LedgerValid
    BY DEF LedgerValid
  <1>9. ASSUME NEW u \in User PROVE UserInv(u)
    BY <1>1 DEF UserInv, NoRowNoHistory, Paid, Applied, Exists, NewUser
  <1> QED BY <1>7, <1>8, <1>9 DEF IInv

-----------------------------------------------------------------------------
(* Stale pages: what Write, End and DeleteUser do to operators' grants.    *)

(* A grant whose page became stale is still a grant.                       *)
LEMMA StalePage ==
  ASSUME NEW q \in Operation
  PROVE  [q EXCEPT !.fresh = FALSE] \in Operation
  <1>1. FALSE \in BOOLEAN
    BY Zenon
  <1> QED BY <1>1 DEF Operation

(* Write keeps the type of op.                                             *)
LEMMA WriteOp ==
  ASSUME TypeOK, NEW u,
         op' = [o \in Op |-> IF op[o] # None /\ op[o].user = u /\ op[o].admin
                             THEN [op[o] EXCEPT !.fresh = FALSE] ELSE op[o]]
  PROVE  op' \in [Op -> Operation \cup {None}]
  <1>1. op \in [Op -> Operation \cup {None}]
    BY DEF TypeOK, Operation
  <1>2. \A o \in Op : op[o] # None => [op[o] EXCEPT !.fresh = FALSE] \in Operation
    BY <1>1, StalePage
  <1> QED BY <1>1, <1>2

(* End keeps the type of op.                                               *)
LEMMA EndOp ==
  ASSUME TypeOK, NEW o \in Op, NEW wrote, End(o, wrote)
  PROVE  op' \in [Op -> Operation \cup {None}]
  <1>1. op \in [Op -> Operation \cup {None}]
    BY DEF TypeOK, Operation
  <1>2. \A q \in Op : op[q] # None => [op[q] EXCEPT !.fresh = FALSE] \in Operation
    BY <1>1, StalePage
  <1> QED BY <1>1, <1>2 DEF End

-----------------------------------------------------------------------------
(* Webhooks.                                                               *)

(* The row and the period an event leaves.                                 *)
LEMMA EventApplied ==
  ASSUME IInv, NEW e \in Event, e.type # "checkout" => e.sub # None,
         Exists(e.user), ~ShouldIgnore(e.user, e), Effect(row[e.user], e) # None,
         Write(e.user, Effect(row[e.user], e)),
         invoiced' = IF e.type = "invoice"
                     THEN [invoiced EXCEPT ![e.user] = Max({@, e.paid})] ELSE invoiced,
         UNCHANGED <<ledger, begun, checkout, deletion, stripeSide, decision>>,
         recorded' \subseteq 1..Len(events)
  PROVE  IInv'
  <1> USE BillingAssumption DEF BillingAssumption
  <1> DEFINE u == e.user
             n == Effect(row[u], e)
  <1>1. u \in User /\ e.paid \in 0..MaxPaid /\ e.paid \in Nat
    BY DEF Event
  <1>2. /\ row[u] \in Row /\ (row[u].sub # None => row[u].cust # None)
        /\ row \in [User -> Row \cup {None}] /\ invoiced \in [User -> 0..MaxPaid]
    BY <1>1 DEF IInv, TypeOK, Exists
  <1>3. /\ n \in Row /\ (n.sub # None => n.cust # None) /\ n.paid >= row[u].paid
        /\ e.type = "invoice" => n.paid = Max({row[u].paid, e.paid})
    BY <1>2, EffectOnRow
  <1>4. row' \in [User -> Row \cup {None}] /\ row'[u] = n /\ \A v \in User \ {u} : row'[v] = row[v]
    BY <1>1, <1>2, <1>3 DEF Write
  <1>5. row[u].paid \in Nat /\ n.paid \in Nat /\ invoiced[u] \in Nat /\ invoiced[u] \in 0..MaxPaid
        /\ row[u].paid >= invoiced[u]
    BY <1>1, <1>2, <1>3 DEF Row, IInv, UserInv, Paid, Exists
  <1>6. /\ invoiced' \in [User -> 0..MaxPaid] /\ n.paid >= invoiced'[u]
        /\ \A v \in User \ {u} : invoiced'[v] = invoiced[v]
    <2>1. CASE e.type = "invoice"
      <3>1. Max({invoiced[u], e.paid}) \in {invoiced[u], e.paid}
        BY <1>1, <1>5, MaxOfTwo
      <3>2. n.paid >= row[u].paid /\ n.paid >= e.paid
        BY <1>1, <1>3, <1>5, <2>1, MaxOfTwo
      <3>3. invoiced' = [invoiced EXCEPT ![u] = Max({invoiced[u], e.paid})]
        BY <2>1
      <3>4. n.paid >= Max({invoiced[u], e.paid}) /\ Max({invoiced[u], e.paid}) \in 0..MaxPaid
        <4> HIDE DEF n
        <4> QED BY <1>1, <1>5, <3>1, <3>2
      <3>5. invoiced'[u] = Max({invoiced[u], e.paid})
        BY <1>1, <1>2, <3>3
      <3> HIDE DEF n
      <3> QED BY <1>1, <1>2, <3>3, <3>4, <3>5
    <2>2. CASE e.type # "invoice"
      <3>1. invoiced' = invoiced
        BY <2>2
      <3>2. n.paid >= invoiced[u]
        <4> HIDE DEF n
        <4> QED BY <1>3, <1>5
      <3> HIDE DEF n
      <3> QED BY <1>2, <3>1, <3>2
    <2> QED BY <2>1, <2>2
  <1>7. op' \in [Op -> Operation \cup {None}]
    BY WriteOp DEF IInv, Write
  <1>8. \A v \in User : row'[v] # None /\ row'[v].sub # None => row'[v].cust # None
    BY <1>3, <1>4 DEF IInv, TypeOK, Exists
  <1>9. TypeOK'
    BY <1>4, <1>6, <1>7, <1>8 DEF IInv, TypeOK, Exists, Operation, stripeSide
  <1>10. LedgerValid'
    BY DEF IInv, LedgerValid
  <1>11. ASSUME NEW v \in User, v # u PROVE UserInv(v)'
    BY <1>4, <1>6, <1>11, UntouchedKeeps DEF IInv, Untouched, EventsOf
  <1>12. UserInv(u)'
    <2>1. Latest(u)' = Latest(u)
      BY LatestStays DEF EventsOf
    <2>2. decision[u] = None \/ decision[u] # Latest(u)
      BY <1>1, GrantIsShielded
    <2>3. NoRowNoHistory(u)' /\ Paid(u)'
      BY <1>3, <1>4, <1>6 DEF NoRowNoHistory, Paid, Exists
    <2>4. Applied(u)'
      BY <1>1, <2>1, <2>2 DEF Applied, IInv, UserInv
    <2> QED BY <2>3, <2>4 DEF UserInv
  <1> QED BY <1>9, <1>10, <1>11, <1>12 DEF IInv

(* Every webhook keeps the invariant.                                      *)
LEMMA WebhookStep ==
  ASSUME IInv, NEW i, Webhook(i)
  PROVE  IInv'
  <1> DEFINE e == events[i]
  <1>1. i \in 1..Len(events) /\ events \in Seq(Event) /\ recorded \subseteq 1..Len(events)
    BY DEF Webhook, NewEvent, IInv, TypeOK
  <1>2. e \in Event /\ (e.type # "checkout" => e.sub # None)
    <2>1. e \in Event
      BY <1>1
    <2> QED BY <1>1, <2>1 DEF IInv, TypeOK
  <1>3. recorded' \subseteq 1..Len(events)
    BY <1>1 DEF Webhook
  <1>4. CASE Exists(e.user) /\ ~ShouldIgnore(e.user, e) /\ Effect(row[e.user], e) # None
    <2> USE <1>4
    <2>1. /\ Write(e.user, Effect(row[e.user], e))
          /\ invoiced' = IF e.type = "invoice"
                         THEN [invoiced EXCEPT ![e.user] = Max({@, e.paid})] ELSE invoiced
          /\ UNCHANGED <<ledger, begun, checkout, deletion, stripeSide, decision>>
      BY DEF Webhook, SubjectOf
    <2> HIDE DEF e
    <2> QED BY <1>2, <1>3, <2>1, EventApplied
  <1>5. CASE ~(Exists(e.user) /\ ~ShouldIgnore(e.user, e) /\ Effect(row[e.user], e) # None)
    <2>1. UNCHANGED <<row, op, invoiced, ledger, begun, checkout, deletion, stripeSide, decision>>
      BY <1>5 DEF Webhook, SubjectOf
    <2>2. TypeOK'
      BY <1>3, <2>1 DEF IInv, TypeOK, Exists, stripeSide
    <2> QED BY <2>1, <2>2, BystandersKeep
  <1> QED BY <1>4, <1>5

-----------------------------------------------------------------------------
(* Checkout.                                                               *)

(* A session that names a user and a customer is a session.                *)
LEMMA SessionOpened ==
  ASSUME TypeOK, NEW u \in User, NEW c \in Customer, OpenSession(u, c)
  PROVE  /\ sessions' \subseteq [user : User, cust : Customer]
         /\ checkout' \in [User -> {"none", "tapped", "customer"}]
  BY DEF OpenSession, TypeOK

(* Tapping a plan and checking eligibility touch no row.                   *)
LEMMA CheckoutStep ==
  ASSUME IInv, NEW u \in User, TapUpgrade(u) \/ CheckEligible(u)
  PROVE  IInv'
  <1> USE BillingAssumption DEF BillingAssumption
  <1>1. CASE TapUpgrade(u)
    <2>1. TypeOK'
      BY <1>1 DEF TapUpgrade, IInv, TypeOK, Exists, stripeSide, history
    <2> QED BY <1>1, <2>1, BystandersKeep DEF TapUpgrade, history
  <1>2. CASE CheckEligible(u)
    <2>1. /\ sessions' \subseteq [user : User, cust : Customer]
          /\ checkout' \in [User -> {"none", "tapped", "customer"}]
      <3>1. CASE Eligible(u) /\ row[u].cust # None
        <4>1. row[u].cust \in Customer
          BY <3>1 DEF Eligible, Exists, IInv, TypeOK, Row
        <4>2. OpenSession(u, row[u].cust)
          BY <1>2, <3>1 DEF CheckEligible
        <4> QED BY <4>1, <4>2, SessionOpened DEF IInv
      <3>2. CASE ~(Eligible(u) /\ row[u].cust # None)
        BY <1>2, <3>2 DEF CheckEligible, IInv, TypeOK
      <3> QED BY <3>1, <3>2
    <2>2. UNCHANGED <<row, ledger, op, begun, deletion, stripe, events, recorded, history>>
      BY <1>2 DEF CheckEligible
    <2>3. TypeOK'
      BY <2>1, <2>2 DEF IInv, TypeOK, Exists, history
    <2> QED BY <2>2, <2>3, BystandersKeep DEF history
  <1> QED BY <1>1, <1>2

(* Storing the customer changes no plan and no paid period, and ends the   *)
(* operator's decision.                                                    *)
LEMMA StoreCustomerStep ==
  ASSUME IInv, NEW u \in User, NEW c \in Customer, StoreCustomer(u, c)
  PROVE  IInv'
  <1> USE BillingAssumption DEF BillingAssumption
  <1>1. UNCHANGED <<ledger, begun, deletion, stripe, events, recorded, invoiced>>
    BY DEF StoreCustomer
  <1>2. CASE ~Exists(u)
    <2>1. UNCHANGED <<row, op, sessions, decision>> /\ checkout' = [checkout EXCEPT ![u] = "none"]
      BY <1>2 DEF StoreCustomer
    <2>2. TypeOK'
      BY <1>1, <2>1 DEF IInv, TypeOK, Exists
    <2> QED BY <1>1, <2>1, <2>2, BystandersKeep
  <1>3. CASE Exists(u) /\ row[u].cust # None
    <2>1. UNCHANGED <<row, op, decision>> /\ OpenSession(u, row[u].cust)
      BY <1>3 DEF StoreCustomer
    <2>2. row[u].cust \in Customer
      BY <1>3 DEF Exists, IInv, TypeOK, Row
    <2>3. TypeOK'
      BY <1>1, <2>1, <2>2, SessionOpened DEF IInv, TypeOK, Exists
    <2> QED BY <1>1, <2>1, <2>3, BystandersKeep
  <1>4. CASE Exists(u) /\ row[u].cust = None
    <2> DEFINE n == [row[u] EXCEPT !.cust = c]
    <2>1. Write(u, n) /\ decision' = [decision EXCEPT ![u] = None] /\ OpenSession(u, c)
      BY <1>4 DEF StoreCustomer
    <2>2. row[u] \in Row
      BY <1>4 DEF Exists, IInv, TypeOK
    <2>3. n \in Row /\ n.cust # None /\ n.paid = row[u].paid
      BY <2>2, CustSet
    <2> HIDE DEF n
    <2>4. row' \in [User -> Row \cup {None}] /\ row'[u] = n
          /\ \A v \in User \ {u} : row'[v] = row[v]
      BY <2>1, <2>3 DEF Write, IInv, TypeOK
    <2>5. op' \in [Op -> Operation \cup {None}]
      BY <2>1, WriteOp DEF IInv, Write
    <2>6. decision' \in [User -> Ref \cup {None}] /\ decision'[u] = None
          /\ \A v \in User \ {u} : decision'[v] = decision[v]
      BY <2>1 DEF IInv, TypeOK
    <2>7. \A v \in User : row'[v] # None /\ row'[v].sub # None => row'[v].cust # None
      BY <2>3, <2>4 DEF IInv, TypeOK, Exists
    <2>8. /\ sessions' \subseteq [user : User, cust : Customer]
          /\ checkout' \in [User -> {"none", "tapped", "customer"}]
      BY <2>1, SessionOpened DEF IInv
    <2>9. TypeOK'
      BY <1>1, <2>4, <2>5, <2>6, <2>7, <2>8 DEF IInv, TypeOK, Exists, Operation
    <2>10. LedgerValid'
      BY <1>1 DEF IInv, LedgerValid
    <2>11. ASSUME NEW v \in User, v # u PROVE UserInv(v)'
      BY <1>1, <2>4, <2>6, <2>11, UntouchedKeeps DEF IInv, Untouched, EventsOf
    <2>12. UserInv(u)'
      BY <1>1, <1>4, <2>3, <2>4, <2>6 DEF IInv, UserInv, NoRowNoHistory, Paid, Applied, Exists
    <2> QED BY <2>9, <2>10, <2>11, <2>12 DEF IInv
  <1> QED BY <1>2, <1>3, <1>4

-----------------------------------------------------------------------------
(* Stripe.                                                                 *)

(* New events of a subscription are events.                                *)
LEMMA Emitted ==
  ASSUME IInv, NEW s \in Sub, NEW types \in Seq({"checkout", "created", "updated", "deleted", "invoice"}),
         NEW new \in [status : StripeStatus, user : User, cust : Customer, paid : 0..MaxPaid],
         Emit(s, types, new), sessions' \subseteq sessions
  PROVE  IInv'
  <1> USE BillingAssumption DEF BillingAssumption
  <1> DEFINE tail == [i \in 1..Len(types) |->
               [type |-> types[i], user |-> new.user, cust |-> new.cust,
                sub |-> IF types[i] = "checkout" THEN None ELSE s,
                status |-> new.status, paid |-> new.paid]]
  <1>1. \A i \in 1..Len(types) : tail[i] \in Event
        /\ (tail[i].type # "checkout" => tail[i].sub # None)
    <2> SUFFICES ASSUME NEW i \in 1..Len(types)
                 PROVE  tail[i] \in Event /\ (tail[i].type # "checkout" => tail[i].sub # None)
      OBVIOUS
    <2>1. types[i] \in {"checkout", "created", "updated", "deleted", "invoice"}
      OBVIOUS
    <2>2. (IF types[i] = "checkout" THEN None ELSE s) \in Sub \cup {None}
      OBVIOUS
    <2> QED BY <2>1, <2>2 DEF Event
  <1>2. tail \in Seq(Event) /\ Len(tail) = Len(types) /\ Len(types) \in Nat
    BY <1>1
  <1>3. events \in Seq(Event) /\ events' = events \o tail
    BY DEF IInv, TypeOK, Emit
  <1> HIDE DEF tail
  <1>4. /\ events' \in Seq(Event) /\ Len(events') = Len(events) + Len(types)
        /\ \A i \in 1..Len(events') :
             events'[i] = IF i <= Len(events) THEN events[i] ELSE tail[i - Len(events)]
    <2>1. events' \in Seq(Event) /\ Len(events') = Len(events) + Len(tail)
      BY <1>2, <1>3, ConcatProperties
    <2>2. \A i \in 1..Len(events) + Len(tail) :
            (events \o tail)[i] = IF i <= Len(events) THEN events[i] ELSE tail[i - Len(events)]
      BY <1>2, <1>3, ConcatProperties
    <2> QED BY <1>2, <1>3, <2>1, <2>2
  <1>5. \A i \in 1..Len(events') : events'[i].type # "checkout" => events'[i].sub # None
    <2> SUFFICES ASSUME NEW i \in 1..Len(events')
                 PROVE  events'[i].type # "checkout" => events'[i].sub # None
      OBVIOUS
    <2>1. CASE i <= Len(events)
      BY <1>3, <1>4, <2>1 DEF IInv, TypeOK
    <2>2. CASE ~(i <= Len(events))
      <3>1. i - Len(events) \in 1..Len(types) /\ events'[i] = tail[i - Len(events)]
        BY <1>2, <1>3, <1>4, <2>2
      <3> QED BY <1>1, <3>1
    <2> QED BY <2>1, <2>2
  <1>6. recorded' \subseteq 1..Len(events')
    BY <1>2, <1>3, <1>4 DEF Emit, IInv, TypeOK
  <1>7. new \in Subscription /\ new.user \in User /\ new.cust \in Customer
    BY DEF Subscription
  <1>8. /\ stripe' \in [Sub -> Subscription]
        /\ \A x \in Sub : stripe'[x].status # "none" => stripe'[x].user \in User
           /\ stripe'[x].cust \in Customer
    BY <1>7 DEF Emit, IInv, TypeOK, Subscription
  <1>9. UNCHANGED <<row, ledger, op, begun, checkout, deletion, decision, invoiced>>
    BY DEF Emit, history
  <1>10. TypeOK'
    BY <1>4, <1>5, <1>6, <1>8, <1>9 DEF IInv, TypeOK, Exists, Subscription
  <1> QED BY <1>9, <1>10, BystandersKeep

(* A payment, a renewal, a failed payment and a cancellation.              *)
LEMMA StripeSteps ==
  ASSUME IInv, NEW s \in Sub, StripeStep(s)
  PROVE  IInv'
  <1> USE BillingAssumption DEF BillingAssumption
  <1> DEFINE Type == {"checkout", "created", "updated", "deleted", "invoice"}
             Live == [status : StripeStatus, user : User, cust : Customer, paid : 0..MaxPaid]
  <1>1. CASE Pay(s)
    <2>1. PICK x \in sessions :
            /\ sessions' = sessions \ {x}
            /\ \E types \in {<<"created">>, <<"checkout", "created">>, <<"created", "invoice">>} :
                 Emit(s, types, [status |-> "active", user |-> x.user, cust |-> x.cust, paid |-> 1])
      BY <1>1 DEF Pay
    <2>2. [status |-> "active", user |-> x.user, cust |-> x.cust, paid |-> 1] \in Live
      BY DEF IInv, TypeOK, StripeStatus
    <2>3. <<"created">> \in Seq(Type) /\ <<"checkout", "created">> \in Seq(Type)
          /\ <<"created", "invoice">> \in Seq(Type)
      OBVIOUS
    <2> QED BY <2>1, <2>2, <2>3, Emitted
  <1>2. ASSUME stripe[s].status # "none"
        PROVE  stripe[s] \in Live
    BY <1>2 DEF IInv, TypeOK
  <1>3. <<"updated">> \in Seq(Type) /\ <<"invoice">> \in Seq(Type) /\ <<"deleted">> \in Seq(Type)
    OBVIOUS
  <1>4. CASE Renew(s)
    <2>1. stripe[s] \in Live /\ stripe[s].paid < MaxPaid
      BY <1>2, <1>4 DEF Renew
    <2>2. [stripe[s] EXCEPT !.status = "active", !.paid = @ + 1] \in Live
      <3>1. [stripe[s] EXCEPT !.status = "active"] \in Live
            /\ [stripe[s] EXCEPT !.status = "active"].paid = stripe[s].paid
        BY <2>1 DEF StripeStatus
      <3>2. stripe[s].paid + 1 \in 0..MaxPaid
        BY <2>1
      <3> DEFINE y == [stripe[s] EXCEPT !.status = "active"]
      <3>3. [stripe[s] EXCEPT !.status = "active", !.paid = @ + 1] = [y EXCEPT !.paid = y.paid + 1]
        OBVIOUS
      <3>4. y.paid + 1 \in 0..MaxPaid /\ y \in Live
        BY <3>1, <3>2
      <3> HIDE DEF y
      <3>5. [y EXCEPT !.paid = y.paid + 1] \in Live
        BY <3>4
      <3> QED BY <3>3, <3>5
    <2>3. \E type \in {"updated", "invoice"} :
            Emit(s, <<type>>, [stripe[s] EXCEPT !.status = "active", !.paid = @ + 1])
      BY <1>4 DEF Renew
    <2>4. sessions' \subseteq sessions
      BY <1>4 DEF Renew
    <2> QED BY <1>3, <2>2, <2>3, <2>4, Emitted
  <1>5. CASE PaymentFails(s)
    <2>1. [stripe[s] EXCEPT !.status = "past_due"] \in Live
      BY <1>2, <1>5 DEF PaymentFails, StripeStatus
    <2> QED BY <1>3, <1>5, <2>1, Emitted DEF PaymentFails
  <1>6. CASE Cancel(s)
    <2>1. [stripe[s] EXCEPT !.status = "canceled"] \in Live
      BY <1>2, <1>6 DEF Cancel, StripeStatus
    <2> QED BY <1>3, <1>6, <2>1, Emitted DEF Cancel
  <1> QED BY <1>1, <1>4, <1>5, <1>6 DEF StripeStep

-----------------------------------------------------------------------------
(* Manual grants.                                                          *)

(* What a grant makes of a row.                                            *)
LEMMA GrantOnRow ==
  ASSUME NEW r \in Row, NEW g \in Grant, r.sub # None => r.cust # None
  PROVE  LET n == BillingPatch(r, g) IN
           /\ n \in Row /\ n.plan = g.plan /\ n.status = g.status
           /\ n.sub # None => n.cust # None
           /\ ~g.kept => n.cust = None /\ n.sub = None
           /\ n.sub \in {None, r.sub}
  <1> DEFINE a == [r EXCEPT !.plan = g.plan]
             b == [a EXCEPT !.status = g.status]
             c == [b EXCEPT !.paid = g.paid]
             d == [c EXCEPT !.cust = IF g.kept THEN c.cust ELSE None]
             n == [d EXCEPT !.sub = IF g.kept THEN d.sub ELSE None]
  <1>1. BillingPatch(r, g) = n
    BY DEF BillingPatch
  <1>2. g.plan \in PlanCode /\ g.status \in SubscriptionStatus /\ g.paid \in 0..MaxPaid
    BY DEF Grant
  <1>3. a \in Row /\ a.plan = g.plan /\ a.cust = r.cust /\ a.sub = r.sub
    BY <1>2, PlanSet
  <1>4. b \in Row /\ b.plan = g.plan /\ b.status = g.status /\ b.cust = r.cust /\ b.sub = r.sub
    <2> HIDE DEF a
    <2> QED BY <1>2, <1>3, StatusSet
  <1>5. c \in Row /\ c.plan = g.plan /\ c.status = g.status /\ c.cust = r.cust /\ c.sub = r.sub
    <2> HIDE DEF b
    <2> QED BY <1>2, <1>4, PaidSet
  <1>6. /\ d \in Row /\ d.plan = g.plan /\ d.status = g.status /\ d.sub = r.sub
        /\ d.cust = IF g.kept THEN r.cust ELSE None
    <2> HIDE DEF c
    <2>1. (IF g.kept THEN c.cust ELSE None) \in Customer \cup {None}
      BY <1>5 DEF Row
    <2> QED BY <1>5, <2>1, CustSet
  <1>7. /\ n \in Row /\ n.plan = g.plan /\ n.status = g.status
        /\ n.sub = (IF g.kept THEN r.sub ELSE None) /\ n.cust = (IF g.kept THEN r.cust ELSE None)
    <2> HIDE DEF d
    <2>1. (IF g.kept THEN d.sub ELSE None) \in Sub \cup {None}
      BY <1>6 DEF Row
    <2> QED BY <1>6, <2>1, SubSet
  <1> HIDE DEF n
  <1> QED BY <1>1, <1>7

(* A grant under way, and the row it will change.                          *)
LEMMA GrantUnderWay ==
  ASSUME IInv, NEW o \in Op, op[o] # None
  PROVE  /\ op[o].user \in User /\ op[o].ref \in Ref /\ op[o].grant \in Payload
         /\ op[o].grant \in Grant /\ op[o].rank \in Nat
         /\ RowOf(op[o].user) \in Row
         /\ RowOf(op[o].user).sub # None => RowOf(op[o].user).cust # None
  <1> USE BillingAssumption DEF BillingAssumption
  <1>1. op[o] \in Operation
    BY DEF IInv, TypeOK, Operation
  <1>2. op[o].user \in User /\ op[o].ref \in Ref /\ op[o].grant \in Payload /\ op[o].rank \in Nat
    BY <1>1 DEF Operation
  <1>3. op[o].grant \in Grant
    BY <1>2 DEF Grant
  <1>4. NewUser \in Row /\ NewUser.sub = None
    BY DEF NewUser, Row, PlanCode, SubscriptionStatus
  <1> QED BY <1>2, <1>3, <1>4 DEF RowOf, Exists, IInv, TypeOK

(* Applying a grant that the ledger holds.                                 *)
LEMMA Granted ==
  ASSUME IInv, NEW o \in Op, op[o] # None, Apply(o),
         ledger' \in [Ref -> LedgerRow \cup {None}], LedgerValid',
         ledger'[op[o].ref] # None,
         \A v \in User \ {op[o].user} : \A r \in Ref :
            ledger'[r] # ledger[r] => r \notin EventsOf(v) /\ r \notin EventsOf(v)',
         ledger'[op[o].ref].user = op[o].user, PayloadOf(ledger'[op[o].ref]) = op[o].grant,
         UNCHANGED <<begun, checkout, deletion, stripeSide, recorded>>
  PROVE  IInv'
  <1> USE BillingAssumption DEF BillingAssumption
  <1> DEFINE u == op[o].user
             g == op[o].grant
             m == ledger'[op[o].ref]
             n == BillingPatch(RowOf(u), g)
  <1>1. u \in User /\ op[o].ref \in Ref /\ g \in Grant
    BY GrantUnderWay
  <1>2. /\ n \in Row /\ n.plan = g.plan /\ n.status = g.status
        /\ n.sub # None => n.cust # None
        /\ ~g.kept => n.cust = None /\ n.sub = None
    BY <1>1, GrantUnderWay, GrantOnRow
  <1>3. /\ row' = [row EXCEPT ![u] = n] /\ decision' = [decision EXCEPT ![u] = op[o].ref]
        /\ invoiced' = [invoiced EXCEPT ![u] = 0] /\ End(o, TRUE)
    BY DEF Apply
  <1> HIDE DEF n
  <1>4. row' \in [User -> Row \cup {None}] /\ row'[u] = n /\ \A v \in User \ {u} : row'[v] = row[v]
    BY <1>1, <1>2, <1>3 DEF IInv, TypeOK
  <1>5. /\ decision' \in [User -> Ref \cup {None}] /\ decision'[u] = op[o].ref
        /\ \A v \in User \ {u} : decision'[v] = decision[v]
    BY <1>1, <1>3 DEF IInv, TypeOK
  <1>6. /\ invoiced' \in [User -> 0..MaxPaid] /\ invoiced'[u] = 0
        /\ \A v \in User \ {u} : invoiced'[v] = invoiced[v]
    BY <1>1, <1>3 DEF IInv, TypeOK
  <1>7. op' \in [Op -> Operation \cup {None}]
    BY <1>3, EndOp DEF IInv
  <1>8. \A v \in User : row'[v] # None /\ row'[v].sub # None => row'[v].cust # None
    BY <1>2, <1>4 DEF IInv, TypeOK, Exists
  <1>9. TypeOK'
    BY <1>4, <1>5, <1>6, <1>7, <1>8 DEF IInv, TypeOK, Exists, Operation, stripeSide
  <1>10. ASSUME NEW v \in User, v # u PROVE UserInv(v)'
    <2>1. \A r \in Ref : ledger'[r] # ledger[r] => r \notin EventsOf(v) /\ r \notin EventsOf(v)'
      BY <1>10
    <2>2. \A r \in Ref : ledger'[r] = ledger[r] => (r \in EventsOf(v)' <=> r \in EventsOf(v))
      BY DEF EventsOf
    <2>3. \A r \in EventsOf(v) : r \in Ref
      BY DEF EventsOf
    <2>4. Untouched(v)
      BY <1>4, <1>5, <1>6, <1>10, <2>1, <2>2, <2>3 DEF Untouched
    <2> QED BY <2>4, UntouchedKeeps DEF IInv
  <1>11. ASSUME NEW v \in User, v = u PROVE UserInv(v)'
    <2>1. m.user = u /\ m.plan = g.plan /\ m.status = g.status /\ m.kept = g.kept /\ m # None
      BY DEF PayloadOf
    <2>2. n.paid \in Nat /\ n # None
      BY <1>2 DEF Row
    <2>3. NoRowNoHistory(v)' /\ Paid(v)'
      BY <1>11, <1>4, <1>6, <2>2 DEF NoRowNoHistory, Paid, Exists
    <2>4. Applied(v)'
      BY <1>11, <1>2, <1>4, <1>5, <2>1 DEF Applied
    <2> QED BY <2>3, <2>4 DEF UserInv
  <1> QED BY <1>9, <1>10, <1>11 DEF IInv

(* A new reference: its ledger row says what was granted.                  *)
LEMMA NewGrantStep ==
  ASSUME IInv, NEW o \in Op, NewGrant(o)
  PROVE  IInv'
  <1> USE BillingAssumption DEF BillingAssumption
  <1> DEFINE u == op[o].user
             g == op[o].grant
             ref == op[o].ref
             m == [user |-> u, plan |-> g.plan, status |-> g.status,
                   paid |-> g.paid, kept |-> g.kept, rank |-> op[o].rank]
  <1>1. op[o] # None /\ ledger[ref] = None /\ ledger' = [ledger EXCEPT ![ref] = m] /\ Apply(o)
        /\ UNCHANGED <<begun, checkout, deletion, stripeSide, recorded>>
    BY DEF NewGrant
  <1>2. u \in User /\ ref \in Ref /\ g \in Grant /\ g \in Payload /\ op[o].rank \in Nat
    BY <1>1, GrantUnderWay
  <1>3. m \in LedgerRow /\ m.user = u /\ m.plan = g.plan /\ m.kept = g.kept /\ PayloadOf(m) = g
    <2>1. g.kept \in BOOLEAN
      BY <1>2 DEF Grant
    <2>2. m \in LedgerRow
      BY <1>2, <2>1 DEF LedgerRow, Grant
    <2>3. PayloadOf(m) = [plan |-> g.plan, status |-> g.status, paid |-> g.paid, kept |-> g.kept]
      BY DEF PayloadOf
    <2>4. g = [plan |-> g.plan, status |-> g.status, paid |-> g.paid, kept |-> g.kept]
      BY <1>2 DEF Grant
    <2> QED BY <2>2, <2>3, <2>4
  <1> HIDE DEF m
  <1>4. ledger' \in [Ref -> LedgerRow \cup {None}] /\ ledger'[ref] = m
        /\ \A r \in Ref \ {ref} : ledger'[r] = ledger[r]
    BY <1>1, <1>2, <1>3 DEF IInv, TypeOK
  <1>5. LedgerValid'
    <2>1. g.kept => g.plan = "business"
      BY <1>2 DEF ValidGrant
    <2> QED BY <1>3, <1>4, <2>1 DEF LedgerValid, IInv
  <1>6. ASSUME NEW v \in User \ {u}, NEW r \in Ref, ledger'[r] # ledger[r]
        PROVE  r \notin EventsOf(v) /\ r \notin EventsOf(v)'
    <2>1. r = ref
      BY <1>4, <1>6
    <2> QED BY <1>1, <1>3, <1>4, <2>1 DEF EventsOf
  <1>7. m # None
    BY <1>3
  <1> QED BY <1>1, <1>3, <1>4, <1>5, <1>6, <1>7, Granted

(* A replay: the ledger row was written before.                            *)
LEMMA ReplayGrantStep ==
  ASSUME IInv, NEW o \in Op, ReplayGrant(o)
  PROVE  IInv'
  <1>1. /\ op[o] # None /\ ledger[op[o].ref] # None /\ Apply(o) /\ Known(o)
        /\ UNCHANGED <<ledger, begun, checkout, deletion, stripeSide, recorded>>
    BY DEF ReplayGrant
  <1>2. ledger' \in [Ref -> LedgerRow \cup {None}] /\ LedgerValid'
    BY <1>1 DEF IInv, TypeOK, LedgerValid
  <1>3. ledger[op[o].ref].user = op[o].user /\ PayloadOf(ledger[op[o].ref]) = op[o].grant
    BY <1>1 DEF Known
  <1>4. ledger' = ledger
    BY <1>1
  <1> QED BY <1>1, <1>2, <1>3, <1>4, Granted

(* Submitting a grant, and one that ends without a write.                  *)
LEMMA IdleGrantStep ==
  ASSUME IInv, NEW o \in Op,
         \/ \E u \in User, r \in Ref, g \in Payload, admin \in BOOLEAN : BeginGrant(o, u, r, g, admin)
         \/ StaleGrant(o)
  PROVE  IInv'
  <1>1. ASSUME NEW u \in User, NEW r \in Ref, NEW g \in Payload, NEW admin \in BOOLEAN,
               BeginGrant(o, u, r, g, admin)
        PROVE  IInv'
    <2>1. begun' \in Nat
      BY <1>1 DEF BeginGrant, IInv, TypeOK
    <2>2. TRUE \in BOOLEAN
      BY Zenon
    <2>3. [user |-> u, ref |-> r, grant |-> g, rank |-> begun', admin |-> admin, fresh |-> TRUE] \in Operation
      BY <2>1, <2>2 DEF Operation
    <2>4. op' \in [Op -> Operation \cup {None}]
      BY <1>1, <2>3 DEF BeginGrant, IInv, TypeOK, Operation
    <2>5. UNCHANGED <<row, ledger, checkout, deletion, stripeSide, recorded, history>>
      BY <1>1 DEF BeginGrant
    <2>6. TypeOK'
      BY <2>1, <2>4, <2>5 DEF IInv, TypeOK, Exists, Operation, stripeSide, history
    <2> QED BY <2>5, <2>6, BystandersKeep DEF history
  <1>2. CASE StaleGrant(o)
    <2>1. op' \in [Op -> Operation \cup {None}]
      BY <1>2, EndOp DEF StaleGrant, IInv
    <2>2. UNCHANGED <<row, ledger, begun, checkout, deletion, stripeSide, recorded, history>>
      BY <1>2 DEF StaleGrant
    <2>3. TypeOK'
      BY <2>1, <2>2 DEF IInv, TypeOK, Exists, Operation, stripeSide, history
    <2> QED BY <2>2, <2>3, BystandersKeep DEF history
  <1> QED BY <1>1, <1>2

(* A refused grant may create a missing user, without any history.         *)
LEMMA RefuseGrantStep ==
  ASSUME IInv, NEW o \in Op, RefuseGrant(o)
  PROVE  IInv'
  <1> USE BillingAssumption DEF BillingAssumption
  <1> DEFINE n == RowOf(op[o].user)
  <1>1. /\ op[o] # None /\ row' = [row EXCEPT ![op[o].user] = n] /\ End(o, FALSE)
        /\ UNCHANGED <<ledger, begun, checkout, deletion, stripeSide, recorded, history>>
    BY DEF RefuseGrant
  <1>2. op[o].user \in User /\ n \in Row /\ (n.sub # None => n.cust # None)
    BY <1>1, GrantUnderWay
  <1>3. op' \in [Op -> Operation \cup {None}]
    BY <1>1, EndOp DEF IInv
  <1> HIDE DEF n
  <1>4. /\ row' \in [User -> Row \cup {None}] /\ row'[op[o].user] = n
        /\ \A v \in User \ {op[o].user} : row'[v] = row[v]
    BY <1>1, <1>2 DEF IInv, TypeOK
  <1>5. \A v \in User : row'[v] # None /\ row'[v].sub # None => row'[v].cust # None
    BY <1>2, <1>4 DEF IInv, TypeOK, Exists
  <1>6. TypeOK'
    BY <1>1, <1>3, <1>4, <1>5 DEF IInv, TypeOK, Exists, Operation, stripeSide, history
  <1>7. LedgerValid'
    BY <1>1 DEF IInv, LedgerValid
  <1>8. ASSUME NEW v \in User, row'[v] = row[v] PROVE UserInv(v)'
    BY <1>1, <1>8, UntouchedKeeps DEF IInv, Untouched, EventsOf, history
  <1>9. ASSUME NEW v \in User, row'[v] # row[v] PROVE UserInv(v)'
    <2>1. v = op[o].user /\ ~Exists(v) /\ row'[v] = NewUser
      BY <1>4, <1>9 DEF n, RowOf
    <2>2. NewUser # None /\ NewUser.paid = 0
      BY <1>2, <2>1 DEF n, RowOf, NewUser
    <2>3. invoiced[v] = 0 /\ decision[v] = None /\ UNCHANGED <<invoiced, decision>>
      BY <1>1, <2>1 DEF IInv, UserInv, NoRowNoHistory, history
    <2> QED BY <2>1, <2>2, <2>3 DEF UserInv, NoRowNoHistory, Paid, Applied, Exists
  <1> QED BY <1>6, <1>7, <1>8, <1>9 DEF IInv

-----------------------------------------------------------------------------
(* Users come and go.                                                      *)

(* Confirming a deletion touches no row.                                   *)
LEMMA ConfirmDeleteStep ==
  ASSUME IInv, NEW u \in User, ConfirmDelete(u)
  PROVE  IInv'
  <1>1. TypeOK'
    BY DEF ConfirmDelete, IInv, TypeOK, Exists, stripeSide, history
  <1> QED BY <1>1, BystandersKeep DEF ConfirmDelete, history

(* A deleted user leaves no grant and no history.                          *)
LEMMA DeleteUserStep ==
  ASSUME IInv, NEW u \in User, DeleteUser(u)
  PROVE  IInv'
  <1> USE BillingAssumption DEF BillingAssumption
  <1>1. /\ row' \in [User -> Row \cup {None}] /\ row'[u] = None
        /\ \A v \in User \ {u} : row'[v] = row[v]
    BY DEF DeleteUser, IInv, TypeOK
  <1>2. /\ decision' \in [User -> Ref \cup {None}] /\ decision'[u] = None
        /\ invoiced' \in [User -> 0..MaxPaid] /\ invoiced'[u] = 0
        /\ \A v \in User \ {u} : decision'[v] = decision[v] /\ invoiced'[v] = invoiced[v]
    BY DEF DeleteUser, IInv, TypeOK
  <1>3. /\ ledger' \in [Ref -> LedgerRow \cup {None}]
        /\ \A r \in Ref : ledger'[r] = IF r \in EventsOf(u) THEN None ELSE ledger[r]
    BY DEF DeleteUser, IInv, TypeOK
  <1>4. op' \in [Op -> Operation \cup {None}]
    BY WriteOp DEF IInv, DeleteUser
  <1>5. \A v \in User : row'[v] # None /\ row'[v].sub # None => row'[v].cust # None
    BY <1>1 DEF IInv, TypeOK, Exists
  <1>6. UNCHANGED <<begun, checkout, stripeSide, recorded>> /\ deletion' \subseteq deletion
    BY DEF DeleteUser
  <1>7. TypeOK'
    BY <1>1, <1>2, <1>3, <1>4, <1>5, <1>6 DEF IInv, TypeOK, Exists, Operation, stripeSide
  <1>8. LedgerValid'
    BY <1>3 DEF IInv, LedgerValid
  <1>9. ASSUME NEW v \in User, v # u PROVE UserInv(v)'
    <2>1. \A r \in EventsOf(v) : ledger'[r] = ledger[r]
      BY <1>3, <1>9 DEF EventsOf
    <2>2. \A r \in Ref : r \in EventsOf(v)' <=> r \in EventsOf(v)
      BY <1>3, <1>9 DEF EventsOf
    <2>3. Untouched(v)
      BY <1>1, <1>2, <1>9, <2>1, <2>2 DEF Untouched
    <2> QED BY <2>3, UntouchedKeeps DEF IInv
  <1>10. UserInv(u)'
    BY <1>1, <1>2 DEF UserInv, NoRowNoHistory, Paid, Applied, Exists
  <1> QED BY <1>7, <1>8, <1>9, <1>10 DEF IInv

(* A user who signs up again starts without history.                       *)
LEMMA SignUpStep ==
  ASSUME IInv, NEW u \in User, SignUp(u)
  PROVE  IInv'
  <1> USE BillingAssumption DEF BillingAssumption
  <1>1. NewUser \in Row /\ NewUser.sub = None /\ NewUser.paid = 0
    BY DEF NewUser, Row, PlanCode, SubscriptionStatus
  <1>2. /\ row' \in [User -> Row \cup {None}] /\ row'[u] = NewUser
        /\ \A v \in User \ {u} : row'[v] = row[v]
    BY <1>1 DEF SignUp, IInv, TypeOK
  <1>3. UNCHANGED <<ledger, op, begun, checkout, deletion, stripeSide, recorded, history>>
    BY DEF SignUp
  <1>4. \A v \in User : row'[v] # None /\ row'[v].sub # None => row'[v].cust # None
    BY <1>1, <1>2 DEF IInv, TypeOK, Exists
  <1>5. TypeOK'
    BY <1>2, <1>3, <1>4 DEF IInv, TypeOK, Exists, stripeSide, history
  <1>6. LedgerValid'
    BY <1>3 DEF IInv, LedgerValid
  <1>7. ASSUME NEW v \in User, v # u PROVE UserInv(v)'
    BY <1>2, <1>3, <1>7, UntouchedKeeps DEF IInv, Untouched, EventsOf, history
  <1>8. UserInv(u)'
    <2>1. invoiced'[u] = 0 /\ decision'[u] = None
      BY <1>3 DEF SignUp, IInv, UserInv, NoRowNoHistory, history
    <2> QED BY <1>1, <1>2, <2>1 DEF UserInv, NoRowNoHistory, Paid, Applied, Exists
  <1> QED BY <1>5, <1>6, <1>7, <1>8 DEF IInv

-----------------------------------------------------------------------------
(* Theorems.                                                               *)

(* Every step keeps the invariant.                                         *)
LEMMA NextStep ==
  ASSUME IInv, [Next]_vars
  PROVE  IInv'
  <1>1. CASE UNCHANGED vars
    <2>1. UNCHANGED <<row, ledger, op, begun, checkout, deletion, sessions, stripe, events,
                      recorded, decision, invoiced>>
      BY <1>1 DEF vars, stripeSide, history
    <2>2. TypeOK'
      BY <2>1 DEF IInv, TypeOK, Exists
    <2> QED BY <2>1, <2>2, BystandersKeep
  <1>2. ASSUME NEW i \in 1..MaxEvents, Webhook(i) PROVE IInv'
    BY <1>2, WebhookStep
  <1>3. ASSUME NEW o \in Op, GrantStep(o) PROVE IInv'
    BY <1>3, NewGrantStep, ReplayGrantStep, IdleGrantStep, RefuseGrantStep DEF GrantStep
  <1>4. ASSUME NEW u \in User, UserStep(u) PROVE IInv'
    BY <1>4, CheckoutStep, StoreCustomerStep, ConfirmDeleteStep, DeleteUserStep, SignUpStep
      DEF UserStep
  <1>5. ASSUME NEW s \in Sub, StripeStep(s) PROVE IInv'
    BY <1>5, StripeSteps
  <1> QED BY <1>1, <1>2, <1>3, <1>4, <1>5 DEF Next

(* The invariant holds in every reachable state.                           *)
THEOREM Inductive == Spec => []IInv
  BY InitIInv, NextStep, PTL DEF Spec

(* Every variable keeps its type, and a row with a subscription names the  *)
(* customer it belongs to.                                                 *)
THEOREM TypeCorrect == Spec => []TypeOK
  <1>1. IInv => TypeOK
    BY DEF IInv
  <1> QED BY <1>1, Inductive, PTL

(* The plan and status an operator granted stand against every late,       *)
(* duplicated or reordered Stripe event.                                   *)
THEOREM OperatorDecisionStandsHolds == Spec => []OperatorDecisionStands
  <1>1. IInv => OperatorDecisionStands
    BY DEF IInv, UserInv, Applied, OperatorDecisionStands
  <1> QED BY <1>1, Inductive, PTL

(* Invoices accepted in any order never shorten the paid period.           *)
THEOREM PaidThroughKeptHolds == Spec => []PaidThroughKept
  <1>1. IInv => PaidThroughKept
    BY DEF IInv, UserInv, Paid, PaidThroughKept
  <1> QED BY <1>1, Inductive, PTL

(* Only one row changes, and its subscription is replaced only after it    *)
(* ended.                                                                  *)
LEMMA LinkKept ==
  ASSUME IInv, NEW u \in User, \A v \in User \ {u} : row'[v] = row[v],
         row[u] # None /\ row'[u] # None /\ row[u].sub # None
           /\ row'[u].sub \notin {None, row[u].sub} => CanReplace(row[u].status)
  PROVE  LiveLinkKept
  BY DEF LiveLinkKept

(* An event replaces the subscription of a row only by a later one.        *)
LEMMA WebhookLink ==
  ASSUME IInv, NEW i, Webhook(i)
  PROVE  LiveLinkKept
  <1> DEFINE e == events[i]
             u == e.user
  <1>1. e \in Event /\ (e.type # "checkout" => e.sub # None)
    <2>1. i \in 1..Len(events) /\ events \in Seq(Event)
      BY DEF Webhook, NewEvent, IInv, TypeOK
    <2>2. e \in Event
      BY <2>1
    <2> QED BY <2>1, <2>2 DEF IInv, TypeOK
  <1>2. u \in User /\ row \in [User -> Row \cup {None}]
    BY <1>1 DEF Event, IInv, TypeOK
  <1>3. CASE Exists(u) /\ ~ShouldIgnore(u, e) /\ Effect(row[u], e) # None
    <2>1. row' = [row EXCEPT ![u] = Effect(row[u], e)]
      BY <1>3 DEF Webhook, SubjectOf, Write
    <2>2. row[u] \in Row /\ (row[u].sub # None => row[u].cust # None)
      BY <1>2, <1>3 DEF IInv, TypeOK, Exists
    <2>3. row[u].sub # None /\ Effect(row[u], e).sub \notin {None, row[u].sub} => CanReplace(row[u].status)
      <3> HIDE DEF e
      <3> QED BY <1>1, <1>3, <2>2, EffectOnRow
    <2>4. row'[u] = Effect(row[u], e) /\ \A v \in User \ {u} : row'[v] = row[v]
      BY <1>2, <2>1
    <2> HIDE DEF u
    <2> QED BY <1>2, <2>3, <2>4, LinkKept
  <1>4. CASE ~(Exists(u) /\ ~ShouldIgnore(u, e) /\ Effect(row[u], e) # None)
    <2>1. row' = row
      BY <1>4 DEF Webhook, SubjectOf
    <2> QED BY <2>1 DEF LiveLinkKept
  <1> QED BY <1>3, <1>4

(* A grant keeps the link or clears it.                                    *)
LEMMA GrantLink ==
  ASSUME IInv, NEW o \in Op, GrantStep(o)
  PROVE  LiveLinkKept
  <1> DEFINE u == op[o].user
  <1>1. CASE row' = row
    BY <1>1 DEF LiveLinkKept
  <1>2. ASSUME op[o] # None, NEW n, row' = [row EXCEPT ![u] = n],
               row[u] # None => n.sub \in {None, row[u].sub}
        PROVE  LiveLinkKept
    <2>1. u \in User
      BY <1>2, GrantUnderWay
    <2>2. row'[u] = n /\ \A v \in User \ {u} : row'[v] = row[v]
      BY <1>2, <2>1 DEF IInv, TypeOK
    <2> HIDE DEF u
    <2> QED BY <1>2, <2>1, <2>2, LinkKept
  <1>3. CASE op[o] # None /\ Apply(o)
    <2>1. RowOf(u) \in Row /\ op[o].grant \in Grant /\ (RowOf(u).sub # None => RowOf(u).cust # None)
      BY <1>3, GrantUnderWay
    <2>2. BillingPatch(RowOf(u), op[o].grant).sub \in {None, RowOf(u).sub}
      BY <2>1, GrantOnRow
    <2>3. row' = [row EXCEPT ![u] = BillingPatch(RowOf(u), op[o].grant)]
      BY <1>3 DEF Apply
    <2> QED BY <1>2, <1>3, <2>2, <2>3 DEF RowOf, Exists
  <1>4. CASE RefuseGrant(o)
    BY <1>2, <1>4 DEF RefuseGrant, RowOf, Exists
  <1> QED BY <1>1, <1>3, <1>4 DEF GrantStep, BeginGrant, NewGrant, StaleGrant, ReplayGrant

(* A checkout, a deletion and a sign-up set no subscription.               *)
LEMMA UserLink ==
  ASSUME IInv, NEW u \in User, UserStep(u)
  PROVE  LiveLinkKept
  <1>1. CASE row' = row
    BY <1>1 DEF LiveLinkKept
  <1>2. ASSUME NEW n, row' = [row EXCEPT ![u] = n],
               n = None \/ row[u] = None \/ n.sub = row[u].sub
        PROVE  LiveLinkKept
    <2>1. row'[u] = n /\ \A v \in User \ {u} : row'[v] = row[v]
      BY <1>2 DEF IInv, TypeOK
    <2> QED BY <1>2, <2>1, LinkKept
  <1>3. CASE DeleteUser(u)
    BY <1>2, <1>3 DEF DeleteUser
  <1>4. CASE SignUp(u)
    BY <1>2, <1>4 DEF SignUp, Exists
  <1>5. ASSUME NEW c \in Customer, StoreCustomer(u, c) PROVE LiveLinkKept
    <2>1. CASE row' # row
      <3>1. Exists(u) /\ row' = [row EXCEPT ![u] = [row[u] EXCEPT !.cust = c]]
        BY <1>5, <2>1 DEF StoreCustomer, Write
      <3>2. [row[u] EXCEPT !.cust = c].sub = row[u].sub
        BY <3>1, CustSet DEF Exists, IInv, TypeOK
      <3> QED BY <1>2, <3>1, <3>2
    <2> QED BY <1>1, <2>1
  <1> QED BY <1>1, <1>3, <1>4, <1>5 DEF UserStep, TapUpgrade, CheckEligible, ConfirmDelete

(* A subscription that has not ended is never replaced by another one.     *)
THEOREM LiveSubscriptionKeptHolds == Spec => LiveSubscriptionKept
  <1>1. IInv /\ [Next]_vars => [LiveLinkKept]_vars
    <2> SUFFICES ASSUME IInv, Next PROVE LiveLinkKept
      OBVIOUS
    <2>1. ASSUME NEW s \in Sub, StripeStep(s) PROVE row' = row
      BY <2>1 DEF StripeStep, Pay, Renew, PaymentFails, Cancel, Emit
    <2> QED BY <2>1, WebhookLink, GrantLink, UserLink DEF Next, LiveLinkKept
  <1> QED BY <1>1, Inductive, PTL DEF Spec, LiveSubscriptionKept

=============================================================================
