------------------------------- MODULE Billing -------------------------------
(***************************************************************************)
(* The billing state of a user: Stripe checkout and Stripe webhook events  *)
(* (duplicated, delayed and reordered), manual grants by an operator (CLI  *)
(* or admin page), and the deletion of the user.                           *)
(*                                                                         *)
(* Every webhook and every grant works in one transaction that holds the   *)
(* lock of the user's row, so each is one step.  Stripe itself is external *)
(* and modelled from the events the code handles.                          *)
(***************************************************************************)
EXTENDS Naturals, Sequences, FiniteSetsExt

CONSTANTS
  User,         \* Telegram users
  Customer,     \* Stripe customers
  Sub,          \* Stripe subscriptions
  Ref,          \* payment references
  Op,           \* grants an operator starts
  Payload,      \* what they grant
  PriceOf,      \* the plan a subscription's price is configured for, or None
  MaxEvents,    \* bound: Stripe events
  MaxPaid,      \* bound: service periods paid for
  None

(* What validatePlanInput lets through.                                    *)
ValidGrant(g) ==
  /\ g.status \in {"free", "active", "canceled"}
  /\ g.plan = "free" <=> g.status = "free"
  /\ g.kept => g.plan = "business"
  /\ g.plan \in {"personal", "pro", "team"} /\ g.status = "active" => g.paid > 0
  /\ g.status = "canceled" => g.paid = 0 /\ g.plan # "business"

PlanCode == {"free", "personal", "pro", "team", "business"}
SubscriptionStatus ==
  {"free", "trialing", "active", "paused", "past_due", "canceled", "unpaid",
   "incomplete", "incomplete_expired"}

(* The billing columns of users.  The trial and period columns are set and *)
(* cleared together with sub and are left out; paid is paid_through_at, 0  *)
(* for null.                                                               *)
Row == [plan : PlanCode, status : SubscriptionStatus, cust : Customer \cup {None},
        sub : Sub \cup {None}, paid : 0..MaxPaid]

(* The state kept by Stripe, and its events.                               *)
StripeStatus == {"none", "active", "past_due", "canceled"}
Event == [type : {"checkout", "created", "updated", "deleted", "invoice"}, user : User,
          cust : Customer, sub : Sub \cup {None}, status : StripeStatus, paid : 0..MaxPaid]

(* A row of manual_billing_events; rank is the order of created_at.        *)
LedgerRow == [user : User, plan : PlanCode, status : SubscriptionStatus, paid : 0..MaxPaid,
              kept : BOOLEAN, rank : Nat]

(* None is null: no id, and no row.                                        *)
ASSUME BillingAssumption ==
  /\ Payload \subseteq [plan : PlanCode, status : SubscriptionStatus, paid : 0..MaxPaid,
                        kept : BOOLEAN]
  /\ \A g \in Payload : ValidGrant(g)
  /\ PriceOf \in [Sub -> {"personal", "pro", "team", None}]
  /\ MaxEvents \in Nat
  /\ MaxPaid \in Nat \ {0}
  /\ None \notin Customer \cup Sub \cup Ref \cup Row \cup LedgerRow

VARIABLES
  row,       \* user -> its billing columns, or None: no row
  ledger,    \* payment reference -> manual_billing_events row, or None
  op,        \* operator's grant -> its input while it is under way
  begun,     \* grants begun so far: the order of created_at
  checkout,  \* user -> phase of the checkout the bot is preparing
  deletion,  \* users whose deletion was confirmed and checked
  sessions,  \* open Stripe checkout sessions
  stripe,    \* subscription -> Stripe's own record of it
  events,    \* Stripe events, in the order Stripe created them
  recorded,  \* ids of events in billing_webhook_events
  decision,  \* history: the grant last written to a user's row
  invoiced   \* history: latest period paid for since that grant

stripeSide == <<sessions, stripe, events>>
history == <<decision, invoiced>>
vars == <<row, ledger, op, begun, checkout, deletion, stripeSide, recorded, history>>

NewUser == [plan |-> "free", status |-> "free", cust |-> None, sub |-> None, paid |-> 0]

NoSub == [status |-> "none", user |-> None, cust |-> None, paid |-> 0]

Init ==
  /\ row = [u \in User |-> NewUser]
  /\ ledger = [r \in Ref |-> None]
  /\ op = [o \in Op |-> None]
  /\ begun = 0
  /\ checkout = [u \in User |-> "none"]
  /\ deletion = {}
  /\ sessions = {}
  /\ stripe = [s \in Sub |-> NoSub]
  /\ events = <<>>
  /\ recorded = {}
  /\ decision = [u \in User |-> None]
  /\ invoiced = [u \in User |-> 0]

-----------------------------------------------------------------------------
(* Decisions on a row.                                                     *)

Exists(u) == row[u] # None

(* canReplaceStripeSubscription, and the same test in checkout.            *)
CanReplace(status) == status \in {"free", "canceled", "incomplete_expired"}

(* isManualBillingUser: these users get no self-service billing.           *)
IsManualBillingUser(r) == r.plan # "free" /\ r.cust = None

(* hasLivePaidSubscription: refuses the deletion of the user.              *)
HasLivePaidSubscription(r) ==
  (r.cust # None \/ r.sub # None) /\ r.status \notin {"canceled", "incomplete_expired"}

(* findLatestManualBillingEventForUser: by created_at, the start of the    *)
(* granting transaction, not its commit.                                   *)
EventsOf(u) == {r \in Ref : ledger[r] # None /\ ledger[r].user = u}
Newest(rows) == CHOOSE x \in rows : \A y \in rows : y[2] <= x[2]
Latest(u) ==
  IF EventsOf(u) = {} THEN None
  ELSE Newest({<<r, ledger[r].rank>> : r \in EventsOf(u)})[1]
LatestIs(u, Pred(_)) == Latest(u) # None /\ Pred(ledger[Latest(u)])

(* A write of the row makes every open admin page of the user stale.       *)
Write(u, r) ==
  /\ row' = [row EXCEPT ![u] = r]
  /\ op' = [o \in Op |-> IF op[o] # None /\ op[o].user = u /\ op[o].admin
                         THEN [op[o] EXCEPT !.fresh = FALSE] ELSE op[o]]

-----------------------------------------------------------------------------
(* Faulty variants.                                                        *)

(* The operator's downgrade of an unlinked user is not looked up.          *)
ShouldIgnoreForgetsDowngrade(u, e) ==
  LET r == row[u]
      matches == (e.sub # None /\ r.sub = e.sub) \/ r.cust = e.cust
  IN IF r.sub = None /\ r.cust = None
     THEN r.plan # "free"
     ELSE \/ ~matches
          \/ r.plan = "business" /\ LatestIs(u, LAMBDA m : m.kept)

(* Any new subscription replaces the row's.                                *)
OtherSubscriptionCreated(r, e) == r.sub \notin {None, e.sub} /\ e.type # "created"

(* The invoice's period is stored as it comes.                             *)
PaidThroughLast(r, e) == [r EXCEPT !.paid = e.paid]

-----------------------------------------------------------------------------
(* Stripe webhook events.                                                  *)

(* shouldIgnoreStripeUpdate, on the locked row.                            *)
ShouldIgnore(u, e) ==
  LET r == row[u]
      matches == (e.sub # None /\ r.sub = e.sub) \/ r.cust = e.cust
  IN IF r.sub = None /\ r.cust = None
     THEN r.plan # "free" \/ LatestIs(u, LAMBDA m : m.plan = "free")
     ELSE \/ ~matches
          \/ r.plan = "business" /\ LatestIs(u, LAMBDA m : m.kept)

(* Another subscription than the row's: only its creation counts, and only *)
(* after the row's own one ended.                                          *)
OtherSubscription(r, e) ==
  r.sub \notin {None, e.sub} /\ (e.type # "created" \/ ~CanReplace(r.status))

(* mapStripeSubscriptionStatus.                                            *)
MapStatus(s) == IF s \in SubscriptionStatus THEN s ELSE "free"

(* resolvePlanFromStripePriceId; None: a price the configuration lacks.    *)
PlanOf(s) == PriceOf[s]

(* applyStripeSubscription.                                                *)
SubscriptionPatch(r, e) ==
  [r EXCEPT !.plan = PlanOf(e.sub), !.status = MapStatus(e.status), !.cust = e.cust,
            !.sub = e.sub]

(* getInvoicePaidThroughAt: the end of the latest period on the            *)
(* subscription's lines of the invoice.                                    *)
PaidThrough(e) == e.paid

(* updateUserPaidThroughAtIfLater.                                         *)
PaidThroughIfLater(r, e) == [r EXCEPT !.paid = Max({@, PaidThrough(e)})]

(* What an event does to the row of a user it is not ignored for, or None: *)
(* ignored by its own handler.                                             *)
Effect(r, e) ==
  CASE e.type = "checkout" -> [r EXCEPT !.cust = e.cust]
    [] e.type = "invoice" ->
         IF r.sub = e.sub THEN PaidThroughIfLater(r, e) ELSE None
    [] OTHER ->
         IF OtherSubscription(r, e) \/ PlanOf(e.sub) = None THEN None
         ELSE SubscriptionPatch(r, e)

(* findUserForStripeSubject: lookup by subscription, by customer and by    *)
(* metadata all find the user the Stripe objects belong to.                *)
SubjectOf(e) == e.user

(* recordBillingWebhookEvent inserts the id of an event it does not know.  *)
NewEvent(i) == i \in 1..Len(events) \ recorded

(* processStripeWebhookEvent: the event id and its effect are one          *)
(* transaction; a failed one leaves neither and Stripe sends it again, a   *)
(* duplicate changes nothing.                                              *)
Webhook(i) ==
  /\ NewEvent(i)
  /\ recorded' = recorded \cup {i}
  /\ LET e == events[i]
         u == SubjectOf(e)
     IN IF Exists(u) /\ ~ShouldIgnore(u, e) /\ Effect(row[u], e) # None
        THEN /\ Write(u, Effect(row[u], e))
             /\ invoiced' = IF e.type = "invoice"
                            THEN [invoiced EXCEPT ![u] = Max({@, e.paid})] ELSE invoiced
        ELSE UNCHANGED <<row, op, invoiced>>
  /\ UNCHANGED <<ledger, begun, checkout, deletion, stripeSide, decision>>

-----------------------------------------------------------------------------
(* Checkout from the bot: /upgrade, a tap on a plan, createCheckoutSession *)
(* in three phases, each transaction holding the user's lock, the calls to *)
(* Stripe in between holding none.                                         *)

TapUpgrade(u) ==
  /\ checkout[u] = "none"
  /\ Exists(u) /\ ~IsManualBillingUser(row[u])
  /\ checkout' = [checkout EXCEPT ![u] = "tapped"]
  /\ UNCHANGED <<row, ledger, op, begun, deletion, stripeSide, recorded, history>>

(* A session for the customer in hand.                                     *)
OpenSession(u, c) ==
  /\ sessions' = sessions \cup {[user |-> u, cust |-> c]}
  /\ checkout' = [checkout EXCEPT ![u] = "none"]

Eligible(u) == Exists(u) /\ (row[u].sub = None \/ CanReplace(row[u].status))

CheckEligible(u) ==
  /\ checkout[u] = "tapped"
  /\ IF Eligible(u) /\ row[u].cust # None
     THEN OpenSession(u, row[u].cust)
     ELSE /\ checkout' = [checkout EXCEPT ![u] = IF Eligible(u) THEN "customer" ELSE "none"]
          /\ UNCHANGED sessions
  /\ UNCHANGED <<row, ledger, op, begun, deletion, stripe, events, recorded, history>>

(* Stripe returns the customer c; an id stored meanwhile goes first.       *)
StoreCustomer(u, c) ==
  /\ checkout[u] = "customer"
  /\ \/ /\ Exists(u)
        /\ \/ /\ row[u].cust = None
              /\ Write(u, [row[u] EXCEPT !.cust = c])
              /\ decision' = [decision EXCEPT ![u] = None]
              /\ OpenSession(u, c)
           \/ /\ row[u].cust # None
              /\ OpenSession(u, row[u].cust)
              /\ UNCHANGED <<row, op, decision>>
     \/ /\ ~Exists(u)
        /\ checkout' = [checkout EXCEPT ![u] = "none"]
        /\ UNCHANGED <<row, op, sessions, decision>>
  /\ UNCHANGED <<ledger, begun, deletion, stripe, events, recorded, invoiced>>

-----------------------------------------------------------------------------
(* Stripe: the user pays, the subscription changes, events are created.    *)
(* An event that is never delivered cannot be told from one not created,   *)
(* so a change creates some of its events.                                 *)

Emit(s, types, new) ==
  /\ Len(events) + Len(types) <= MaxEvents
  /\ stripe' = [stripe EXCEPT ![s] = new]
  /\ events' = events \o [i \in 1..Len(types) |->
       [type |-> types[i], user |-> new.user, cust |-> new.cust,
        sub |-> IF types[i] = "checkout" THEN None ELSE s,
        status |-> new.status, paid |-> new.paid]]
  /\ UNCHANGED <<row, ledger, op, begun, checkout, deletion, recorded, history>>

Pay(s) ==
  /\ stripe[s] = NoSub
  /\ \E x \in sessions :
       /\ sessions' = sessions \ {x}
       /\ \E types \in {<<"created">>, <<"checkout", "created">>, <<"created", "invoice">>} :
            Emit(s, types, [status |-> "active", user |-> x.user, cust |-> x.cust, paid |-> 1])

Renew(s) ==
  /\ stripe[s].status \in {"active", "past_due"} /\ stripe[s].paid < MaxPaid
  /\ \E type \in {"updated", "invoice"} :
       Emit(s, <<type>>, [stripe[s] EXCEPT !.status = "active", !.paid = @ + 1])
  /\ UNCHANGED sessions

PaymentFails(s) ==
  /\ stripe[s].status = "active"
  /\ Emit(s, <<"updated">>, [stripe[s] EXCEPT !.status = "past_due"])
  /\ UNCHANGED sessions

Cancel(s) ==
  /\ stripe[s].status \in {"active", "past_due"}
  /\ Emit(s, <<"deleted">>, [stripe[s] EXCEPT !.status = "canceled"])
  /\ UNCHANGED sessions

-----------------------------------------------------------------------------
(* Manual grants.                                                          *)

(* buildBillingPatch.                                                      *)
BillingPatch(r, g) ==
  [r EXCEPT !.plan = g.plan, !.status = g.status, !.paid = g.paid,
            !.cust = IF g.kept THEN @ ELSE None,
            !.sub = IF g.kept THEN @ ELSE None]

(* userMatchesStoredEvent.                                                 *)
UserMatches(r, g) ==
  /\ r.plan = g.plan /\ r.status = g.status /\ r.paid = g.paid
  /\ ~g.kept => r.cust = None /\ r.sub = None

(* buildUserDetail: the admin's billing form exists for a user only.       *)
Detail(u) == Exists(u)

(* The operator submits a grant.  The admin page carries the version of    *)
(* the row it showed; the CLI carries none.                                *)
BeginGrant(o, u, r, g, admin) ==
  /\ op[o] = None /\ begun < Cardinality(Op)
  /\ begun' = begun + 1
  /\ admin => Detail(u)
  /\ op' = [op EXCEPT ![o] = [user |-> u, ref |-> r, grant |-> g, rank |-> begun',
                              admin |-> admin, fresh |-> TRUE]]
  /\ UNCHANGED <<row, ledger, checkout, deletion, stripeSide, recorded, history>>

PayloadOf(m) == [plan |-> m.plan, status |-> m.status, paid |-> m.paid, kept |-> m.kept]

(* The row as findOrCreateUserById leaves it.                              *)
RowOf(u) == IF Exists(u) THEN row[u] ELSE NewUser

(* The end of a grant; pages of the same user are stale if it wrote.       *)
End(o, wrote) ==
  op' = [q \in Op |->
           IF q = o THEN None
           ELSE IF wrote /\ op[q] # None /\ op[q].user = op[o].user /\ op[q].admin
           THEN [op[q] EXCEPT !.fresh = FALSE] ELSE op[q]]

Apply(o) ==
  LET u == op[o].user IN
    /\ row' = [row EXCEPT ![u] = BillingPatch(RowOf(u), op[o].grant)]
    /\ decision' = [decision EXCEPT ![u] = op[o].ref]
    /\ invoiced' = [invoiced EXCEPT ![u] = 0]
    /\ End(o, TRUE)

(* The reference was recorded before, for this user and this content.      *)
Known(o) ==
  LET m == ledger[op[o].ref] IN m.user = op[o].user /\ PayloadOf(m) = op[o].grant

(* grantManualUserPlan under the user's locks.  A new reference is         *)
(* recorded and applied.                                                   *)
NewGrant(o) ==
  /\ op[o] # None
  /\ ledger[op[o].ref] = None
  /\ op[o].admin => op[o].fresh
  /\ ledger' = [ledger EXCEPT ![op[o].ref] =
       [user |-> op[o].user, plan |-> op[o].grant.plan, status |-> op[o].grant.status,
        paid |-> op[o].grant.paid, kept |-> op[o].grant.kept, rank |-> op[o].rank]]
  /\ Apply(o)
  /\ UNCHANGED <<begun, checkout, deletion, stripeSide, recorded>>

(* ConcurrentUpdateSignal: the admin page is stale, all is rolled back.    *)
StaleGrant(o) ==
  /\ op[o] # None
  /\ ledger[op[o].ref] = None
  /\ op[o].admin /\ ~op[o].fresh
  /\ End(o, FALSE)
  /\ UNCHANGED <<row, ledger, begun, checkout, deletion, stripeSide, recorded, history>>

(* A replay of a known reference is applied again if the row no longer     *)
(* shows it.                                                               *)
ReplayGrant(o) ==
  /\ op[o] # None
  /\ ledger[op[o].ref] # None
  /\ Known(o) /\ ~UserMatches(RowOf(op[o].user), op[o].grant)
  /\ Apply(o)
  /\ UNCHANGED <<ledger, begun, checkout, deletion, stripeSide, recorded>>

(* A conflict, or a replay without anything to do.  A missing user stays   *)
(* created.                                                                *)
RefuseGrant(o) ==
  /\ op[o] # None
  /\ ledger[op[o].ref] # None
  /\ Known(o) => UserMatches(RowOf(op[o].user), op[o].grant)
  /\ row' = [row EXCEPT ![op[o].user] = RowOf(op[o].user)]
  /\ End(o, FALSE)
  /\ UNCHANGED <<ledger, begun, checkout, deletion, stripeSide, recorded, history>>

-----------------------------------------------------------------------------
(* /delete_me: the subscription is checked, then the user is deleted, in a *)
(* transaction of its own that cascades to the manual events.              *)

ConfirmDelete(u) ==
  /\ u \notin deletion
  /\ Exists(u) /\ ~HasLivePaidSubscription(row[u])
  /\ deletion' = deletion \cup {u}
  /\ UNCHANGED <<row, ledger, op, begun, checkout, stripeSide, recorded, history>>

DeleteUser(u) ==
  /\ u \in deletion
  /\ deletion' = deletion \ {u}
  /\ row' = [row EXCEPT ![u] = None]
  /\ ledger' = [r \in Ref |-> IF r \in EventsOf(u) THEN None ELSE ledger[r]]
  /\ decision' = [decision EXCEPT ![u] = None]
  /\ invoiced' = [invoiced EXCEPT ![u] = 0]
  /\ op' = [o \in Op |-> IF op[o] # None /\ op[o].user = u /\ op[o].admin
                         THEN [op[o] EXCEPT !.fresh = FALSE] ELSE op[o]]
  /\ UNCHANGED <<begun, checkout, stripeSide, recorded>>

(* upsertUser on the next message.                                         *)
SignUp(u) ==
  /\ ~Exists(u)
  /\ row' = [row EXCEPT ![u] = NewUser]
  /\ UNCHANGED <<ledger, op, begun, checkout, deletion, stripeSide, recorded, history>>

-----------------------------------------------------------------------------
GrantStep(o) ==
  \/ \E u \in User, r \in Ref, g \in Payload, admin \in BOOLEAN : BeginGrant(o, u, r, g, admin)
  \/ NewGrant(o) \/ StaleGrant(o) \/ ReplayGrant(o) \/ RefuseGrant(o)

UserStep(u) ==
  \/ TapUpgrade(u) \/ CheckEligible(u) \/ (\E c \in Customer : StoreCustomer(u, c))
  \/ ConfirmDelete(u) \/ DeleteUser(u) \/ SignUp(u)

StripeStep(s) == Pay(s) \/ Renew(s) \/ PaymentFails(s) \/ Cancel(s)

Next ==
  \/ \E i \in 1..MaxEvents : Webhook(i)
  \/ \E o \in Op : GrantStep(o)
  \/ \E u \in User : UserStep(u)
  \/ \E s \in Sub : StripeStep(s)

Spec == Init /\ [][Next]_vars

-----------------------------------------------------------------------------
(* Properties.                                                             *)

(* Every variable keeps its type, and what is linked belongs together: a   *)
(* row that names a subscription names its customer, a subscription of     *)
(* Stripe has a user, and all its events but the checkout's name it.       *)
TypeOK ==
  /\ row \in [User -> Row \cup {None}]
  /\ ledger \in [Ref -> LedgerRow \cup {None}]
  /\ op \in [Op -> [user : User, ref : Ref, grant : Payload, rank : Nat, admin : BOOLEAN,
                   fresh : BOOLEAN] \cup {None}]
  /\ begun \in Nat
  /\ checkout \in [User -> {"none", "tapped", "customer"}]
  /\ deletion \subseteq User
  /\ sessions \subseteq [user : User, cust : Customer]
  /\ stripe \in [Sub -> [status : StripeStatus, user : User \cup {None},
                        cust : Customer \cup {None}, paid : 0..MaxPaid]]
  /\ events \in Seq(Event)
  /\ recorded \subseteq 1..Len(events)
  /\ decision \in [User -> Ref \cup {None}]
  /\ invoiced \in [User -> 0..MaxPaid]
  /\ \A u \in User : Exists(u) /\ row[u].sub # None => row[u].cust # None
  /\ \A s \in Sub : stripe[s].status # "none" => stripe[s].user \in User /\ stripe[s].cust \in Customer
  /\ \A i \in 1..Len(events) : events[i].type # "checkout" => events[i].sub # None

(* A manual grant stands against Stripe: while the grant last written to   *)
(* the row is also the newest one recorded, and the user has not attached  *)
(* a customer by a checkout since, no late, duplicated or reordered event  *)
(* of the user's subscriptions changes the granted plan or status.         *)
OperatorDecisionStands ==
  \A u \in User :
    decision[u] # None /\ decision[u] = Latest(u) =>
      /\ row[u].plan = ledger[decision[u]].plan
      /\ row[u].status = ledger[decision[u]].status

(* Paid service time is not lost: the row is paid through at least the     *)
(* latest period any accepted invoice since the last grant paid for, in    *)
(* whatever order the invoices arrived.                                    *)
PaidThroughKept == \A u \in User : Exists(u) => row[u].paid >= invoiced[u]

(* A subscription that has not ended is never replaced by another one of   *)
(* the user: only its own events, a grant or a deletion change the link.   *)
LiveLinkKept ==
  \A u \in User :
    row[u] # None /\ row'[u] # None /\ row[u].sub # None /\ row'[u].sub \notin {None, row[u].sub}
      => CanReplace(row[u].status)
LiveSubscriptionKept == [][LiveLinkKept]_vars

=============================================================================
