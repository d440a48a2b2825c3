---------------------------- MODULE RoutingProofs ----------------------------
(***************************************************************************)
(* Proofs about Routing, for all aliases, users, groups, screens and       *)
(* initial tables.                                                         *)
(*                                                                         *)
(* IInv says besides the types: Migrations, what a migration leaves in the *)
(* tables; Rows, what holds of every alias row; Screens, what a button     *)
(* still knows about its alias; HandlerOK, what a handler knows and which  *)
(* locks it holds at each stage; and Trails, that every recorded move is a *)
(* link of the chain of its alias.                                         *)
(***************************************************************************)
EXTENDS Routing, TLAPS

(* Only a group that migrated is repaired, and it has a row of its own.    *)
Migrations ==
  /\ \A g \in Group : moved[g] \in {None, Supergroup[g]}
  /\ \A g \in Group : Supergroup[g] # None => chat[g] # "none"
  /\ \A g \in repaired : moved[g] # None
  /\ \A n \in news : n.kind = "migrated" => moved[n.chat] # None

(* An id is used once, its owner is known, its chat not repaired.          *)
RowOK(a) ==
  Exists(a) => changes[a] > 0 /\ alias[a].owner \in users /\ alias[a].chat \notin repaired

Rows == \A a \in Alias : RowOK(a)

(* As long as the alias lives, its version tells how often it changed      *)
(* since x was read.                                                       *)
Shown(x) ==
  /\ x.alias \in Alias /\ changes[x.alias] > 0
  /\ x.kind = "move" => x.target \in Chat
  /\ x.kind = "topic" => x.target \in Group \cup {None}
  /\ Live(x.alias) =>
       /\ x.version <= alias[x.alias].version
       /\ changes[x.alias] - x.seen = alias[x.alias].version - x.version

Screens == \A s \in Screen : screen[s] # None => Shown(screen[s])

(* A move remembers the owner, and the chat of the version it expects.     *)
MoveOK(t) ==
  t.kind = "move" =>
    /\ t.by \in User /\ t.owner \in User
    /\ Exists(t.alias) => alias[t.alias].owner = t.owner
    /\ Live(t.alias) /\ alias[t.alias].version = t.version =>
         alias[t.alias].chat = t.old /\ (t.stage # "check" => t.auth = t.old)
    /\ t.stage = "write" => t.owner \in t.plan \cup t.held

(* The row that a status is written to is gone or was not deleted.         *)
StatusOK(t) ==
  t.kind \in {"paused", "active"} => t.alias \in Alias /\ (Exists(t.alias) => Live(t.alias))

CreateOK(t) ==
  t.kind = "create" =>
    /\ t.alias \in Alias /\ changes[t.alias] = 0
    /\ t.by \in User /\ t.target \in Chat /\ t.old \in Group \cup {None} /\ t.stage # "check"

(* A chat that gets an alias is locked before its row is read, and stays   *)
(* unrepaired from then on.                                                *)
IntoOK(t) ==
  t.kind \in {"move", "create"} /\ t.stage # "check" =>
    /\ t.target \in repaired => chat[t.target] = "inactive"
    /\ t.stage = "lock" => t.plan = {t.target} \/ (t.plan = {} /\ t.target \in t.held)
    /\ t.stage = "write" => t.target \in t.held /\ t.target \notin repaired

(* A repair locks the chat and then every owner it will write about.       *)
RepairOK(t) ==
  t.kind = "repair" =>
    /\ t.old \in Group /\ moved[t.old] # None /\ t.target = moved[t.old] /\ t.stage # "check"
    /\ t.stage = "lock" => t.plan = {t.old} \/ (t.plan = {} /\ t.old \in t.held)
    /\ t.stage = "write" => t.old \in t.held /\ OwnerLocks(t.old) \subseteq t.plan \cup t.held

(* An erasure has seen every audit row of the user it locked.              *)
EraseOK(t) ==
  t.kind = "erase" =>
    /\ t.by \in User /\ t.stage # "check"
    /\ t.stage = "lock" => t.plan = {t.by} \/ (t.plan = {} /\ t.by \in t.held)
    /\ t.stage = "write" => t.by \in t.held /\ \A e \in audit : e.owner = t.by => Id(e) \in t.doomed

HandlerOK(t) ==
  /\ t.kind \in {"move", "topic", "delete"} => Shown(t)
  /\ MoveOK(t) /\ StatusOK(t) /\ CreateOK(t) /\ IntoOK(t) /\ RepairOK(t) /\ EraseOK(t)

(* Deliveries only repair, the CLI only erases: all else is the bot's.     *)
Handling ==
  \A p \in Actor : txn[p] # None =>
    HandlerOK(txn[p]) /\ (p # "bot" => txn[p].kind \in {"repair", "erase"})

(* The audit rows of an alias: numbered by its changes, all of one owner.  *)
Recorded(e) ==
  /\ e.nr > 0 /\ e.nr <= changes[e.alias] /\ e.owner \in users
  /\ Exists(e.alias) => e.owner = alias[e.alias].owner

Trails == (\A e \in audit : Recorded(e)) /\ AuditChain

IInv == TypeOK /\ Migrations /\ Rows /\ Screens /\ Handling /\ Trails /\ ConfirmedAsShown

-----------------------------------------------------------------------------
(* Handlers and their locks.                                               *)

(* Users are not groups.                                                   *)
LEMMA ChatKinds ==
  /\ \A u \in User : u \notin Group
  /\ User \subseteq Chat /\ Group \subseteq Chat /\ None \notin Chat
  BY RoutingAssumption, TablesAssumption DEF RoutingAssumption, TablesAssumption, Chat

(* A row or a handler is not None.                                         *)
LEMMA NotNone ==
  None \notin Row /\ None \notin Handler /\ None \notin ButtonData /\ None \notin Alias
  BY TablesAssumption DEF TablesAssumption

(* A supergroup does not migrate, so it is not repaired.                   *)
LEMMA SupergroupStays ==
  ASSUME TypeOK, Migrations, NEW g \in Group, moved[g] # None
  PROVE  moved[g] = Supergroup[g] /\ moved[g] \in Group /\ moved[g] # g /\ moved[g] \notin repaired
  <1>1. moved[g] = Supergroup[g] /\ moved[g] \in Group /\ Supergroup[Supergroup[g]] = None
    BY RoutingAssumption DEF RoutingAssumption, Migrations, TypeOK
  <1>2. moved[moved[g]] = None
    BY <1>1 DEF Migrations
  <1> QED BY <1>1, <1>2 DEF Migrations

Exclusive == \A p, q \in Actor : p # q => Held(p) \cap Held(q) = {}

(* A handler goes on, or starts, without a new lock.                       *)
LEMMA StartTypes ==
  ASSUME TypeOK, NEW p \in Actor, NEW x \in Handler \cup {None}, Start(p, x),
         x = None \/ x.held \subseteq Held(p)
  PROVE  /\ txn' \in [Actor -> Handler \cup {None}] /\ txn'[p] = x
         /\ \A q \in Actor \ {p} : txn'[q] = txn[q]
         /\ Exclusive'
  <1>1. /\ txn' \in [Actor -> Handler \cup {None}] /\ txn'[p] = x
        /\ \A q \in Actor \ {p} : txn'[q] = txn[q]
    BY DEF TypeOK, Start
  <1>2. \A q \in Actor \ {p} : Held(q)' = Held(q)
    BY <1>1 DEF Held
  <1>3. Held(p)' \subseteq Held(p)
    BY <1>1 DEF Held
  <1> QED BY <1>1, <1>2, <1>3 DEF TypeOK, Exclusive

(* What a handler knows stays true while the tables it is about stay.      *)
LEMMA HandlerKept ==
  ASSUME NEW t, HandlerOK(t), UNCHANGED <<alias, changes, repaired, audit>>,
         \A g \in Group : moved[g] # None => moved'[g] = moved[g],
         t.kind \in {"move", "create"} => UNCHANGED chat
  PROVE  HandlerOK(t)'
  <1>1. (t.kind \in {"move", "topic", "delete"} => Shown(t)') /\ MoveOK(t)' /\ StatusOK(t)'
        /\ CreateOK(t)'
    BY DEF HandlerOK, Shown, MoveOK, StatusOK, CreateOK, Live, Exists
  <1>2. IntoOK(t)'
    BY DEF HandlerOK, IntoOK
  <1>3. RepairOK(t)'
    BY DEF HandlerOK, RepairOK, OwnerLocks, Exists
  <1>4. EraseOK(t)'
    BY DEF HandlerOK, EraseOK
  <1> QED BY <1>1, <1>2, <1>3, <1>4 DEF HandlerOK

(* The tables that routing is about.                                       *)
tables == <<alias, audit, home, changes, confirmed, repaired>>

(* The parts of the invariant that speak of these tables only.             *)
LEMMA TablesKept ==
  ASSUME IInv, UNCHANGED tables, users \subseteq users'
  PROVE  Rows' /\ Trails' /\ ConfirmedAsShown' /\ (screen' = screen => Screens')
  <1>1. Rows' /\ ConfirmedAsShown'
    BY DEF IInv, tables, Rows, RowOK, Exists, ConfirmedAsShown
  <1>2. \A e \in audit' : Recorded(e)'
    BY DEF IInv, tables, Trails, Recorded, Exists
  <1>3. AuditChain'
    BY DEF IInv, tables, Trails, AuditChain, Chain, LedTo, Trail, Exists
  <1>4. screen' = screen => Screens'
    BY DEF IInv, tables, Screens, Shown, Live, Exists
  <1> QED BY <1>1, <1>2, <1>3, <1>4 DEF Trails

(* An actor starts, goes on with or ends a handler; the tables stay.       *)
LEMMA HandlerStep ==
  ASSUME IInv, NEW p \in Actor, NEW x \in Handler \cup {None}, Start(p, x),
         x = None \/ x.held \subseteq Held(p),
         x # None => HandlerOK(x)' /\ (p # "bot" => x.kind \in {"repair", "erase"}),
         UNCHANGED <<tables, telegram, screen>>,
         users \subseteq users', users' \subseteq User,
         chat' \in [Chat -> {"none", "active", "inactive"}],
         \A g \in Group : chat[g] # "none" => chat'[g] # "none",
         UNCHANGED chat \/ txn["bot"] = None,
         news' \subseteq news, inputs' \in 0..MaxInputs
  PROVE  IInv'
  <1>1. /\ txn' \in [Actor -> Handler \cup {None}] /\ txn'[p] = x
        /\ \A q \in Actor \ {p} : txn'[q] = txn[q]
        /\ Exclusive'
    BY StartTypes DEF IInv
  <1>2. TypeOK'
    BY <1>1 DEF IInv, TypeOK, tables, telegram, Exclusive
  <1>3. Migrations'
    BY DEF IInv, Migrations, tables, telegram
  <1>4. Handling'
    <2> SUFFICES ASSUME NEW q \in Actor, txn'[q] # None
                 PROVE  HandlerOK(txn[q])' /\ (q # "bot" => txn'[q].kind \in {"repair", "erase"})
      BY DEF Handling
    <2>1. CASE q = p
      BY <1>1, <2>1 DEF HandlerOK, Shown, MoveOK, StatusOK, CreateOK, IntoOK, RepairOK, EraseOK
    <2>2. CASE q # p
      <3> DEFINE t == txn[q]
      <3>1. t # None /\ txn'[q] = t /\ HandlerOK(t) /\ (q # "bot" => t.kind \in {"repair", "erase"})
        BY <1>1, <2>2 DEF IInv, Handling
      <3>2. t.kind \in {"move", "create"} => UNCHANGED chat
        BY <3>1
      <3>3. ASSUME NEW y, y = t PROVE HandlerOK(y)'
        <4>1. \A g \in Group : moved[g] # None => moved'[g] = moved[g]
          BY DEF telegram
        <4>2. UNCHANGED <<alias, changes, repaired, audit>>
          BY DEF tables
        <4> HIDE DEF t
        <4> QED BY <3>1, <3>2, <3>3, <4>1, <4>2, HandlerKept
      <3> QED BY <3>1, <3>3
    <2> QED BY <2>1, <2>2
  <1> QED BY <1>2, <1>3, <1>4, TablesKept DEF IInv

-----------------------------------------------------------------------------
(* The handlers that an update starts.                                     *)

(* authMiddleware only adds a user and activates a private chat.           *)
LEMMA Entered ==
  ASSUME TypeOK, NEW u \in User, NEW w, Enter(u, w)
  PROVE  /\ users \subseteq users' /\ users' \subseteq User
         /\ chat' \in [Chat -> {"none", "active", "inactive"}]
         /\ \A g \in Group : chat'[g] = chat[g]
         /\ inputs' \in 0..MaxInputs
  <1>1. inputs' \in 0..MaxInputs
    BY RoutingAssumption DEF RoutingAssumption, TypeOK, Enter, Input
  <1>2. u \in Chat /\ u \notin Group
    BY ChatKinds
  <1> QED BY <1>1, <1>2 DEF TypeOK, Enter

(* The bot takes up an update.                                             *)
LEMMA BotStarts ==
  ASSUME IInv, Idle, NEW u \in User, NEW w, Enter(u, w),
         NEW x \in Handler, Start("bot", x), x.held = {}, HandlerOK(x)',
         UNCHANGED <<alias, audit, telegram, news, screen, history>>
  PROVE  IInv'
  <1>1. /\ users \subseteq users' /\ users' \subseteq User
        /\ chat' \in [Chat -> {"none", "active", "inactive"}]
        /\ \A g \in Group : chat'[g] = chat[g]
        /\ inputs' \in 0..MaxInputs
    BY Entered DEF IInv
  <1>2. UNCHANGED <<tables, telegram, screen>> /\ news' \subseteq news
    BY DEF tables, history
  <1>3. "bot" \in Actor /\ x \in Handler \cup {None} /\ x.held \subseteq Held("bot")
    BY DEF Actor
  <1> QED BY <1>1, <1>2, <1>3, HandlerStep DEF Idle

(* A handler as it starts, and with other contents.                        *)
LEMMA WorkType ==
  ASSUME NEW kind \in {"move", "topic", "delete", "paused", "active", "create", "erase", "repair"},
         NEW by \in User \cup {None}, NEW a \in Alias \cup {None}, NEW target \in Chat \cup {None},
         NEW version \in Nat, NEW seen \in Nat, NEW where \in Chat \cup {None}
  PROVE  Work(kind, by, a, target, version, seen, where) \in Handler
  <1>1. FALSE \in BOOLEAN
    BY Zenon
  <1> QED BY <1>1 DEF Work, Handler

(* The fields of a handler keep their types.                               *)
LEMMA HandlerFields ==
  ASSUME NEW w \in Handler
  PROVE  /\ \A old \in Chat \cup {None} : [w EXCEPT !.old = old] \in Handler
         /\ \A owner \in User \cup {None} : [w EXCEPT !.owner = owner] \in Handler
         /\ \A stage \in {"check", "lock", "write"} : [w EXCEPT !.stage = stage] \in Handler
         /\ \A plan \in SUBSET Chat : [w EXCEPT !.plan = plan] \in Handler
         /\ \A held \in SUBSET Chat : [w EXCEPT !.held = held] \in Handler
         /\ \A known \in BOOLEAN : [w EXCEPT !.known = known] \in Handler
         /\ \A auth \in Chat \cup {None} : [w EXCEPT !.auth = auth] \in Handler
         /\ \A path \in {"none", "admin", "orphan"} : [w EXCEPT !.path = path] \in Handler
         /\ \A doomed \in SUBSET (Alias \X Nat) : [w EXCEPT !.doomed = doomed] \in Handler
  <1>1. \A old \in Chat \cup {None} : [w EXCEPT !.old = old] \in Handler
    BY DEF Handler
  <1>2. \A owner \in User \cup {None} : [w EXCEPT !.owner = owner] \in Handler
    BY DEF Handler
  <1>3. \A stage \in {"check", "lock", "write"} : [w EXCEPT !.stage = stage] \in Handler
    BY DEF Handler
  <1>4. \A plan \in SUBSET Chat : [w EXCEPT !.plan = plan] \in Handler
    BY DEF Handler
  <1>5. \A held \in SUBSET Chat : [w EXCEPT !.held = held] \in Handler
    BY DEF Handler
  <1>6. \A known \in BOOLEAN : [w EXCEPT !.known = known] \in Handler
    BY DEF Handler
  <1>7. \A auth \in Chat \cup {None} : [w EXCEPT !.auth = auth] \in Handler
    BY DEF Handler
  <1>8. \A path \in {"none", "admin", "orphan"} : [w EXCEPT !.path = path] \in Handler
    BY DEF Handler
  <1>9. \A doomed \in SUBSET (Alias \X Nat) : [w EXCEPT !.doomed = doomed] \in Handler
    BY DEF Handler
  <1> QED BY <1>1, <1>2, <1>3, <1>4, <1>5, <1>6, <1>7, <1>8, <1>9

(* A button's data.                                                        *)
LEMMA ScreenType ==
  ASSUME IInv, NEW s \in Screen, screen[s] # None
  PROVE  screen[s] \in ButtonData /\ Shown(screen[s])
  BY DEF IInv, TypeOK, Screens

(* executeAliasMove starts from the row as it is now.                      *)
LEMMA TapMoveStep ==
  ASSUME IInv, NEW s \in Screen, TapButton(s), TapMove(screen[s])
  PROVE  IInv'
  <1> DEFINE b == screen[s]
  <1>1. b \in ButtonData /\ Shown(b) /\ b.kind = "move" /\ Live(b.alias) /\ Idle
        /\ Enter(b.by, b.where)
    BY ScreenType DEF TapButton, TapMove
  <1>2. b.by \in User /\ b.alias \in Alias /\ b.target \in Chat /\ b.version \in Nat
        /\ b.seen \in Nat /\ b.where \in Chat
    BY <1>1 DEF ButtonData, Shown
  <1>3. alias[b.alias] \in Row
    BY <1>1, <1>2 DEF IInv, TypeOK, Live, Exists
  <1>4. alias[b.alias].chat \in Chat /\ alias[b.alias].owner \in User
    BY <1>3 DEF Row
  <1>5. ASSUME NEW x, x = [Tapped(b) EXCEPT !.old = alias[b.alias].chat, !.owner = alias[b.alias].owner]
        PROVE  IInv'
    <2>1. x \in Handler
      <3>1. Tapped(b) \in Handler
        <4> HIDE DEF b
        <4>1. Tapped(b) = Work("move", b.by, b.alias, b.target, b.version, b.seen, b.where)
          BY <1>1 DEF Tapped
        <4> QED BY <4>1, <1>2, WorkType
      <3>2. [Tapped(b) EXCEPT !.old = alias[b.alias].chat] \in Handler
        BY <1>4, <3>1, HandlerFields
      <3>3. [[Tapped(b) EXCEPT !.old = alias[b.alias].chat] EXCEPT !.owner = alias[b.alias].owner] \in Handler
        BY <1>4, <3>2, HandlerFields
      <3> QED BY <1>5, <3>3
    <2>2. /\ x.kind = "move" /\ x.alias = b.alias /\ x.target = b.target /\ x.version = b.version
          /\ x.seen = b.seen /\ x.stage = "check" /\ x.by = b.by /\ x.held = {}
          /\ x.owner = alias[b.alias].owner /\ x.old = alias[b.alias].chat
      BY <1>1, <1>5 DEF Tapped, Work
    <2>3. UNCHANGED <<alias, audit, telegram, news, screen, history>>
      BY DEF TapButton
    <2>4. alias' = alias /\ changes' = changes
      BY <2>3 DEF history
    <2>5. Shown(x)'
      <3>1. Shown(x)
        BY <1>1, <2>2 DEF Shown
      <3> QED BY <3>1, <2>4 DEF Shown, Live, Exists
    <2>6. MoveOK(x)'
      BY <1>2, <1>4, <2>2, <2>4 DEF MoveOK, Live, Exists
    <2>7. HandlerOK(x)'
      BY <2>2, <2>5, <2>6 DEF HandlerOK, StatusOK, CreateOK, IntoOK, RepairOK, EraseOK
    <2>8. Start("bot", x)
      BY <1>5 DEF TapMove
    <2> HIDE DEF b
    <2> QED BY <1>1, <1>2, <2>1, <2>2, <2>3, <2>7, <2>8, BotStarts
  <1> QED BY <1>5

(* The other buttons are checked and then write.                           *)
LEMMA TapOtherStep ==
  ASSUME IInv, NEW s \in Screen, TapButton(s),
         TapTopicOrDelete(screen[s]) \/ TapOrphanDelete(screen[s])
  PROVE  IInv'
  <1> DEFINE b == screen[s]
  <1> DEFINE k == IF b.kind = "orphan" THEN "delete" ELSE b.kind
  <1>1. /\ b \in ButtonData /\ Shown(b) /\ b.kind \in {"topic", "delete", "orphan"}
        /\ Idle /\ Enter(b.by, b.where)
    BY ScreenType DEF TapButton, TapTopicOrDelete, TapOrphanDelete
  <1>2. /\ b.by \in User /\ b.alias \in Alias /\ b.target \in Chat \cup {None}
        /\ b.version \in Nat /\ b.seen \in Nat /\ b.where \in Chat
    BY <1>1 DEF ButtonData, Shown
  <1>3. Start("bot", [Work(k, b.by, b.alias, b.target, b.version, b.seen, b.where) EXCEPT !.stage = "write"])
    <2>1. CASE TapTopicOrDelete(b)
      BY <2>1 DEF TapTopicOrDelete, Tapped
    <2>2. CASE TapOrphanDelete(b)
      BY <2>2 DEF TapOrphanDelete, Tapped
    <2> QED BY <2>1, <2>2
  <1>4. k \in {"topic", "delete"} /\ (k = "topic" => b.kind = "topic")
    BY <1>1
  <1> HIDE DEF k
  <1>5. ASSUME NEW x, x = [Work(k, b.by, b.alias, b.target, b.version, b.seen, b.where) EXCEPT !.stage = "write"]
        PROVE  IInv'
    <2>1. x \in Handler
      <3>1. Work(k, b.by, b.alias, b.target, b.version, b.seen, b.where) \in Handler
        BY <1>2, <1>4, WorkType
      <3> QED BY <1>5, <3>1, HandlerFields
    <2>2. /\ x.kind = k /\ x.alias = b.alias /\ x.target = b.target /\ x.version = b.version
          /\ x.seen = b.seen /\ x.held = {}
      BY <1>5 DEF Work
    <2>3. UNCHANGED <<alias, audit, telegram, news, screen, history>>
      BY DEF TapButton
    <2>4. alias' = alias /\ changes' = changes
      BY <2>3 DEF history
    <2>5. Shown(x)'
      <3>1. Shown(x)
        BY <1>1, <1>4, <2>2 DEF Shown
      <3> QED BY <3>1, <2>4 DEF Shown, Live, Exists
    <2>7. HandlerOK(x)'
      BY <1>4, <2>2, <2>5 DEF HandlerOK, MoveOK, StatusOK, CreateOK, IntoOK, RepairOK, EraseOK
    <2>8. Start("bot", x)
      BY <1>3, <1>5
    <2> HIDE DEF b
    <2> QED BY <1>1, <1>2, <2>1, <2>2, <2>3, <2>7, <2>8, BotStarts
  <1> QED BY <1>5

(* The row of an alias.                                                    *)
LEMMA RowType ==
  ASSUME TypeOK, NEW a \in Alias, Exists(a)
  PROVE  /\ alias[a] \in Row /\ alias[a].chat \in Chat /\ alias[a].owner \in User
         /\ alias[a].version \in Nat /\ alias[a].thread \in Group \cup {None}
         /\ alias[a].status \in {"active", "paused", "deleted"}
  <1>1. alias[a] \in Row
    BY DEF TypeOK, Exists
  <1> QED BY <1>1 DEF Row

(* /deleteemail deletes at the version it read.                            *)
LEMMA DeleteEmailStep ==
  ASSUME IInv, NEW u \in User, NEW a \in Alias, NEW w \in Chat, DeleteEmail(u, a, w)
  PROVE  IInv'
  <1>1. Idle /\ Enter(u, w) /\ Live(a)
        /\ UNCHANGED <<alias, audit, telegram, news, screen, history>>
    BY DEF DeleteEmail, Command, Resolves
  <1>2. alias[a].version \in Nat /\ changes[a] \in Nat /\ changes[a] > 0
    BY <1>1, RowType DEF IInv, Live, TypeOK, Rows, RowOK
  <1>3. ASSUME NEW x, x = [Work("delete", u, a, None, alias[a].version, changes[a], None) EXCEPT !.stage = "write"]
        PROVE  IInv'
    <2>1. x \in Handler
      <3>1. Work("delete", u, a, None, alias[a].version, changes[a], None) \in Handler
        BY <1>2, WorkType
      <3> QED BY <1>3, <3>1, HandlerFields
    <2>2. /\ x.kind = "delete" /\ x.alias = a /\ x.version = alias[a].version /\ x.seen = changes[a]
          /\ x.held = {}
      BY <1>3 DEF Work
    <2>3. alias' = alias /\ changes' = changes
      BY <1>1 DEF history
    <2>4. Shown(x)'
      BY <1>2, <2>2, <2>3 DEF Shown, Live, Exists
    <2>5. HandlerOK(x)'
      BY <2>2, <2>4 DEF HandlerOK, MoveOK, StatusOK, CreateOK, IntoOK, RepairOK, EraseOK
    <2>6. Start("bot", x)
      BY <1>3 DEF DeleteEmail
    <2> QED BY <1>1, <2>1, <2>2, <2>5, <2>6, BotStarts
  <1> QED BY <1>3

(* A status change starts at a row that lives.                             *)
LEMMA NewStatusStep ==
  ASSUME IInv, NEW u \in User, NEW a \in Alias, NEW w \in Chat, NEW status \in {"paused", "active"},
         Idle, Enter(u, w), Live(a), NewStatus(u, a, status),
         UNCHANGED <<alias, audit, telegram, news, screen, history>>
  PROVE  IInv'
  <1>1. ASSUME NEW x, x = [Work(status, u, a, None, 0, 0, None) EXCEPT !.stage = "write"]
        PROVE  IInv'
    <2>1. x \in Handler
      <3>1. Work(status, u, a, None, 0, 0, None) \in Handler
        BY WorkType
      <3> QED BY <1>1, <3>1, HandlerFields
    <2>2. x.kind = status /\ x.alias = a /\ x.held = {}
      BY <1>1 DEF Work
    <2>3. alias' = alias
      OBVIOUS
    <2>4. HandlerOK(x)'
      BY <2>2, <2>3 DEF HandlerOK, MoveOK, StatusOK, CreateOK, IntoOK, RepairOK, EraseOK, Live,
         Exists
    <2>5. Start("bot", x)
      BY <1>1 DEF NewStatus
    <2> QED BY <2>1, <2>2, <2>4, <2>5, BotStarts
  <1> QED BY <1>1

(* A chat one can manage has not been repaired.                            *)
LEMMA ManagedNotRepaired ==
  ASSUME IInv, NEW u \in User, NEW c \in Chat, CanManage(u, c)
  PROVE  c \notin repaired
  BY ChatKinds DEF IInv, TypeOK, Migrations, CanManage

(* createEmailAlias starts, for an alias id never used.                    *)
LEMMA CreateStep ==
  ASSUME IInv, NEW u \in User, NEW a \in Alias, NEW w \in Chat, NEW c \in Chat,
         NEW thread \in Topics(c), Create(u, a, c, thread, w)
  PROVE  IInv'
  <1>1. /\ Idle /\ Enter(u, w) /\ changes[a] = 0 /\ CanManage(u, c)
        /\ UNCHANGED <<alias, audit, telegram, news, screen, history>>
    BY DEF Create
  <1>2. c \notin repaired
    BY <1>1, ManagedNotRepaired
  <1>3. thread \in Group \cup {None}
    BY DEF Topics
  <1>4. ASSUME NEW x, x = [Work("create", u, a, c, 0, 0, None) EXCEPT
                              !.old = thread, !.stage = "lock", !.plan = {c}]
        PROVE  IInv'
    <2>1. x \in Handler
      <3>1. Work("create", u, a, c, 0, 0, None) \in Handler
        BY WorkType
      <3>2. [Work("create", u, a, c, 0, 0, None) EXCEPT !.old = thread] \in Handler
        BY <1>3, <3>1, ChatKinds, HandlerFields
      <3>3. [[Work("create", u, a, c, 0, 0, None) EXCEPT !.old = thread] EXCEPT !.stage = "lock"] \in Handler
        BY <3>2, HandlerFields
      <3>4. [[[Work("create", u, a, c, 0, 0, None) EXCEPT !.old = thread] EXCEPT !.stage = "lock"]
               EXCEPT !.plan = {c}] \in Handler
        BY <3>3, HandlerFields
      <3> QED BY <1>4, <3>4
    <2>2. /\ x.kind = "create" /\ x.alias = a /\ x.by = u /\ x.target = c /\ x.old = thread
          /\ x.stage = "lock" /\ x.plan = {c} /\ x.held = {}
      BY <1>4 DEF Work
    <2>3. changes' = changes /\ repaired' = repaired
      BY <1>1 DEF history
    <2>4. CreateOK(x)' /\ IntoOK(x)'
      BY <1>1, <1>2, <1>3, <2>2, <2>3 DEF CreateOK, IntoOK
    <2>5. HandlerOK(x)'
      BY <2>2, <2>4 DEF HandlerOK, MoveOK, StatusOK, RepairOK, EraseOK
    <2>6. Start("bot", x)
      BY <1>4 DEF Create
    <2> QED BY <1>1, <2>1, <2>2, <2>5, <2>6, BotStarts
  <1> QED BY <1>4

(* A handler goes on and nothing but its own state changes.                *)
LEMMA HandlerGoesOn ==
  ASSUME IInv, NEW p \in Actor, NEW x \in Handler \cup {None}, Start(p, x),
         x = None \/ x.held \subseteq Held(p),
         x # None => HandlerOK(x) /\ (p # "bot" => x.kind \in {"repair", "erase"}),
         UNCHANGED <<alias, chat, users, audit, telegram, screen, history>>,
         news' \subseteq news, inputs' \in 0..MaxInputs
  PROVE  IInv'
  <1>1. UNCHANGED <<tables, telegram, screen>> /\ chat' = chat /\ users' = users
    BY DEF tables, history
  <1>2. x # None => HandlerOK(x)'
    <2>1. UNCHANGED <<alias, changes, repaired, audit>> /\ UNCHANGED chat
      BY DEF history
    <2>2. \A g \in Group : moved[g] # None => moved'[g] = moved[g]
      BY DEF telegram
    <2> QED BY <2>1, <2>2, HandlerKept
  <1>3. users' \subseteq User /\ chat' \in [Chat -> {"none", "active", "inactive"}]
    BY <1>1 DEF IInv, TypeOK
  <1> QED BY <1>1, <1>2, <1>3, HandlerStep

(* /delete_me and delete-user.                                             *)
LEMMA EraseUserStep ==
  ASSUME IInv, NEW p \in {"bot", "cli"}, NEW u \in User, EraseUser(p, u)
  PROVE  IInv'
  <1>1. ASSUME NEW x, x = [Work("erase", u, None, None, 0, 0, None) EXCEPT !.stage = "lock", !.plan = {u}]
        PROVE  IInv'
    <2>1. x \in Handler
      <3>1. Work("erase", u, None, None, 0, 0, None) \in Handler
        BY WorkType
      <3>2. [Work("erase", u, None, None, 0, 0, None) EXCEPT !.stage = "lock"] \in Handler
        BY <3>1, HandlerFields
      <3>3. [[Work("erase", u, None, None, 0, 0, None) EXCEPT !.stage = "lock"] EXCEPT !.plan = {u}] \in Handler
        BY <3>2, ChatKinds, HandlerFields
      <3> QED BY <1>1, <3>3
    <2>2. x.kind = "erase" /\ x.by = u /\ x.stage = "lock" /\ x.plan = {u} /\ x.held = {}
      BY <1>1 DEF Work
    <2>3. HandlerOK(x)
      BY <2>2 DEF HandlerOK, MoveOK, StatusOK, CreateOK, IntoOK, RepairOK, EraseOK
    <2>4. Start(p, x) /\ inputs' \in 0..MaxInputs
      BY <1>1, RoutingAssumption DEF EraseUser, Input, IInv, TypeOK, RoutingAssumption
    <2>5. p \in Actor /\ UNCHANGED <<alias, chat, users, audit, telegram, screen, history>>
          /\ news' \subseteq news
      BY DEF Actor, EraseUser
    <2> QED BY <2>1, <2>2, <2>3, <2>4, <2>5, HandlerGoesOn
  <1> QED BY <1>1

-----------------------------------------------------------------------------
(* The steps up to the write.                                              *)

(* A handler under way.                                                    *)
LEMMA UnderWay ==
  ASSUME IInv, NEW p \in Actor, txn[p] # None
  PROVE  /\ txn[p] \in Handler /\ HandlerOK(txn[p]) /\ Held(p) = txn[p].held
         /\ p # "bot" => txn[p].kind \in {"repair", "erase"}
  BY DEF IInv, TypeOK, Handling, Held

(* A repair as it starts, for a group that Telegram says has migrated.     *)
LEMMA RepairStarts ==
  ASSUME IInv, NEW g \in Group, moved[g] # None, NEW meta \in BOOLEAN, NEW x,
         x = Repair(g, moved[g], meta)
  PROVE  x \in Handler /\ x.kind = "repair" /\ x.held = {} /\ HandlerOK(x)
  <1>1. moved[g] \in Group /\ g \in Chat /\ moved[g] \in Chat
    BY SupergroupStays, ChatKinds DEF IInv
  <1> DEFINE w == Work("repair", None, None, moved[g], 0, 0, None)
  <1>2. x = [[[[w EXCEPT !.old = g] EXCEPT !.known = ~meta] EXCEPT !.stage = "lock"] EXCEPT !.plan = {g}]
    BY DEF Repair
  <1>3. w \in Handler
    BY <1>1, WorkType
  <1>4. [w EXCEPT !.old = g] \in Handler
    BY <1>1, <1>3, HandlerFields
  <1>5. [[w EXCEPT !.old = g] EXCEPT !.known = ~meta] \in Handler
    <2>1. (~meta) \in BOOLEAN
      BY Zenon
    <2> HIDE DEF w
    <2> QED BY <1>4, <2>1, HandlerFields
  <1>6. [[[w EXCEPT !.old = g] EXCEPT !.known = ~meta] EXCEPT !.stage = "lock"] \in Handler
    <2> HIDE DEF w
    <2> QED BY <1>5, HandlerFields
  <1>7. x \in Handler
    <2> HIDE DEF w
    <2>1. {g} \in SUBSET Chat
      BY <1>1
    <2>2. \A v \in Handler : [v EXCEPT !.plan = {g}] \in Handler
      BY <2>1, HandlerFields
    <2> QED BY <1>2, <1>6, <2>2
  <1>8. x.kind = "repair" /\ x.held = {} /\ x.old = g /\ x.target = moved[g] /\ x.stage = "lock"
        /\ x.plan = {g}
    BY DEF Repair, Work
  <1>9. HandlerOK(x)
    BY <1>8 DEF HandlerOK, MoveOK, StatusOK, CreateOK, IntoOK, RepairOK, EraseOK
  <1> QED BY <1>7, <1>8, <1>9

(* A delivery runs into a migration.                                       *)
LEMMA ReactiveRepairStep ==
  ASSUME IInv, NEW g \in Group, ReactiveRepair(g)
  PROVE  IInv'
  <1>1. ASSUME NEW x, x = Repair(g, moved[g], FALSE)
        PROVE  IInv'
    <2>1. FALSE \in BOOLEAN
      BY Zenon
    <2>2. x \in Handler /\ x.kind = "repair" /\ x.held = {} /\ HandlerOK(x)
      BY <1>1, <2>1, RepairStarts DEF ReactiveRepair
    <2>3. Start("delivery", x)
      BY <1>1 DEF ReactiveRepair
    <2>4. /\ "delivery" \in Actor
          /\ UNCHANGED <<alias, chat, users, audit, telegram, screen, history>>
          /\ news' \subseteq news /\ inputs' \in 0..MaxInputs
      BY DEF Actor, ReactiveRepair, IInv, TypeOK
    <2> QED BY <2>2, <2>3, <2>4, HandlerGoesOn
  <1> QED BY <1>1

(* A service message of a migration.                                       *)
LEMMA MigratedNewsStep ==
  ASSUME IInv, NEW n \in news, HandleNews(n), n.kind = "migrated"
  PROVE  IInv'
  <1>1. n.chat \in Group /\ n.meta \in BOOLEAN /\ moved[n.chat] # None
    BY DEF IInv, TypeOK, ChatNews, Migrations
  <1>2. ASSUME NEW x, x = Repair(n.chat, moved[n.chat], n.meta)
        PROVE  IInv'
    <2>1. x \in Handler /\ x.kind = "repair" /\ x.held = {} /\ HandlerOK(x)
      BY <1>1, <1>2, RepairStarts
    <2>2. Start("bot", x)
      BY <1>2 DEF HandleNews
    <2>3. /\ "bot" \in Actor /\ UNCHANGED <<alias, chat, users, audit, telegram, screen, history>>
          /\ news' \subseteq news /\ inputs' \in 0..MaxInputs
      BY DEF Actor, HandleNews, IInv, TypeOK
    <2> QED BY <2>1, <2>2, <2>3, HandlerGoesOn
  <1> QED BY <1>2

(* Postgres ends a transaction.                                            *)
LEMMA DeadlockAbortStep ==
  ASSUME IInv, NEW p \in Actor, DeadlockAbort(p)
  PROVE  IInv'
  <1>1. /\ Start(p, None) /\ UNCHANGED <<alias, chat, users, audit, telegram, screen, history>>
        /\ news' \subseteq news /\ inputs' \in 0..MaxInputs
    BY DEF DeadlockAbort, End, IInv, TypeOK
  <1> QED BY <1>1, HandlerGoesOn

(* A move is checked: it goes on, repairs, or ends.                        *)
LEMMA CheckMoveStep ==
  ASSUME IInv, CheckMove
  PROVE  IInv'
  <1> DEFINE t == txn["bot"]
  <1> DEFINE from == alias[t.alias].chat
  <1> DEFINE path == AuthzPath(t.by, t.alias)
  <1>1. "bot" \in Actor /\ t # None /\ t.kind = "move" /\ t.stage = "check"
    BY DEF Actor, CheckMove, At
  <1>2. t \in Handler /\ HandlerOK(t) /\ Held("bot") = t.held
    BY <1>1, UnderWay
  <1>3. t.alias \in Alias /\ t.target \in Chat /\ t.by \in User /\ Shown(t) /\ MoveOK(t)
    BY <1>1, <1>2 DEF HandlerOK, Shown, MoveOK
  <1>4. /\ UNCHANGED <<alias, chat, users, audit, telegram, screen, history>>
        /\ news' \subseteq news /\ inputs' \in 0..MaxInputs
    BY DEF CheckMove, IInv, TypeOK
  <1>5. CASE /\ path # "none" /\ CanUseTarget(t.by, t.target, t.where)
             /\ Start("bot", [t EXCEPT !.path = path, !.auth = from, !.stage = "lock", !.plan = {t.target}])
    <2>1. Live(t.alias) /\ path \in {"admin", "orphan"}
      BY <1>5 DEF AuthzPath, CanManageAlias, CanRecover
    <2>2. from \in Chat
      BY <1>3, <2>1, RowType DEF IInv, Live
    <2>3. t.target \notin repaired
      BY <1>3, <1>5, ChatKinds, ManagedNotRepaired DEF CanUseTarget, IInv, TypeOK
    <2>4. ASSUME NEW x, x = [t EXCEPT !.path = path, !.auth = from, !.stage = "lock", !.plan = {t.target}]
          PROVE  IInv'
      <3> HIDE DEF t, from, path
      <3>1. x \in Handler
        <4>1. [t EXCEPT !.path = path] \in Handler
          BY <1>2, <2>1, HandlerFields
        <4>2. [[t EXCEPT !.path = path] EXCEPT !.auth = from] \in Handler
          BY <2>2, <4>1, HandlerFields
        <4>3. [[[t EXCEPT !.path = path] EXCEPT !.auth = from] EXCEPT !.stage = "lock"] \in Handler
          BY <4>2, HandlerFields
        <4>4. [[[[t EXCEPT !.path = path] EXCEPT !.auth = from] EXCEPT !.stage = "lock"]
                 EXCEPT !.plan = {t.target}] \in Handler
          BY <1>3, <4>3, HandlerFields
        <4> QED BY <2>4, <4>4
      <3>2. /\ x.kind = t.kind /\ x.alias = t.alias /\ x.target = t.target /\ x.by = t.by
            /\ x.owner = t.owner
            /\ x.version = t.version /\ x.seen = t.seen /\ x.old = t.old /\ x.held = t.held
            /\ x.auth = from /\ x.stage = "lock" /\ x.plan = {t.target}
        BY <1>2, <2>4 DEF Handler
      <3>3. Shown(x)
        BY <1>3, <3>2 DEF Shown
      <3>4. MoveOK(x)
        BY <1>1, <1>3, <3>2 DEF MoveOK, from
      <3>5. IntoOK(x)
        BY <2>3, <3>2 DEF IntoOK
      <3>6. HandlerOK(x)
        BY <1>1, <3>2, <3>3, <3>4, <3>5 DEF HandlerOK, StatusOK, CreateOK, RepairOK, EraseOK
      <3> QED BY <1>1, <1>2, <1>4, <1>5, <2>4, <3>1, <3>2, <3>6, HandlerGoesOn
    <2> QED BY <2>4
  <1>6. CASE /\ Live(t.alias) /\ Probe(from) = "migrated"
             /\ Start("bot", Repair(from, moved[from], FALSE))
    <2>1. from \in Chat
      BY <1>3, <1>6, RowType DEF IInv, Live
    <2>2. from \in Group /\ moved[from] # None
      BY <1>6, <2>1 DEF Probe, Chat
    <2>3. ASSUME NEW x, x = Repair(from, moved[from], FALSE)
          PROVE  IInv'
      <3>1. FALSE \in BOOLEAN
        BY Zenon
      <3>2. x \in Handler /\ x.kind = "repair" /\ x.held = {} /\ HandlerOK(x)
        BY <2>2, <2>3, <3>1, RepairStarts
      <3> HIDE DEF from, t
      <3> QED BY <1>1, <1>4, <1>6, <2>3, <3>2, HandlerGoesOn
    <2> QED BY <2>3
  <1>7. CASE Start("bot", None)
    BY <1>1, <1>4, <1>7, HandlerGoesOn
  <1> QED BY <1>5, <1>6, <1>7 DEF CheckMove, End

(* The target is locked: a repaired one is refused, any other is held.     *)
LEMMA LockMoveStep ==
  ASSUME IInv, LockMove
  PROVE  IInv'
  <1> DEFINE t == txn["bot"]
  <1>1. "bot" \in Actor /\ t # None /\ t.kind = "move" /\ t.stage = "lock" /\ t.plan = {}
    BY DEF Actor, LockMove, At
  <1>2. t \in Handler /\ HandlerOK(t) /\ Held("bot") = t.held
    BY <1>1, UnderWay
  <1>3. /\ UNCHANGED <<alias, chat, users, audit, telegram, screen, history>>
        /\ news' \subseteq news /\ inputs' \in 0..MaxInputs
    BY DEF LockMove, IInv, TypeOK
  <1>4. CASE Inactive(t.target)
    <2>1. Start("bot", None)
      BY <1>4 DEF LockMove, End
    <2> QED BY <1>1, <1>3, <2>1, HandlerGoesOn
  <1>5. CASE ~Inactive(t.target)
    <2>1. t.owner \in User /\ t.by \in User /\ t.target \in Chat /\ Shown(t) /\ MoveOK(t)
          /\ IntoOK(t)
      BY <1>1, <1>2 DEF HandlerOK, Shown, MoveOK
    <2>2. t.target \notin repaired /\ t.target \in t.held
      BY <1>1, <1>5, <2>1 DEF IntoOK, Inactive
    <2>3. ASSUME NEW x, x = [t EXCEPT !.stage = "write", !.plan = {t.owner, t.by}]
          PROVE  IInv'
      <3>0. Start("bot", x)
        BY <1>5, <2>3 DEF LockMove, Goto
      <3> HIDE DEF t
      <3>1. x \in Handler
        <4>1. [t EXCEPT !.stage = "write"] \in Handler
          BY <1>2, HandlerFields
        <4>2. {t.owner, t.by} \in SUBSET Chat
          BY <2>1, ChatKinds
        <4>3. [[t EXCEPT !.stage = "write"] EXCEPT !.plan = {t.owner, t.by}] \in Handler
          BY <4>1, <4>2, HandlerFields
        <4> QED BY <2>3, <4>3
      <3>2. /\ x.kind = t.kind /\ x.alias = t.alias /\ x.target = t.target /\ x.by = t.by
            /\ x.owner = t.owner
            /\ x.version = t.version /\ x.seen = t.seen /\ x.old = t.old /\ x.held = t.held
            /\ x.auth = t.auth /\ x.stage = "write" /\ x.plan = {t.owner, t.by}
        BY <1>2, <2>3 DEF Handler
      <3>3. Shown(x)
        BY <2>1, <3>2 DEF Shown
      <3>4. MoveOK(x)
        BY <1>1, <2>1, <3>2 DEF MoveOK
      <3>5. IntoOK(x)
        BY <2>2, <3>2 DEF IntoOK
      <3>6. HandlerOK(x)
        BY <1>1, <3>2, <3>3, <3>4, <3>5 DEF HandlerOK, StatusOK, CreateOK, RepairOK, EraseOK
      <3> QED BY <1>1, <1>2, <1>3, <3>0, <3>1, <3>2, <3>6, HandlerGoesOn
    <2> QED BY <2>3
  <1> QED BY <1>4, <1>5

(* The same for a creation.                                                *)
LEMMA LockCreateStep ==
  ASSUME IInv, LockCreate
  PROVE  IInv'
  <1> DEFINE t == txn["bot"]
  <1>1. "bot" \in Actor /\ t # None /\ t.kind = "create" /\ t.stage = "lock" /\ t.plan = {}
    BY DEF Actor, LockCreate, At
  <1>2. t \in Handler /\ HandlerOK(t) /\ Held("bot") = t.held
    BY <1>1, UnderWay
  <1>3. /\ UNCHANGED <<alias, chat, users, audit, telegram, screen, history>>
        /\ news' \subseteq news /\ inputs' \in 0..MaxInputs
    BY DEF LockCreate, IInv, TypeOK
  <1>4. CASE Inactive(t.target)
    <2>1. Start("bot", None)
      BY <1>4 DEF LockCreate, End
    <2> QED BY <1>1, <1>3, <2>1, HandlerGoesOn
  <1>5. CASE ~Inactive(t.target)
    <2>1. t.by \in User /\ t.target \in Chat /\ CreateOK(t) /\ IntoOK(t)
      BY <1>1, <1>2 DEF HandlerOK, CreateOK
    <2>2. t.target \notin repaired /\ t.target \in t.held
      BY <1>1, <1>5, <2>1 DEF IntoOK, Inactive
    <2>3. ASSUME NEW x, x = [t EXCEPT !.stage = "write", !.plan = {t.by}]
          PROVE  IInv'
      <3>0. Start("bot", x)
        BY <1>5, <2>3 DEF LockCreate, Goto
      <3> HIDE DEF t
      <3>1. x \in Handler
        <4>1. [t EXCEPT !.stage = "write"] \in Handler
          BY <1>2, HandlerFields
        <4>2. {t.by} \in SUBSET Chat
          BY <2>1, ChatKinds
        <4>3. [[t EXCEPT !.stage = "write"] EXCEPT !.plan = {t.by}] \in Handler
          BY <4>1, <4>2, HandlerFields
        <4> QED BY <2>3, <4>3
      <3>2. /\ x.kind = t.kind /\ x.alias = t.alias /\ x.target = t.target /\ x.by = t.by
            /\ x.old = t.old /\ x.held = t.held /\ x.stage = "write" /\ x.plan = {t.by}
        BY <1>2, <2>3 DEF Handler
      <3>3. CreateOK(x)
        BY <1>1, <2>1, <3>2 DEF CreateOK
      <3>4. IntoOK(x)
        BY <2>2, <3>2 DEF IntoOK
      <3>5. HandlerOK(x)
        BY <1>1, <3>2, <3>3, <3>4 DEF HandlerOK, MoveOK, StatusOK, RepairOK, EraseOK
      <3> QED BY <1>1, <1>2, <1>3, <3>0, <3>1, <3>2, <3>5, HandlerGoesOn
    <2> QED BY <2>3
  <1> QED BY <1>4, <1>5

(* An erasure reads the audit rows under the user's lock.                  *)
LEMMA LockEraseStep ==
  ASSUME IInv, NEW p \in {"bot", "cli"}, LockErase(p)
  PROVE  IInv'
  <1> DEFINE t == txn[p]
  <1>1. p \in Actor /\ t # None /\ t.kind = "erase" /\ t.stage = "lock" /\ t.plan = {}
    BY DEF Actor, LockErase, At
  <1>2. t \in Handler /\ HandlerOK(t) /\ Held(p) = t.held
    BY <1>1, UnderWay
  <1>3. /\ UNCHANGED <<alias, chat, users, audit, telegram, screen, history>>
        /\ news' \subseteq news /\ inputs' \in 0..MaxInputs
    BY DEF LockErase, IInv, TypeOK
  <1>4. CASE t.by \notin users
    <2>1. Start(p, None)
      BY <1>4 DEF LockErase, End
    <2> QED BY <1>1, <1>3, <2>1, HandlerGoesOn
  <1>5. CASE t.by \in users
    <2>1. t.by \in User /\ t.by \in t.held
      BY <1>1, <1>2 DEF HandlerOK, EraseOK
    <2>2. {Id(e) : e \in audit} \in SUBSET (Alias \X Nat)
      <3>1. \A e \in audit : Id(e) \in Alias \X Nat
        BY DEF IInv, TypeOK, AuditRow, Id
      <3> QED BY <3>1
    <2>3. ASSUME NEW x, x = [t EXCEPT !.doomed = {Id(e) : e \in audit}, !.stage = "write"]
          PROVE  IInv'
      <3>0. Start(p, x)
        BY <1>5, <2>3 DEF LockErase
      <3> HIDE DEF t
      <3>1. x \in Handler
        <4>1. [t EXCEPT !.doomed = {Id(e) : e \in audit}] \in Handler
          BY <1>2, <2>2, HandlerFields
        <4>2. [[t EXCEPT !.doomed = {Id(e) : e \in audit}] EXCEPT !.stage = "write"] \in Handler
          BY <4>1, HandlerFields
        <4> QED BY <2>3, <4>2
      <3>2. /\ x.kind = t.kind /\ x.by = t.by /\ x.held = t.held /\ x.stage = "write"
            /\ x.doomed = {Id(e) : e \in audit}
        BY <1>2, <2>3 DEF Handler
      <3>3. EraseOK(x)
        BY <2>1, <3>2 DEF EraseOK
      <3>4. HandlerOK(x)
        BY <1>1, <3>2, <3>3 DEF HandlerOK, MoveOK, StatusOK, CreateOK, IntoOK, RepairOK
      <3> QED BY <1>1, <1>2, <1>3, <3>0, <3>1, <3>2, <3>4, HandlerGoesOn
    <2> QED BY <2>3
  <1> QED BY <1>4, <1>5

(* A repair reads the owners under the chat's lock.                        *)
LEMMA LockRepairStep ==
  ASSUME IInv, NEW p \in {"bot", "delivery"}, LockRepair(p)
  PROVE  IInv'
  <1> DEFINE t == txn[p]
  <1>1. p \in Actor /\ t # None /\ t.kind = "repair" /\ t.stage = "lock" /\ t.plan = {}
    BY DEF Actor, LockRepair, At
  <1>2. t \in Handler /\ HandlerOK(t) /\ Held(p) = t.held
    BY <1>1, UnderWay
  <1>3. /\ UNCHANGED <<alias, chat, users, audit, telegram, screen, history>>
        /\ news' \subseteq news /\ inputs' \in 0..MaxInputs
    BY DEF LockRepair, IInv, TypeOK
  <1>4. RepairOK(t) /\ t.old \in t.held
    BY <1>1, <1>2 DEF HandlerOK, RepairOK
  <1>5. OwnerLocks(t.old) \in SUBSET Chat
    BY RowType, ChatKinds DEF OwnerLocks, IInv
  <1> DEFINE known == t.known /\ chat[t.target] # "none"
  <1>6. known \in BOOLEAN
    BY Zenon
  <1>7. ASSUME NEW x, x = [t EXCEPT !.known = known, !.stage = "write", !.plan = OwnerLocks(t.old)]
        PROVE  IInv'
    <2>0. Start(p, x)
      BY <1>7 DEF LockRepair
    <2> HIDE DEF t, known
    <2>1. x \in Handler
      <3>1. [t EXCEPT !.known = known] \in Handler
        BY <1>2, <1>6, HandlerFields
      <3>2. [[t EXCEPT !.known = known] EXCEPT !.stage = "write"] \in Handler
        BY <3>1, HandlerFields
      <3>3. [[[t EXCEPT !.known = known] EXCEPT !.stage = "write"] EXCEPT !.plan = OwnerLocks(t.old)] \in Handler
        BY <1>5, <3>2, HandlerFields
      <3> QED BY <1>7, <3>3
    <2>2. /\ x.kind = t.kind /\ x.old = t.old /\ x.target = t.target /\ x.held = t.held
          /\ x.stage = "write" /\ x.plan = OwnerLocks(t.old)
      BY <1>2, <1>7 DEF Handler
    <2>3. RepairOK(x)
      BY <1>1, <1>4, <2>2 DEF RepairOK
    <2>4. HandlerOK(x)
      BY <1>1, <2>2, <2>3 DEF HandlerOK, MoveOK, StatusOK, CreateOK, IntoOK, EraseOK
    <2> QED BY <1>1, <1>2, <1>3, <2>0, <2>1, <2>2, <2>4, HandlerGoesOn
  <1> QED BY <1>7

(* A lock that nobody else holds is taken.                                 *)
LEMMA AcquireStep ==
  ASSUME IInv, NEW p \in Actor, Acquire(p)
  PROVE  IInv'
  <1> DEFINE t == txn[p]
  <1>1. t # None /\ t \in Handler /\ HandlerOK(t) /\ Held(p) = t.held
        /\ (p # "bot" => t.kind \in {"repair", "erase"})
    BY UnderWay DEF Acquire
  <1>2. PICK k \in t.plan : Free(p, k) /\ Start(p, [t EXCEPT !.held = @ \cup {k}, !.plan = @ \ {k}])
    BY DEF Acquire
  <1>3. ASSUME NEW x, x = [t EXCEPT !.held = t.held \cup {k}, !.plan = t.plan \ {k}]
        PROVE  IInv'
    <2>0. Start(p, x)
      BY <1>2, <1>3
    <2> HIDE DEF t
    <2>1. x \in Handler
      <3>1. t.held \cup {k} \in SUBSET Chat /\ t.plan \ {k} \in SUBSET Chat
        BY <1>1 DEF Handler
      <3>2. [t EXCEPT !.held = t.held \cup {k}] \in Handler
        BY <1>1, <3>1, HandlerFields
      <3>3. [[t EXCEPT !.held = t.held \cup {k}] EXCEPT !.plan = t.plan \ {k}] \in Handler
        BY <3>1, <3>2, HandlerFields
      <3> QED BY <1>3, <3>3
    <2>2. /\ x.kind = t.kind /\ x.by = t.by /\ x.alias = t.alias /\ x.target = t.target
          /\ x.version = t.version
          /\ x.seen = t.seen /\ x.where = t.where /\ x.old = t.old /\ x.owner = t.owner
          /\ x.auth = t.auth
          /\ x.doomed = t.doomed /\ x.stage = t.stage /\ x.held = t.held \cup {k}
          /\ x.plan = t.plan \ {k}
      BY <1>1, <1>3 DEF Handler
    <2>3. HandlerOK(x)
      <3>1. t.kind \in {"move", "topic", "delete"} => Shown(x)
        BY <1>1, <2>2 DEF HandlerOK, Shown
      <3>2. MoveOK(x) /\ StatusOK(x) /\ CreateOK(x)
        BY <1>1, <2>2 DEF HandlerOK, MoveOK, StatusOK, CreateOK
      <3>3. IntoOK(x)
        BY <1>1, <2>2 DEF HandlerOK, IntoOK
      <3>4. RepairOK(x)
        BY <1>1, <2>2 DEF HandlerOK, RepairOK
      <3>5. EraseOK(x)
        BY <1>1, <2>2 DEF HandlerOK, EraseOK
      <3> QED BY <2>2, <3>1, <3>2, <3>3, <3>4, <3>5 DEF HandlerOK
    <2>4. /\ txn' \in [Actor -> Handler \cup {None}] /\ txn'[p] = x /\ x # None
          /\ \A q \in Actor \ {p} : txn'[q] = txn[q]
      BY <2>0, <2>1, NotNone DEF IInv, TypeOK, Start
    <2>5. Exclusive'
      <3>1. Held(p)' = t.held \cup {k} /\ \A q \in Actor \ {p} : Held(q)' = Held(q)
            /\ k \notin Held(q)
        BY <1>2, <2>2, <2>4 DEF Held, Free
      <3> QED BY <1>1, <3>1 DEF IInv, TypeOK, Exclusive
    <2>6. UNCHANGED <<alias, chat, users, audit, telegram, news, screen, history, inputs>>
      BY DEF Acquire
    <2>7. TypeOK'
      BY <2>4, <2>5, <2>6 DEF IInv, TypeOK, telegram, history, Exclusive
    <2>8. Migrations'
      BY <2>6 DEF IInv, Migrations, telegram, history
    <2>9. Handling'
      <3> SUFFICES ASSUME NEW q \in Actor, txn'[q] # None
                   PROVE  HandlerOK(txn[q])' /\ (q # "bot" => txn'[q].kind \in {"repair", "erase"})
        BY DEF Handling
      <3>1. ASSUME NEW y, y = txn'[q]
            PROVE  HandlerOK(y)' /\ (q # "bot" => y.kind \in {"repair", "erase"})
        <4>1. HandlerOK(y) /\ (q # "bot" => y.kind \in {"repair", "erase"})
          BY <1>1, <2>2, <2>3, <2>4, <3>1 DEF IInv, Handling
        <4>2. UNCHANGED <<alias, changes, repaired, audit, chat>>
              /\ \A g \in Group : moved[g] # None => moved'[g] = moved[g]
          BY <2>6 DEF history, telegram
        <4> QED BY <4>1, <4>2, HandlerKept
      <3> QED BY <3>1
    <2>10. UNCHANGED tables /\ users \subseteq users' /\ screen' = screen
      BY <2>6 DEF tables, history
    <2> QED BY <2>7, <2>8, <2>9, <2>10, TablesKept DEF IInv
  <1> QED BY <1>3

-----------------------------------------------------------------------------
(* Menus, and what happens in Telegram.                                    *)

(* No handler moves, and the tables stay.                                  *)
LEMMA QuietStep ==
  ASSUME IInv, UNCHANGED <<tables, txn>>,
         users \subseteq users', users' \subseteq User,
         chat' \in [Chat -> {"none", "active", "inactive"}],
         \A g \in Group : chat[g] # "none" => chat'[g] # "none",
         UNCHANGED chat \/ Idle,
         admin' \subseteq Group \X User, member' \subseteq Chat,
         moved' \in [Group -> Group \cup {None}],
         \A g \in Group : moved'[g] \in {None, Supergroup[g]}
         /\ (moved[g] # None => moved'[g] = moved[g]),
         news' \subseteq ChatNews, \A n \in news' : n.kind = "migrated" => moved'[n.chat] # None,
         screen' \in [Screen -> ButtonData \cup {None}], Screens',
         inputs' \in 0..MaxInputs
  PROVE  IInv'
  <1>1. TypeOK'
    BY DEF IInv, TypeOK, tables, Held
  <1>2. Migrations'
    BY DEF IInv, TypeOK, Migrations, tables
  <1>3. Handling'
    <2> SUFFICES ASSUME NEW q \in Actor, txn'[q] # None
                 PROVE  HandlerOK(txn[q])' /\ (q # "bot" => txn'[q].kind \in {"repair", "erase"})
      BY DEF Handling
    <2>1. ASSUME NEW y, y = txn'[q]
          PROVE  HandlerOK(y)' /\ (q # "bot" => y.kind \in {"repair", "erase"})
      <3>1. y = txn[q] /\ HandlerOK(y) /\ (q # "bot" => y.kind \in {"repair", "erase"})
        BY <2>1 DEF IInv, Handling
      <3>2. UNCHANGED <<alias, changes, repaired, audit>>
            /\ (y.kind \in {"move", "create"} => UNCHANGED chat)
        BY <3>1 DEF tables, Idle
      <3> QED BY <3>1, <3>2, HandlerKept
    <2> QED BY <2>1
  <1> QED BY <1>1, <1>2, <1>3, TablesKept DEF IInv

(* A menu shows the row as it is.                                          *)
LEMMA ShowMenuStep ==
  ASSUME IInv, NEW s \in Screen, NEW u \in User, NEW a \in Alias, NEW w \in Chat,
         ShowMenu(s, u, a, w)
  PROVE  IInv'
  <1>1. Idle /\ Live(a) /\ Enter(u, w) /\ UNCHANGED <<alias, audit, telegram, news, txn, history>>
    BY DEF ShowMenu
  <1>2. PICK b \in MoveButtons(u, a, w) \cup TopicButtons(u, a, w) \cup DeleteButtons(u, a, w)
                     \cup OrphanButtons(u, a, w) :
          screen' = [screen EXCEPT ![s] = b]
    <2>1. PICK b \in (IF CouldManage(u, alias[a].chat)
                      THEN MoveButtons(u, a, w) \cup TopicButtons(u, a, w) \cup DeleteButtons(u, a, w)
                      ELSE {})
                     \cup (IF CanRecover(u, a) THEN OrphanButtons(u, a, w) ELSE {}) :
            screen' = [screen EXCEPT ![s] = b]
      BY DEF ShowMenu
    <2> QED BY <2>1
  <1>3. PICK kind \in {"move", "topic", "delete", "orphan"}, target \in Chat \cup {None} :
          /\ b = Button(kind, u, a, target, w)
          /\ kind = "move" => target \in Chat
          /\ kind = "topic" => target \in Group \cup {None}
    <2>1. CASE b \in MoveButtons(u, a, w)
      BY <2>1 DEF MoveButtons, Targets
    <2>2. CASE b \in TopicButtons(u, a, w)
      BY <2>2, ChatKinds DEF TopicButtons
    <2>3. CASE b \in DeleteButtons(u, a, w)
      BY <2>3 DEF DeleteButtons
    <2>4. CASE b \in OrphanButtons(u, a, w) \ MoveButtons(u, a, w)
      BY <2>4 DEF OrphanButtons
    <2> QED BY <1>2, <2>1, <2>2, <2>3, <2>4
  <1>4. alias[a].version \in Nat /\ changes[a] \in Nat /\ changes[a] > 0
    BY <1>1, RowType DEF IInv, Live, TypeOK, Rows, RowOK
  <1>5. b \in ButtonData /\ Shown(b)
    BY <1>3, <1>4 DEF Button, ButtonData, Shown
  <1>6. screen' \in [Screen -> ButtonData \cup {None}]
    BY <1>2, <1>5 DEF IInv, TypeOK
  <1>7. Screens'
    <2> SUFFICES ASSUME NEW r \in Screen, screen'[r] # None
                 PROVE  Shown(screen[r])'
      BY DEF Screens
    <2>1. Shown(screen'[r])
      BY <1>2, <1>5 DEF IInv, TypeOK, Screens
    <2>2. alias' = alias /\ changes' = changes
      BY <1>1 DEF history
    <2> QED BY <2>1, <2>2 DEF Shown, Live, Exists
  <1>8. /\ users \subseteq users' /\ users' \subseteq User
        /\ chat' \in [Chat -> {"none", "active", "inactive"}]
        /\ \A g \in Group : chat'[g] = chat[g]
        /\ inputs' \in 0..MaxInputs
    BY <1>1, Entered DEF IInv
  <1>9. UNCHANGED <<tables, txn>> /\ news' = news /\ admin' = admin /\ member' = member
        /\ moved' = moved
    BY <1>1 DEF tables, history, telegram
  <1>10. /\ admin \subseteq Group \X User /\ member \subseteq Chat
         /\ moved \in [Group -> Group \cup {None}]
         /\ news \subseteq ChatNews
         /\ \A g \in Group : moved[g] \in {None, Supergroup[g]}
         /\ \A n \in news : n.kind = "migrated" => moved[n.chat] # None
    BY DEF IInv, TypeOK, Migrations
  <1> QED BY <1>1, <1>6, <1>7, <1>8, <1>9, <1>10, QuietStep

(* What Telegram's own steps leave alone.                                  *)
LEMMA TelegramStep ==
  ASSUME IInv, UNCHANGED <<alias, chat, users, audit, screen, txn, history>>,
         admin' \subseteq Group \X User, member' \subseteq Chat,
         moved' \in [Group -> Group \cup {None}],
         \A g \in Group : moved'[g] \in {None, Supergroup[g]}
         /\ (moved[g] # None => moved'[g] = moved[g]),
         news' \subseteq ChatNews, \A n \in news' : n.kind = "migrated" => moved'[n.chat] # None,
         Input
  PROVE  IInv'
  <1>1. UNCHANGED <<tables, txn>> /\ users' = users /\ chat' = chat /\ screen' = screen
    BY DEF tables, history
  <1>2. inputs' \in 0..MaxInputs
    BY RoutingAssumption DEF RoutingAssumption, IInv, TypeOK, Input
  <1>3. Screens'
    BY <1>1, TablesKept
  <1>4. users \subseteq User /\ chat \in [Chat -> {"none", "active", "inactive"}]
        /\ screen \in [Screen -> ButtonData \cup {None}]
    BY DEF IInv, TypeOK
  <1> QED BY <1>1, <1>2, <1>3, <1>4, QuietStep

(* The types of Telegram's state, and what Migrations says of it.          *)
LEMMA TelegramTypes ==
  ASSUME IInv
  PROVE  /\ admin \subseteq Group \X User /\ member \subseteq Chat
         /\ moved \in [Group -> Group \cup {None}]
         /\ news \subseteq ChatNews
         /\ \A g \in Group : moved[g] \in {None, Supergroup[g]}
         /\ \A n \in news : n.kind = "migrated" => moved[n.chat] # None
         /\ \A kind \in {"in", "out", "migrated"}, g \in Group, meta \in BOOLEAN :
              News(kind, g, meta) \in ChatNews /\ News(kind, g, meta).kind = kind
              /\ News(kind, g, meta).chat = g
  <1>1. \A kind \in {"in", "out", "migrated"}, g \in Group, meta \in BOOLEAN :
          News(kind, g, meta) \in ChatNews /\ News(kind, g, meta).kind = kind
          /\ News(kind, g, meta).chat = g
    BY DEF News, ChatNews
  <1> QED BY <1>1 DEF IInv, TypeOK, Migrations

(* An administrator is demoted; the bot is removed or added.               *)
LEMMA MembershipStep ==
  ASSUME IInv, NEW g \in Group, BotRemoved(g) \/ BotAdded(g) \/ \E u \in User : LoseAdmin(g, u)
  PROVE  IInv'
  <1>0. FALSE \in BOOLEAN
    BY Zenon
  <1>1. News("in", g, FALSE) \in ChatNews /\ News("in", g, FALSE).kind = "in"
    BY <1>0, TelegramTypes
  <1>2. News("out", g, FALSE) \in ChatNews /\ News("out", g, FALSE).kind = "out"
    BY <1>0, TelegramTypes
  <1>3. CASE BotRemoved(g)
    <2>1. /\ UNCHANGED <<alias, chat, users, audit, screen, txn, history>> /\ Input
          /\ admin' = admin /\ moved' = moved /\ news' \subseteq ChatNews
          /\ \A n \in news' : n.kind = "migrated" => n \in news
      BY <1>1, <1>2, <1>3, TelegramTypes DEF BotRemoved
    <2>2. member' \subseteq Chat
      BY <1>3, TelegramTypes DEF BotRemoved, Chat
    <2> QED BY <2>1, <2>2, TelegramTypes, TelegramStep
  <1>4. CASE BotAdded(g)
    <2>1. /\ UNCHANGED <<alias, chat, users, audit, screen, txn, history>> /\ Input
          /\ admin' = admin /\ moved' = moved /\ news' \subseteq ChatNews
          /\ \A n \in news' : n.kind = "migrated" => n \in news
      BY <1>1, <1>2, <1>4, TelegramTypes DEF BotAdded
    <2>2. member' \subseteq Chat
      BY <1>4, TelegramTypes DEF BotAdded, Chat
    <2> QED BY <2>1, <2>2, TelegramTypes, TelegramStep
  <1>5. CASE \E u \in User : LoseAdmin(g, u)
    <2>1. /\ UNCHANGED <<alias, chat, users, audit, screen, txn, history>> /\ Input
          /\ admin' \subseteq admin /\ moved' = moved /\ member' = member /\ news' = news
      BY <1>5 DEF LoseAdmin
    <2> QED BY <2>1, TelegramTypes, TelegramStep
  <1> QED BY <1>3, <1>4, <1>5

(* A user deletes their account.                                           *)
LEMMA DeactivateStep ==
  ASSUME IInv, NEW u \in User, Deactivate(u)
  PROVE  IInv'
  <1>1. /\ UNCHANGED <<alias, chat, users, audit, screen, txn, history>> /\ Input
        /\ admin' = admin /\ moved' = moved /\ member' \subseteq member /\ news' = news
    BY DEF Deactivate
  <1> QED BY <1>1, TelegramTypes, TelegramStep

(* A group becomes a supergroup.                                           *)
LEMMA MigrateStep ==
  ASSUME IInv, NEW g \in Group, Migrate(g)
  PROVE  IInv'
  <1> DEFINE h == Supergroup[g]
  <1>1. h \in Group /\ h # None
    BY RoutingAssumption DEF RoutingAssumption, Migrate
  <1>2. UNCHANGED <<alias, chat, users, audit, screen, txn, history>> /\ Input
    BY DEF Migrate
  <1>3. /\ moved' = [moved EXCEPT ![g] = h] /\ moved[g] = None /\ member' = (member \ {g}) \cup {h}
        /\ admin' = {IF x[1] = g THEN <<h, x[2]>> ELSE x : x \in admin}
        /\ news' = news \cup {News("migrated", g, FALSE), News("migrated", g, TRUE)}
    BY DEF Migrate
  <1>4. admin' \subseteq Group \X User
    BY <1>1, <1>3, TelegramTypes
  <1>5. moved' \in [Group -> Group \cup {None}] /\ moved'[g] = h
        /\ \A f \in Group \ {g} : moved'[f] = moved[f]
    BY <1>1, <1>3, TelegramTypes
  <1>6. \A f \in Group : moved'[f] \in {None, Supergroup[f]}
        /\ (moved[f] # None => moved'[f] = moved[f])
    BY <1>3, <1>5, TelegramTypes
  <1>7. member' \subseteq Chat
    BY <1>1, <1>3, TelegramTypes, ChatKinds
  <1>8. /\ News("migrated", g, FALSE) \in ChatNews /\ News("migrated", g, FALSE).chat = g
        /\ News("migrated", g, TRUE) \in ChatNews /\ News("migrated", g, TRUE).chat = g
    <2>1. FALSE \in BOOLEAN /\ TRUE \in BOOLEAN
      BY Zenon
    <2> QED BY <2>1, TelegramTypes
  <1>9. news' \subseteq ChatNews
    BY <1>3, <1>8, TelegramTypes
  <1>10. ASSUME NEW n \in news', n.kind = "migrated" PROVE moved'[n.chat] # None
    <2>1. CASE n \in news
      <3>1. n.chat \in Group /\ moved[n.chat] # None
        BY <1>10, <2>1, TelegramTypes DEF ChatNews
      <3> QED BY <3>1, <1>6
    <2>2. CASE n \notin news
      BY <1>1, <1>3, <1>5, <1>8, <2>2
    <2> QED BY <2>1, <2>2
  <1> HIDE DEF h
  <1> QED BY <1>2, <1>4, <1>5, <1>6, <1>7, <1>9, <1>10, TelegramStep

(* The bot hears that it joined or left a group.                           *)
LEMMA MembershipNewsStep ==
  ASSUME IInv, NEW n \in news, HandleNews(n), n.kind # "migrated"
  PROVE  IInv'
  <1>1. /\ Idle /\ Membership(n) /\ news' \subseteq news /\ txn' = txn
        /\ UNCHANGED <<alias, audit, telegram, screen, history, inputs>>
    BY DEF HandleNews
  <1>2. n.chat \in Group /\ n.chat \in Chat
    BY TelegramTypes, ChatKinds DEF ChatNews
  <1>3. users \subseteq users' /\ users' \subseteq User
    BY <1>1 DEF Membership, Invited, IInv, TypeOK
  <1>4. chat' \in [Chat -> {"none", "active", "inactive"}]
        /\ \A g \in Group : chat[g] # "none" => chat'[g] # "none"
    BY <1>1, <1>2, ChatKinds DEF Membership, IInv, TypeOK
  <1>5. UNCHANGED <<tables, txn>> /\ screen' = screen /\ admin' = admin /\ member' = member
        /\ moved' = moved
    BY <1>1 DEF tables, history, telegram
  <1>6. Screens'
    BY <1>3, <1>5, TablesKept
  <1>7. screen \in [Screen -> ButtonData \cup {None}] /\ inputs' \in 0..MaxInputs
    BY <1>1 DEF IInv, TypeOK
  <1> QED BY <1>1, <1>3, <1>4, <1>5, <1>6, <1>7, TelegramTypes, QuietStep

(* The tables a behaviour starts with.                                     *)
LEMMA InitIInv ==
  ASSUME Init
  PROVE  IInv
  <1>1. alias \in [Alias -> Row \cup {None}]
    BY TablesAssumption DEF TablesAssumption, Init
  <1>2. \A a \in Alias : Exists(a) => alias[a] \in Row /\ alias[a].chat \in Chat
        /\ alias[a].owner \in User
    BY <1>1 DEF Exists, Row
  <1>3. /\ home \in [Alias -> Chat \cup {None}] /\ changes \in [Alias -> Nat]
        /\ \A a \in Alias : Exists(a) => home[a] = alias[a].chat /\ changes[a] = 1
    BY <1>2 DEF Init, Exists
  <1>4. TypeOK
    <2>1. inputs \in 0..MaxInputs
      BY RoutingAssumption DEF RoutingAssumption, Init
    <2>2. admin \subseteq Group \X User
      BY RoutingAssumption DEF RoutingAssumption, Init
    <2>3. confirmed \in [seen : Nat, was : Nat]
      BY DEF Init
    <2>4. \A p \in Actor : Held(p) = {}
      BY DEF Init, Held
    <2>5. member \subseteq Chat
      BY DEF Init, Chat
    <2> QED BY <1>1, <1>3, <2>1, <2>2, <2>3, <2>4, <2>5 DEF TypeOK, Init
  <1>5. Migrations
    <2>1. \A g \in Group : Supergroup[g] # None => \A f \in Group : Supergroup[f] # g
      BY RoutingAssumption, ChatKinds DEF RoutingAssumption
    <2> QED BY <2>1, ChatKinds DEF Migrations, Init
  <1>6. Rows
    BY <1>2, <1>3 DEF Rows, RowOK, Init
  <1>7. Screens /\ Handling /\ ConfirmedAsShown
    BY DEF Screens, Handling, ConfirmedAsShown, Init
  <1>8. Trails
    BY <1>3 DEF Trails, AuditChain, Chain, LedTo, Trail, Init
  <1> QED BY <1>4, <1>5, <1>6, <1>7, <1>8 DEF IInv

-----------------------------------------------------------------------------
(* What a write leaves to the others.                                      *)

(* A row keeps its owner and counts its changes; it is never revived.      *)
Evolves(a) ==
  /\ changes[a] <= changes'[a]
  /\ alias'[a] # None => alias[a] # None /\ alias'[a].owner = alias[a].owner
  /\ alias'[a] # None /\ alias'[a].status # "deleted" =>
       /\ alias[a].status # "deleted"
       /\ alias[a].version <= alias'[a].version
       /\ changes'[a] - changes[a] = alias'[a].version - alias[a].version
       /\ alias'[a].version = alias[a].version => alias'[a].chat = alias[a].chat

(* An alias stays where it is, or gets into a chat whose lock is in K or   *)
(* that has not migrated.                                                  *)
Enters(K, a) ==
  alias'[a] # None =>
    \/ alias[a] # None /\ alias'[a].chat = alias[a].chat /\ alias'[a].owner = alias[a].owner
    \/ alias'[a].chat \in K
    \/ alias'[a].chat \in Group => moved[alias'[a].chat] = None

(* An audit row is an old one, or about a user whose lock is in K.         *)
Records(K, e) == (\E f \in audit : f.owner = e.owner /\ Id(f) = Id(e)) \/ e.owner \in K

(* A repaired chat stays inactive, or becomes it under its lock.           *)
Repairs(K, c) ==
  \/ c \in repaired /\ (chat[c] = "inactive" => chat'[c] = "inactive")
  \/ c \in K /\ chat'[c] = "inactive"

(* What every write under the locks K does.                                *)
Writes(K) ==
  /\ \A a \in Alias : changes[a] > 0 => Evolves(a)
  /\ \A a \in Alias : Enters(K, a)
  /\ \A e \in audit' : Records(K, e)
  /\ \A c \in repaired' : Repairs(K, c)

(* What the writes of other actors than the bot do besides.                *)
Gentle ==
  \A a \in Alias :
    /\ alias'[a] # None => alias[a] # None
       /\ (alias'[a].status = "deleted" => alias[a].status = "deleted")
    /\ changes[a] = 0 => changes'[a] = 0

(* A button, or a handler, still knows how far its alias has gone.         *)
LEMMA ShownKept ==
  ASSUME TypeOK, TypeOK', NEW x, Shown(x), x.version \in Nat, x.seen \in Nat, Evolves(x.alias)
  PROVE  Shown(x)'
  <1> DEFINE a == x.alias
  <1>1. a \in Alias /\ changes[a] \in Nat /\ changes'[a] \in Nat /\ changes[a] > 0
        /\ changes'[a] > 0
    BY DEF TypeOK, Shown, Evolves
  <1>2. ASSUME alias'[a] # None, alias'[a].status # "deleted"
        PROVE  /\ x.version <= alias'[a].version
               /\ changes'[a] - x.seen = alias'[a].version - x.version
    <2>1. alias'[a].version \in Nat
      BY <1>1, <1>2 DEF TypeOK, Row
    <2>2. alias[a] # None /\ alias[a].status # "deleted" /\ alias[a].version <= alias'[a].version
          /\ changes'[a] - changes[a] = alias'[a].version - alias[a].version
      BY <1>2 DEF Evolves
    <2>3. alias[a].version \in Nat
      BY <1>1, <2>2 DEF TypeOK, Row
    <2>4. x.version <= alias[a].version /\ changes[a] - x.seen = alias[a].version - x.version
      BY <2>2 DEF Shown, Live, Exists
    <2> QED BY <1>1, <2>1, <2>2, <2>3, <2>4
  <1> QED BY <1>1, <1>2 DEF Shown, Live, Exists

(* A move still knows the chat of the version it expects.                  *)
LEMMA MoveKept ==
  ASSUME TypeOK, TypeOK', NEW t \in Handler, t.kind = "move", MoveOK(t), Shown(t), Evolves(t.alias)
  PROVE  MoveOK(t)'
  <1> DEFINE a == t.alias
  <1>1. a \in Alias /\ t.version \in Nat
    BY DEF Shown, Handler
  <1>2. alias'[a] # None => alias'[a].owner = t.owner
    BY DEF MoveOK, Exists, Evolves
  <1>3. ASSUME alias'[a] # None, alias'[a].status # "deleted", alias'[a].version = t.version
        PROVE  alias'[a].chat = t.old /\ (t.stage # "check" => t.auth = t.old)
    <2>1. alias[a] # None /\ alias[a].status # "deleted" /\ alias[a].version <= alias'[a].version
      BY <1>3 DEF Evolves
    <2>2. alias[a].version \in Nat
      BY <1>1, <2>1 DEF TypeOK, Row
    <2>3. t.version <= alias[a].version
      BY <2>1 DEF Shown, Live, Exists
    <2>4. alias[a].version = t.version
      BY <1>1, <1>3, <2>1, <2>2, <2>3
    <2>5. alias[a].chat = t.old /\ (t.stage # "check" => t.auth = t.old)
      BY <2>1, <2>4 DEF MoveOK, Live, Exists
    <2> QED BY <1>3, <2>1, <2>4, <2>5 DEF Evolves
  <1>4. t.by \in User /\ t.owner \in User /\ (t.stage = "write" => t.owner \in t.plan \cup t.held)
    BY DEF MoveOK
  <1> QED BY <1>2, <1>3, <1>4 DEF MoveOK, Live, Exists

(* A write under the locks K leaves to a handler that holds none of them   *)
(* what it knows.                                                          *)
LEMMA OtherKept ==
  ASSUME IInv, TypeOK', NEW K, Writes(K), moved' = moved, NEW t \in Handler, HandlerOK(t),
         t.held \cap K = {},
         Gentle \/ t.kind \in {"repair", "erase"}
  PROVE  HandlerOK(t)'
  <1>1. ASSUME t.kind \in {"move", "topic", "delete"} PROVE Shown(t)' /\ MoveOK(t)'
    <2>1. Shown(t) /\ MoveOK(t) /\ t.version \in Nat /\ t.seen \in Nat
      BY <1>1 DEF HandlerOK, Handler
    <2>2. Evolves(t.alias)
      BY <2>1 DEF Writes, Shown
    <2>3. Shown(t)'
      BY <2>1, <2>2, ShownKept DEF IInv
    <2>4. t.kind = "move" => MoveOK(t)'
      BY <2>1, <2>2, MoveKept DEF IInv
    <2> QED BY <2>3, <2>4 DEF MoveOK
  <1>2. StatusOK(t)' /\ CreateOK(t)'
    BY DEF HandlerOK, StatusOK, CreateOK, Gentle, Live, Exists
  <1>3. IntoOK(t)'
    BY DEF HandlerOK, IntoOK, Writes, Repairs
  <1>4. RepairOK(t)'
    <2> SUFFICES ASSUME t.kind = "repair"
                 PROVE  /\ t.old \in Group /\ moved[t.old] # None /\ t.target = moved[t.old]
                        /\ t.stage # "check"
                        /\ t.stage = "lock" => t.plan = {t.old} \/ (t.plan = {} /\ t.old \in t.held)
                        /\ t.stage = "write" => t.old \in t.held
                           /\ OwnerLocks(t.old)' \subseteq t.plan \cup t.held
      BY DEF RepairOK
    <2>1. RepairOK(t)
      BY DEF HandlerOK
    <2>2. ASSUME t.stage = "write" PROVE OwnerLocks(t.old)' \subseteq OwnerLocks(t.old)
      <3>1. ASSUME NEW a \in Alias, alias'[a] # None, alias'[a].chat = t.old
            PROVE  alias[a] # None /\ alias[a].chat = t.old /\ alias[a].owner = alias'[a].owner
        BY <2>1, <2>2, <3>1 DEF RepairOK, Writes, Enters
      <3> QED BY <3>1 DEF OwnerLocks, Exists
    <2> QED BY <2>1, <2>2 DEF RepairOK
  <1>5. EraseOK(t)'
    BY DEF HandlerOK, EraseOK, Writes, Records
  <1> QED BY <1>1, <1>2, <1>3, <1>4, <1>5 DEF HandlerOK, MoveOK

(* The types of the tables after a write.                                  *)
TablesTyped ==
  /\ alias \in [Alias -> Row \cup {None}]
  /\ chat \in [Chat -> {"none", "active", "inactive"}]
  /\ users \subseteq User /\ audit \subseteq AuditRow
  /\ home \in [Alias -> Chat \cup {None}] /\ changes \in [Alias -> Nat]
  /\ confirmed \in [seen : Nat, was : Nat] /\ repaired \subseteq Group

(* The write that ends a handler.                                          *)
LEMMA WriteStep ==
  ASSUME IInv, NEW p \in Actor, End(p), Writes(Held(p)), Gentle \/ p = "bot",
         UNCHANGED <<telegram, news, screen, inputs>>,
         TablesTyped', Rows', Trails', ConfirmedAsShown',
         \A g \in Group : Supergroup[g] # None => chat'[g] # "none",
         \A g \in repaired' : moved[g] # None
  PROVE  IInv'
  <1>1. /\ txn' \in [Actor -> Handler \cup {None}] /\ txn'[p] = None
        /\ \A q \in Actor \ {p} : txn'[q] = txn[q]
        /\ Exclusive'
    BY StartTypes DEF End, IInv
  <1>2. moved' = moved /\ admin' = admin /\ member' = member
    BY DEF telegram
  <1>3. TypeOK'
    BY <1>1, <1>2 DEF IInv, TypeOK, TablesTyped, Exclusive
  <1>4. Migrations'
    BY <1>2 DEF IInv, Migrations
  <1>5. Screens'
    <2> SUFFICES ASSUME NEW s \in Screen, screen[s] # None PROVE Shown(screen[s])'
      BY DEF Screens
    <2>1. ASSUME NEW b, b = screen[s] PROVE Shown(b)'
      <3>1. b \in ButtonData /\ Shown(b)
        BY <2>1 DEF IInv, TypeOK, Screens
      <3>2. b.version \in Nat /\ b.seen \in Nat /\ Evolves(b.alias)
        BY <3>1 DEF ButtonData, Shown, Writes
      <3> QED BY <1>3, <3>1, <3>2, ShownKept DEF IInv
    <2> QED BY <2>1
  <1>6. Handling'
    <2> SUFFICES ASSUME NEW q \in Actor, txn'[q] # None
                 PROVE  HandlerOK(txn[q])' /\ (q # "bot" => txn'[q].kind \in {"repair", "erase"})
      BY DEF Handling
    <2>1. ASSUME NEW t, t = txn'[q]
          PROVE  HandlerOK(t)' /\ (q # "bot" => t.kind \in {"repair", "erase"})
      <3>1. q # p /\ t = txn[q] /\ txn[q] # None
        BY <1>1, <2>1
      <3>2. t \in Handler /\ HandlerOK(t) /\ Held(q) = t.held
            /\ (q # "bot" => t.kind \in {"repair", "erase"})
        BY <3>1, UnderWay
      <3>3. t.held \cap Held(p) = {}
        BY <3>1, <3>2 DEF IInv, TypeOK
      <3>4. Gentle \/ t.kind \in {"repair", "erase"}
        BY <3>1, <3>2
      <3>5. ASSUME NEW K, K = Held(p) PROVE HandlerOK(t)'
        BY <1>2, <1>3, <3>2, <3>3, <3>4, <3>5, OtherKept
      <3> QED BY <3>2, <3>5
    <2> QED BY <2>1
  <1> QED BY <1>3, <1>4, <1>5, <1>6 DEF IInv

-----------------------------------------------------------------------------
(* The chain of audit rows.                                                *)

(* The same row, but for its actor.                                        *)
SameLink(e, x) == x.nr = e.nr /\ x.old = e.old /\ x.new = e.new /\ x.auth = e.auth

(* An audit row's number.                                                  *)
LEMMA TrailNumbers ==
  ASSUME IInv, NEW a \in Alias
  PROVE  changes[a] \in Nat /\ \A e \in Trail(a) : e \in audit /\ e \in AuditRow /\ e.nr \in Nat
         /\ e.nr <= changes[a] /\ e.nr > 0
  <1>1. \A e \in Trail(a) : e \in audit /\ e.alias = a /\ e \in AuditRow /\ Recorded(e)
    BY DEF IInv, TypeOK, Trails, Trail
  <1>2. \A e \in Trail(a) : e.nr \in Nat
    BY <1>1 DEF AuditRow
  <1> QED BY <1>1, <1>2 DEF IInv, TypeOK, Recorded

(* An alias that stays where it is keeps its chain.                        *)
LEMMA ChainKept ==
  ASSUME IInv, NEW a \in Alias, alias[a] # None, alias'[a].chat = alias[a].chat, home'[a] = home[a],
         changes'[a] \in Nat, changes[a] <= changes'[a],
         \A x \in Trail(a)' : \E e \in Trail(a) : SameLink(e, x),
         \A e \in Trail(a) : \E x \in Trail(a)' : SameLink(e, x),
         \A x, y \in Trail(a)' : x.nr = y.nr => x = y
  PROVE  Chain(a)'
  <1>1. Chain(a)
    BY DEF IInv, Trails, AuditChain, Exists
  <1>2. changes[a] \in Nat /\ \A e \in Trail(a) : e.nr \in Nat /\ e.nr <= changes[a]
    BY TrailNumbers
  <1>3. ASSUME NEW n, NEW c, LedTo(a, n, c) PROVE LedTo(a, n, c)'
    <2>1. CASE c = home[a] /\ \A e \in Trail(a) : e.nr >= n
      BY <2>1 DEF LedTo, SameLink
    <2>2. CASE \E f \in Trail(a) : f.nr < n /\ f.new = c
               /\ \A e \in Trail(a) : e.nr <= f.nr \/ e.nr >= n
      <3>1. PICK f \in Trail(a) : f.nr < n /\ f.new = c
                 /\ \A e \in Trail(a) : e.nr <= f.nr \/ e.nr >= n
        BY <2>2
      <3>2. PICK g \in Trail(a)' : SameLink(f, g)
        OBVIOUS
      <3>3. g.nr < n /\ g.new = c /\ \A x \in Trail(a)' : x.nr <= g.nr \/ x.nr >= n
        BY <3>1, <3>2 DEF SameLink
      <3> QED BY <3>3 DEF LedTo
    <2> QED BY <1>3, <2>1, <2>2 DEF LedTo
  <1>4. \A x \in Trail(a)' : LedTo(a, x.nr, x.old)' /\ x.auth = x.old
    <2> SUFFICES ASSUME NEW x \in Trail(a)' PROVE LedTo(a, x.nr, x.old)' /\ x.auth = x.old
      OBVIOUS
    <2>1. PICK e \in Trail(a) : SameLink(e, x)
      OBVIOUS
    <2>2. LedTo(a, e.nr, e.old) /\ e.auth = e.old
      BY <1>1 DEF Chain
    <2>3. LedTo(a, x.nr, x.old)
      BY <2>1, <2>2 DEF SameLink
    <2> QED BY <1>3, <2>1, <2>2, <2>3 DEF SameLink
  <1>5. ASSUME NEW n, n = changes'[a] + 1, NEW c, c = alias[a].chat PROVE LedTo(a, n, c)
    <2>1. LedTo(a, changes[a] + 1, alias[a].chat)
      BY <1>1 DEF Chain
    <2>2. CASE c = home[a] /\ \A e \in Trail(a) : e.nr >= changes[a] + 1
      <3>1. \A e \in Trail(a) : FALSE
        BY <1>2, <2>2
      <3> QED BY <2>2, <3>1 DEF LedTo
    <2>3. CASE \E f \in Trail(a) : f.nr < changes[a] + 1 /\ f.new = c
                                   /\ \A e \in Trail(a) : e.nr <= f.nr \/ e.nr >= changes[a] + 1
      <3>1. PICK f \in Trail(a) : f.nr < changes[a] + 1 /\ f.new = c
                                  /\ \A e \in Trail(a) : e.nr <= f.nr \/ e.nr >= changes[a] + 1
        BY <2>3
      <3>2. f.nr < n /\ \A e \in Trail(a) : e.nr <= f.nr \/ e.nr >= n
        BY <1>2, <1>5, <3>1
      <3> QED BY <3>1, <3>2 DEF LedTo
    <2> QED BY <1>5, <2>1, <2>2, <2>3 DEF LedTo
  <1>6. LedTo(a, changes[a] + 1, alias[a].chat)'
    <2>1. \A n, c : n = changes'[a] + 1 /\ c = alias'[a].chat => LedTo(a, n, c)'
      BY <1>3, <1>5
    <2> QED BY <2>1
  <1> QED BY <1>4, <1>6 DEF Chain

(* An alias that moves from its chat to another adds the link.             *)
LEMMA ChainGrows ==
  ASSUME IInv, NEW a \in Alias, alias[a] # None, home'[a] = home[a], changes'[a] = changes[a] + 1,
         NEW ev, Trail(a)' = Trail(a) \cup {ev}, ev.nr = changes[a] + 1,
         ev.old = alias[a].chat, ev.auth = ev.old, ev.new = alias'[a].chat
  PROVE  Chain(a)'
  <1>1. Chain(a)
    BY DEF IInv, Trails, AuditChain, Exists
  <1>2. changes[a] \in Nat /\ \A e \in Trail(a) : e.nr \in Nat /\ e.nr <= changes[a]
    BY TrailNumbers
  <1>3. ASSUME NEW n \in Nat, n <= changes[a] + 1, NEW c, LedTo(a, n, c) PROVE LedTo(a, n, c)'
    <2>1. CASE c = home[a] /\ \A e \in Trail(a) : e.nr >= n
      BY <1>2, <1>3, <2>1 DEF LedTo
    <2>2. CASE \E f \in Trail(a) : f.nr < n /\ f.new = c
               /\ \A e \in Trail(a) : e.nr <= f.nr \/ e.nr >= n
      BY <1>2, <1>3, <2>2 DEF LedTo
    <2> QED BY <1>3, <2>1, <2>2 DEF LedTo
  <1>4. \A x \in Trail(a)' : LedTo(a, x.nr, x.old)' /\ x.auth = x.old
    <2> SUFFICES ASSUME NEW x \in Trail(a)' PROVE LedTo(a, x.nr, x.old)' /\ x.auth = x.old
      OBVIOUS
    <2>1. x.nr \in Nat /\ x.nr <= changes[a] + 1
      BY <1>2
    <2>2. LedTo(a, x.nr, x.old) /\ x.auth = x.old
      BY <1>1 DEF Chain
    <2> QED BY <1>3, <2>1, <2>2
  <1>5. \A x, y \in Trail(a)' : x.nr = y.nr => x = y
    BY <1>1, <1>2 DEF Chain
  <1>6. LedTo(a, changes[a] + 1, alias[a].chat)'
    <2>1. ASSUME NEW n, n = changes'[a] + 1, NEW c, c = alias'[a].chat PROVE LedTo(a, n, c)'
      <3>1. ev \in Trail(a)' /\ ev.nr < n /\ ev.new = c
        BY <1>2, <2>1
      <3>2. \A e \in Trail(a)' : e.nr <= ev.nr
        BY <1>2
      <3> QED BY <3>1, <3>2 DEF LedTo
    <2> QED BY <2>1
  <1> QED BY <1>4, <1>5, <1>6 DEF Chain

(* The rows of an alias that a write does not touch.                       *)
LEMMA ChainUntouched ==
  ASSUME IInv, NEW a \in Alias, alias[a] # None, alias'[a].chat = alias[a].chat, home'[a] = home[a],
         changes'[a] \in Nat, changes[a] <= changes'[a], Trail(a)' = Trail(a)
  PROVE  Chain(a)'
  <1>1. \A e \in Trail(a) : SameLink(e, e)
    BY DEF SameLink
  <1>2. \A x, y \in Trail(a) : x.nr = y.nr => x = y
    BY DEF IInv, Trails, AuditChain, Exists, Chain
  <1> QED BY <1>1, <1>2, ChainKept

-----------------------------------------------------------------------------
(* The writes.                                                             *)

(* The types of the tables, and that repaired chats stay as they are.      *)
LEMMA TablesBefore ==
  ASSUME IInv
  PROVE  /\ TablesTyped /\ Rows /\ Trails /\ ConfirmedAsShown
         /\ \A g \in Group : Supergroup[g] # None => chat[g] # "none"
         /\ \A g \in repaired : moved[g] # None
  BY DEF IInv, TypeOK, TablesTyped, Migrations

(* Nothing is written.                                                     *)
LEMMA RefusedStep ==
  ASSUME IInv, NEW p \in Actor, End(p),
         UNCHANGED <<alias, chat, users, audit, telegram, news, screen, history, inputs>>
  PROVE  IInv'
  <1>1. Start(p, None) /\ news' \subseteq news /\ inputs' \in 0..MaxInputs
        /\ UNCHANGED <<alias, chat, users, audit, telegram, screen, history>>
    BY DEF End, IInv, TypeOK
  <1> QED BY <1>1, HandlerGoesOn

(* The bot changes one alias, in place or under the lock of its new chat.  *)
LEMMA ChangeStep ==
  ASSUME IInv, End("bot"), NEW a \in Alias, Exists(a), NEW row \in Row, Change(a, row),
         row.owner = alias[a].owner, row.chat \notin repaired,
         row.chat = alias[a].chat \/ row.chat \in Held("bot"),
         row.status # "deleted" => alias[a].status # "deleted"
         /\ row.version = alias[a].version + 1,
         UNCHANGED <<chat, users, telegram, news, screen, home, repaired, inputs>>,
         audit' \subseteq AuditRow, \A e \in audit' : Records(Held("bot"), e), Trails', ConfirmedAsShown',
         confirmed' \in [seen : Nat, was : Nat]
  PROVE  IInv'
  <1>1. /\ alias'[a] = row /\ changes'[a] = changes[a] + 1
        /\ \A b \in Alias \ {a} : alias'[b] = alias[b] /\ changes'[b] = changes[b]
        /\ alias' \in [Alias -> Row \cup {None}] /\ changes' \in [Alias -> Nat]
    BY DEF IInv, TypeOK, Change
  <1>2. alias[a] \in Row /\ changes[a] \in Nat /\ row # None /\ alias[a].version \in Nat
    BY RowType, NotNone DEF IInv, TypeOK
  <1>3. TablesTyped'
    BY <1>1, TablesBefore DEF TablesTyped
  <1>4. Rows'
    <2> SUFFICES ASSUME NEW b \in Alias, alias'[b] # None
                 PROVE  changes'[b] > 0 /\ alias'[b].owner \in users
                        /\ alias'[b].chat \notin repaired
      BY DEF Rows, RowOK, Exists
    <2>1. CASE b = a
      <3>1. RowOK(a)
        BY TablesBefore DEF Rows
      <3> QED BY <1>1, <1>2, <2>1, <3>1 DEF RowOK, Exists
    <2>2. CASE b # a
      BY <1>1, <2>2, TablesBefore DEF Rows, RowOK, Exists
    <2> QED BY <2>1, <2>2
  <1>5. Writes(Held("bot"))
    <2>1. ASSUME NEW b \in Alias PROVE Evolves(b) /\ Enters(Held("bot"), b)
      <3>1. CASE b = a
        BY <1>1, <1>2, <3>1 DEF Evolves, Enters, Exists
      <3>2. CASE b # a
        <4>1. changes[b] \in Nat /\ (alias[b] # None => alias[b].version \in Nat)
          BY RowType DEF IInv, TypeOK, Exists
        <4> QED BY <1>1, <3>2, <4>1 DEF Evolves, Enters
      <3> QED BY <3>1, <3>2
    <2> QED BY <2>1 DEF Writes, Repairs
  <1>6. "bot" \in Actor
    BY DEF Actor
  <1> QED BY <1>3, <1>4, <1>5, <1>6, WriteStep, TablesBefore

(* A write that adds no audit row.                                         *)
LEMMA SameAudit ==
  ASSUME IInv, NEW K, audit' = audit, users' = users, home' = home, TablesTyped',
         \A b \in Alias : /\ alias'[b] # None => alias[b] # None /\ alias'[b].owner = alias[b].owner
                                                                /\ alias'[b].chat = alias[b].chat
                          /\ changes[b] <= changes'[b]
  PROVE  audit' \subseteq AuditRow /\ (\A e \in audit' : Records(K, e)) /\ Trails'
  <1>1. audit' \subseteq AuditRow /\ \A e \in audit' : Records(K, e)
    BY TablesBefore DEF TablesTyped, Records
  <1>2. \A e \in audit' : Recorded(e)'
    <2> SUFFICES ASSUME NEW e \in audit PROVE Recorded(e)'
      OBVIOUS
    <2>1. e.alias \in Alias /\ e.nr \in Nat /\ Recorded(e)
      BY TablesBefore DEF TablesTyped, AuditRow, Trails
    <2>2. changes[e.alias] \in Nat /\ changes'[e.alias] \in Nat
          /\ changes[e.alias] <= changes'[e.alias]
      BY <2>1, TablesBefore DEF TablesTyped
    <2> QED BY <2>1, <2>2 DEF Recorded, Exists
  <1>3. AuditChain'
    <2> SUFFICES ASSUME NEW a \in Alias, alias'[a] # None PROVE Chain(a)'
      BY DEF AuditChain, Exists
    <2>1. Trail(a)' = Trail(a)
      BY DEF Trail
    <2>2. changes'[a] \in Nat
      BY DEF TablesTyped
    <2> QED BY <2>1, <2>2, ChainUntouched
  <1> QED BY <1>1, <1>2, <1>3 DEF Trails

(* The confirmation is applied to the routing state it was shown for.      *)
LEMMA AppliedAsShown ==
  ASSUME IInv, NEW t \in Handler, Shown(t), Cas(t.alias, t.version), Applied(t)
  PROVE  /\ ConfirmedAsShown' /\ confirmed' \in [seen : Nat, was : Nat]
         /\ t.alias \in Alias /\ Live(t.alias) /\ Exists(t.alias)
         /\ alias[t.alias].version = t.version
  <1>1. t.alias \in Alias /\ Live(t.alias) /\ Exists(t.alias) /\ alias[t.alias].version = t.version
    BY DEF Shown, Cas, Live
  <1>2. t.version \in Nat /\ t.seen \in Nat /\ changes[t.alias] \in Nat
    BY <1>1 DEF Handler, IInv, TypeOK
  <1>3. changes[t.alias] = t.seen
    BY <1>1, <1>2 DEF Shown
  <1> QED BY <1>1, <1>2, <1>3 DEF Applied, ConfirmedAsShown

(* A row with one other field.                                             *)
LEMMA RowFields ==
  ASSUME NEW r \in Row
  PROVE  /\ \A c \in Chat : \A x : x = [r EXCEPT !.chat = c] =>
              /\ x \in Row /\ x.chat = c /\ x.owner = r.owner /\ x.status = r.status
              /\ x.version = r.version /\ x.thread = r.thread
         /\ \A v \in Nat : \A x : x = [r EXCEPT !.version = v] =>
              /\ x \in Row /\ x.version = v /\ x.owner = r.owner /\ x.status = r.status
              /\ x.chat = r.chat /\ x.thread = r.thread
         /\ \A th \in Group \cup {None} : \A x : x = [r EXCEPT !.thread = th] =>
              /\ x \in Row /\ x.thread = th /\ x.owner = r.owner /\ x.status = r.status
              /\ x.chat = r.chat /\ x.version = r.version
         /\ r.version + 1 \in Nat
  <1>1. \A c \in Chat : \A x : x = [r EXCEPT !.chat = c] =>
          /\ x \in Row /\ x.chat = c /\ x.owner = r.owner /\ x.status = r.status
          /\ x.version = r.version /\ x.thread = r.thread
    BY DEF Row
  <1>2. \A v \in Nat : \A x : x = [r EXCEPT !.version = v] =>
          /\ x \in Row /\ x.version = v /\ x.owner = r.owner /\ x.status = r.status
          /\ x.chat = r.chat /\ x.thread = r.thread
    BY DEF Row
  <1>3. \A th \in Group \cup {None} : \A x : x = [r EXCEPT !.thread = th] =>
          /\ x \in Row /\ x.thread = th /\ x.owner = r.owner /\ x.status = r.status
          /\ x.chat = r.chat /\ x.version = r.version
    BY DEF Row
  <1>4. r.version + 1 \in Nat
    BY DEF Row
  <1> QED BY <1>1, <1>2, <1>3, <1>4

(* A row that is re-keyed.                                                 *)
LEMMA ReroutedRow ==
  ASSUME NEW r \in Row, NEW c \in Chat, NEW n, n = Rerouted(r, c)
  PROVE  /\ n \in Row /\ n.chat = c /\ n.owner = r.owner /\ n.status = r.status
         /\ n.version = r.version + 1 /\ n.thread = r.thread
  <1>1. PICK x : x = [r EXCEPT !.chat = c]
    OBVIOUS
  <1>2. /\ x \in Row /\ x.chat = c /\ x.owner = r.owner /\ x.status = r.status
        /\ x.version = r.version /\ x.thread = r.thread
    BY <1>1, RowFields
  <1>3. n = [x EXCEPT !.version = x.version + 1]
    BY <1>1 DEF Rerouted
  <1> QED BY <1>2, <1>3, RowFields

(* The rows that the three confirmed changes write.                        *)
LEMMA NewRows ==
  ASSUME NEW r \in Row
  PROVE  /\ \A c \in Chat : /\ [Rerouted(r, c) EXCEPT !.thread = None] \in Row
                            /\ [Rerouted(r, c) EXCEPT !.thread = None].owner = r.owner
                            /\ [Rerouted(r, c) EXCEPT !.thread = None].chat = c
                            /\ [Rerouted(r, c) EXCEPT !.thread = None].status = r.status
                            /\ [Rerouted(r, c) EXCEPT !.thread = None].version = r.version + 1
         /\ \A th \in Group \cup {None} :
              /\ SetTopic(r, th) \in Row /\ SetTopic(r, th).owner = r.owner
              /\ SetTopic(r, th).chat = r.chat
              /\ SetTopic(r, th).status = r.status /\ SetTopic(r, th).version = r.version + 1
         /\ Tombstone(r) \in Row /\ Tombstone(r).owner = r.owner /\ Tombstone(r).chat = r.chat
         /\ Tombstone(r).status = "deleted"
  <1>1. ASSUME NEW c \in Chat
        PROVE  /\ [Rerouted(r, c) EXCEPT !.thread = None] \in Row
               /\ [Rerouted(r, c) EXCEPT !.thread = None].owner = r.owner
               /\ [Rerouted(r, c) EXCEPT !.thread = None].chat = c
               /\ [Rerouted(r, c) EXCEPT !.thread = None].status = r.status
               /\ [Rerouted(r, c) EXCEPT !.thread = None].version = r.version + 1
    <2>1. PICK n : n = Rerouted(r, c)
      OBVIOUS
    <2>2. n \in Row /\ n.chat = c /\ n.owner = r.owner /\ n.status = r.status
          /\ n.version = r.version + 1
      BY <2>1, ReroutedRow
    <2> QED BY <2>1, <2>2, RowFields
  <1>2. ASSUME NEW th \in Group \cup {None}
        PROVE  /\ SetTopic(r, th) \in Row /\ SetTopic(r, th).owner = r.owner
               /\ SetTopic(r, th).chat = r.chat
               /\ SetTopic(r, th).status = r.status /\ SetTopic(r, th).version = r.version + 1
    <2>1. PICK n : n = [r EXCEPT !.thread = th]
      OBVIOUS
    <2>2. n \in Row /\ n.chat = r.chat /\ n.owner = r.owner /\ n.status = r.status
          /\ n.version = r.version
      BY <2>1, RowFields
    <2>3. SetTopic(r, th) = [n EXCEPT !.version = n.version + 1]
      BY <2>1 DEF SetTopic
    <2> QED BY <2>2, <2>3, RowFields
  <1>3. /\ Tombstone(r) \in Row /\ Tombstone(r).owner = r.owner /\ Tombstone(r).chat = r.chat
        /\ Tombstone(r).status = "deleted"
    BY DEF Row, Tombstone
  <1> QED BY <1>1, <1>2, <1>3

(* moveAliasWithCas.                                                       *)
LEMMA WriteMoveStep ==
  ASSUME IInv, WriteMove
  PROVE  IInv'
  <1> DEFINE t == txn["bot"]
  <1> DEFINE a == t.alias
  <1>1. "bot" \in Actor /\ t # None /\ t.kind = "move" /\ t.stage = "write" /\ t.plan = {}
        /\ End("bot")
    BY DEF Actor, WriteMove, At
  <1>2. t \in Handler /\ HandlerOK(t) /\ Held("bot") = t.held
    BY <1>1, UnderWay
  <1>3. CASE ~Cas(a, t.version)
    BY <1>1, <1>3, RefusedStep DEF WriteMove, history
  <1>4. CASE Cas(a, t.version)
    <2> DEFINE row == [Rerouted(alias[a], t.target) EXCEPT !.thread = None]
    <2>1. /\ Change(a, row) /\ Applied(t)
          /\ audit' = audit \cup {Event(a, t.by, t.path, t.old, t.target, t.auth)}
          /\ UNCHANGED <<chat, users, telegram, news, screen, home, repaired, inputs>>
      BY <1>4 DEF WriteMove
    <2>2. Shown(t) /\ MoveOK(t) /\ IntoOK(t)
      BY <1>1, <1>2 DEF HandlerOK
    <2>3. /\ t.by \in User /\ t.owner \in t.held /\ t.target \in Chat /\ t.target \in t.held
          /\ t.target \notin repaired
      BY <1>1, <2>2 DEF MoveOK, IntoOK, Shown
    <2>4. /\ ConfirmedAsShown' /\ confirmed' \in [seen : Nat, was : Nat]
          /\ a \in Alias /\ Live(a) /\ Exists(a) /\ alias[a].version = t.version
      BY <1>2, <1>4, <2>1, <2>2, AppliedAsShown
    <2>5. alias[a] \in Row /\ alias[a].owner = t.owner /\ alias[a].chat = t.old /\ t.auth = t.old
          /\ alias[a].owner \in User /\ alias[a].chat \in Chat /\ changes[a] \in Nat
      BY <1>1, <2>2, <2>4, RowType DEF MoveOK, IInv, TypeOK
    <2>6. /\ row \in Row /\ row.owner = alias[a].owner /\ row.chat = t.target
          /\ row.status = alias[a].status /\ row.version = alias[a].version + 1
      BY <2>3, <2>5, NewRows
    <2>7. PICK ev : ev = Event(a, t.by, t.path, t.old, t.target, t.auth)
      OBVIOUS
    <2>8. /\ ev \in AuditRow /\ ev.alias = a /\ ev.owner = alias[a].owner /\ ev.nr = changes[a] + 1
          /\ ev.old = t.old /\ ev.auth = t.auth /\ ev.new = t.target
      <3>1. t.path \in {"none", "admin", "orphan"}
        BY <1>2 DEF Handler
      <3> QED BY <2>3, <2>4, <2>5, <2>7, <3>1 DEF Event, AuditRow
    <2>9. audit' = audit \cup {ev}
      BY <2>1, <2>7
    <2>10. /\ alias'[a] = row /\ changes'[a] = changes[a] + 1
           /\ \A b \in Alias \ {a} : alias'[b] = alias[b] /\ changes'[b] = changes[b]
      BY <2>1, <2>4 DEF IInv, TypeOK, Change
    <2> HIDE DEF row, t, a
    <2>11. audit' \subseteq AuditRow /\ \A e \in audit' : Records(Held("bot"), e)
      BY <1>2, <2>3, <2>5, <2>8, <2>9, TablesBefore DEF TablesTyped, Records
    <2>12. \A e \in audit' : Recorded(e)'
      <3> SUFFICES ASSUME NEW e \in audit' PROVE Recorded(e)'
        OBVIOUS
      <3>1. CASE e = ev
        <4>1. alias[a].owner \in users
          BY <2>4, TablesBefore DEF Rows, RowOK
        <4>2. users' = users
          BY <2>1
        <4> QED BY <2>5, <2>6, <2>8, <2>10, <3>1, <4>1, <4>2 DEF Recorded, Exists
      <3>2. CASE e # ev
        <4>1. e \in audit /\ Recorded(e) /\ e.alias \in Alias /\ e.nr \in Nat /\ users' = users
          BY <2>1, <2>9, <3>2, TablesBefore DEF TablesTyped, AuditRow, Trails
        <4>2. CASE e.alias = a
          BY <2>4, <2>5, <2>6, <2>10, <4>1, <4>2 DEF Recorded, Exists
        <4>3. CASE e.alias # a
          BY <2>10, <4>1, <4>3 DEF Recorded, Exists
        <4> QED BY <4>2, <4>3
      <3> QED BY <3>1, <3>2
    <2>13. AuditChain'
      <3> SUFFICES ASSUME NEW b \in Alias, alias'[b] # None PROVE Chain(b)'
        BY DEF AuditChain, Exists
      <3>0. home' = home
        BY <2>1
      <3>1. CASE b = a
        <4>1. Trail(b)' = Trail(b) \cup {ev}
          BY <2>8, <2>9, <3>1 DEF Trail
        <4>2. /\ alias[b] # None /\ changes'[b] = changes[b] + 1 /\ ev.nr = changes[b] + 1
              /\ ev.old = alias[b].chat /\ ev.auth = ev.old /\ ev.new = alias'[b].chat
          BY <2>4, <2>5, <2>6, <2>8, <2>10, <3>1 DEF Exists
        <4> QED BY <3>0, <4>1, <4>2, ChainGrows
      <3>2. CASE b # a
        <4>1. Trail(b)' = Trail(b)
          BY <2>8, <2>9, <3>2 DEF Trail
        <4>2. alias'[b] = alias[b] /\ changes'[b] = changes[b] /\ changes[b] \in Nat
          BY <2>10, <3>2 DEF IInv, TypeOK
        <4> QED BY <3>0, <4>1, <4>2, ChainUntouched
      <3> QED BY <3>1, <3>2
    <2>14. Trails'
      BY <2>12, <2>13 DEF Trails
    <2>15. ASSUME NEW r, r = row, NEW c, c = a PROVE IInv'
      <3>1. /\ r \in Row /\ c \in Alias /\ Exists(c) /\ r.owner = alias[c].owner
            /\ r.chat \notin repaired
            /\ r.chat \in Held("bot") /\ r.version = alias[c].version + 1
            /\ alias[c].status # "deleted"
        BY <1>2, <2>3, <2>4, <2>6, <2>15 DEF Live
      <3>2. Change(c, r)
        BY <2>1, <2>15
      <3> QED BY <1>1, <2>1, <2>4, <2>11, <2>14, <3>1, <3>2, ChangeStep
    <2> QED BY <2>15
  <1> QED BY <1>3, <1>4

(* A topic is set or cleared; a tombstone is written.                      *)
LEMMA WriteTopicOrDeleteStep ==
  ASSUME IInv, WriteTopic \/ WriteDelete
  PROVE  IInv'
  <1> DEFINE t == txn["bot"]
  <1> DEFINE a == t.alias
  <1>1. "bot" \in Actor /\ t # None /\ t.kind \in {"topic", "delete"} /\ End("bot")
    BY DEF Actor, WriteTopic, WriteDelete, At
  <1>2. t \in Handler /\ HandlerOK(t) /\ Shown(t)
    BY <1>1, UnderWay DEF HandlerOK
  <1>3. UNCHANGED <<chat, users, audit, telegram, news, screen, home, repaired, inputs>>
    BY DEF WriteTopic, WriteDelete
  <1>4. CASE ~Cas(a, t.version)
    <2>1. UNCHANGED <<alias, changes, confirmed>>
      BY <1>4 DEF WriteTopic, WriteDelete
    <2> QED BY <1>1, <1>3, <2>1, RefusedStep DEF history
  <1>5. CASE Cas(a, t.version)
    <2>1. Applied(t)
      BY <1>5 DEF WriteTopic, WriteDelete
    <2>2. /\ ConfirmedAsShown' /\ confirmed' \in [seen : Nat, was : Nat]
          /\ a \in Alias /\ Live(a) /\ Exists(a)
      BY <1>2, <1>5, <2>1, AppliedAsShown
    <2>3. alias[a] \in Row /\ changes[a] \in Nat
      BY <2>2, RowType DEF IInv, TypeOK
    <2>4. PICK r : /\ Change(a, r) /\ r \in Row /\ r.owner = alias[a].owner /\ r.chat = alias[a].chat
                   /\ r.status # "deleted" => r.version = alias[a].version + 1
      <3>1. CASE WriteTopic
        <4>1. t.kind = "topic" /\ Change(a, SetTopic(alias[a], t.target))
          BY <1>5, <3>1 DEF WriteTopic, At
        <4>2. t.target \in Group \cup {None}
          BY <1>2, <4>1 DEF Shown
        <4> QED BY <2>3, <4>1, <4>2, NewRows
      <3>2. CASE WriteDelete
        <4>1. Change(a, Tombstone(alias[a]))
          BY <1>5, <3>2 DEF WriteDelete
        <4> QED BY <2>3, <4>1, NewRows
      <3> QED BY <3>1, <3>2
    <2>5. /\ alias'[a] = r /\ changes'[a] = changes[a] + 1
          /\ \A b \in Alias \ {a} : alias'[b] = alias[b] /\ changes'[b] = changes[b]
          /\ alias' \in [Alias -> Row \cup {None}] /\ changes' \in [Alias -> Nat]
      BY <2>2, <2>3, <2>4 DEF IInv, TypeOK, Change
    <2> HIDE DEF a, t
    <2>6. \A b \in Alias : /\ alias'[b] # None => alias[b] # None /\ alias'[b].owner = alias[b].owner
                                                                 /\ alias'[b].chat = alias[b].chat
                           /\ changes[b] <= changes'[b]
      <3> SUFFICES ASSUME NEW b \in Alias
                   PROVE  /\ alias'[b] # None => alias[b] # None /\ alias'[b].owner = alias[b].owner
                                                                /\ alias'[b].chat = alias[b].chat
                          /\ changes[b] <= changes'[b]
        OBVIOUS
      <3>1. changes[b] \in Nat
        BY DEF IInv, TypeOK
      <3>2. CASE b = a
        BY <2>2, <2>4, <2>5, <3>1, <3>2 DEF Exists
      <3>3. CASE b # a
        BY <2>5, <3>1, <3>3
      <3> QED BY <3>2, <3>3
    <2>7. TablesTyped'
      BY <1>3, <2>2, <2>5, TablesBefore DEF TablesTyped
    <2>8. audit' \subseteq AuditRow /\ (\A e \in audit' : Records(Held("bot"), e)) /\ Trails'
      BY <1>3, <2>6, <2>7, SameAudit
    <2>9. ASSUME NEW c, c = a PROVE IInv'
      <3>1. /\ c \in Alias /\ Exists(c) /\ r.owner = alias[c].owner /\ r.chat \notin repaired
            /\ r.chat = alias[c].chat /\ alias[c].status # "deleted"
            /\ r.status # "deleted" => r.version = alias[c].version + 1
        BY <2>2, <2>4, <2>9, TablesBefore DEF Live, Rows, RowOK
      <3>2. Change(c, r) /\ r \in Row
        BY <2>4, <2>9
      <3> QED BY <1>1, <1>3, <2>2, <2>8, <3>1, <3>2, ChangeStep
    <2> QED BY <2>9
  <1> QED BY <1>4, <1>5

(* updateAliasStatus: of a row that lives, or of none.                     *)
LEMMA WriteStatusStep ==
  ASSUME IInv, WriteStatus
  PROVE  IInv'
  <1> DEFINE t == txn["bot"]
  <1> DEFINE a == t.alias
  <1>1. "bot" \in Actor /\ t # None /\ t.kind \in {"paused", "active"} /\ End("bot")
    BY DEF Actor, WriteStatus, At
  <1>2. a \in Alias /\ (Exists(a) => Live(a))
    BY <1>1, UnderWay DEF HandlerOK, StatusOK
  <1>3. UNCHANGED <<chat, users, audit, telegram, news, screen, history, inputs>>
    BY DEF WriteStatus
  <1>4. CASE ~Exists(a)
    BY <1>1, <1>3, <1>4, RefusedStep DEF WriteStatus
  <1>5. CASE Exists(a)
    <2>1. alias' = [alias EXCEPT ![a] = [alias[a] EXCEPT !.status = t.kind]]
      BY <1>5 DEF WriteStatus
    <2>2. alias[a] \in Row
      BY <1>2, <1>5, RowType DEF IInv
    <2>3. PICK r : r = [alias[a] EXCEPT !.status = t.kind]
      OBVIOUS
    <2>4. /\ r \in Row /\ r.chat = alias[a].chat /\ r.owner = alias[a].owner
          /\ r.version = alias[a].version /\ r.status = t.kind
      BY <1>1, <2>2, <2>3 DEF Row
    <2>5. /\ alias'[a] = r /\ \A b \in Alias \ {a} : alias'[b] = alias[b]
          /\ alias' \in [Alias -> Row \cup {None}]
      BY <1>2, <2>1, <2>3, <2>4 DEF IInv, TypeOK
    <2>6. home' = home /\ changes' = changes /\ confirmed' = confirmed /\ repaired' = repaired
      BY <1>3 DEF history
    <2>7. TablesTyped'
      BY <1>3, <2>5, <2>6, TablesBefore DEF TablesTyped
    <2>8. \A b \in Alias :
            /\ alias'[b] # None =>
                 /\ alias[b] # None /\ alias'[b].owner = alias[b].owner
                 /\ alias'[b].chat = alias[b].chat
                 /\ alias'[b].version = alias[b].version
                 /\ alias'[b].status # "deleted" => alias[b].status # "deleted"
            /\ changes'[b] = changes[b] /\ changes[b] \in Nat
               /\ (alias[b] # None => alias[b].version \in Nat)
      <3> SUFFICES ASSUME NEW b \in Alias
                   PROVE  /\ alias'[b] # None =>
                               /\ alias[b] # None /\ alias'[b].owner = alias[b].owner
                               /\ alias'[b].chat = alias[b].chat
                               /\ alias'[b].version = alias[b].version
                               /\ alias'[b].status # "deleted" => alias[b].status # "deleted"
                          /\ changes'[b] = changes[b] /\ changes[b] \in Nat
                          /\ alias[b] # None => alias[b].version \in Nat
        OBVIOUS
      <3>1. changes[b] \in Nat /\ (alias[b] # None => alias[b].version \in Nat)
        BY RowType DEF IInv, TypeOK, Exists
      <3>2. CASE b = a
        BY <1>2, <1>5, <2>4, <2>5, <2>6, <3>1, <3>2 DEF Live, Exists
      <3>3. CASE b # a
        BY <2>5, <2>6, <3>1, <3>3
      <3> QED BY <3>2, <3>3
    <2> HIDE DEF a, t
    <2>9. (\A e \in audit' : Records(Held("bot"), e)) /\ Trails'
      BY <1>3, <2>6, <2>7, <2>8, SameAudit
    <2>10. Writes(Held("bot"))
      <3>1. \A b \in Alias : Evolves(b) /\ Enters(Held("bot"), b)
        BY <2>8 DEF Evolves, Enters
      <3>2. \A c \in repaired' : Repairs(Held("bot"), c)
        BY <1>3, <2>6 DEF Repairs
      <3> QED BY <2>9, <3>1, <3>2 DEF Writes
    <2>11. Rows'
      BY <1>3, <2>6, <2>8, TablesBefore DEF Rows, RowOK, Exists
    <2>12. ConfirmedAsShown'
      BY <2>6, TablesBefore DEF ConfirmedAsShown
    <2>13. (\A g \in Group : Supergroup[g] # None => chat'[g] # "none")
           /\ (\A g \in repaired' : moved[g] # None)
      BY <1>3, <2>6, TablesBefore
    <2> QED BY <1>1, <1>3, <2>7, <2>9, <2>10, <2>11, <2>12, <2>13, WriteStep
  <1> QED BY <1>4, <1>5

(* A new alias: under its chat's lock, for a known user, without a trail.  *)
LEMMA WriteCreateStep ==
  ASSUME IInv, WriteCreate
  PROVE  IInv'
  <1> DEFINE t == txn["bot"]
  <1> DEFINE a == t.alias
  <1>1. "bot" \in Actor /\ t # None /\ t.kind = "create" /\ t.stage = "write" /\ End("bot")
    BY DEF Actor, WriteCreate, At
  <1>2. HandlerOK(t) /\ Held("bot") = t.held
    BY <1>1, UnderWay
  <1>3. UNCHANGED <<chat, users, audit, telegram, news, screen, confirmed, repaired, inputs>>
    BY DEF WriteCreate
  <1>4. CASE UNCHANGED <<alias, changes, home>>
    BY <1>1, <1>3, <1>4, RefusedStep DEF history
  <1>5. CASE AliasRoom(t.by) /\ Change(a, CreatedRow(t)) /\ home' = [home EXCEPT ![a] = t.target]
    <2>1. /\ a \in Alias /\ changes[a] = 0 /\ t.by \in User /\ t.target \in Chat
          /\ t.old \in Group \cup {None}
          /\ t.target \in Held("bot") /\ t.target \notin repaired
      BY <1>1, <1>2 DEF HandlerOK, CreateOK, IntoOK
    <2>2. PICK r : r = CreatedRow(t)
      OBVIOUS
    <2>3. r \in Row /\ r.chat = t.target /\ r.owner = t.by /\ r.owner \in users
      BY <1>5, <2>1, <2>2 DEF CreatedRow, Row, AliasRoom
    <2>4. /\ alias'[a] = r /\ changes'[a] = 1 /\ home'[a] = t.target
          /\ \A b \in Alias \ {a} : alias'[b] = alias[b] /\ changes'[b] = changes[b]
             /\ home'[b] = home[b]
          /\ alias' \in [Alias -> Row \cup {None}] /\ changes' \in [Alias -> Nat]
          /\ home' \in [Alias -> Chat \cup {None}]
      BY <1>5, <2>1, <2>2, <2>3 DEF IInv, TypeOK, Change
    <2>5. TablesTyped'
      BY <1>3, <2>4, TablesBefore DEF TablesTyped
    <2> HIDE DEF a, t
    <2>6. \A e \in audit : e.alias # a
      BY <2>1, TrailNumbers DEF Trail
    <2>7. \A e \in audit' : Recorded(e)'
      <3> SUFFICES ASSUME NEW e \in audit PROVE Recorded(e)'
        BY <1>3
      <3>1. e.alias \in Alias \ {a} /\ Recorded(e)
        BY <2>6, TablesBefore DEF TablesTyped, AuditRow, Trails
      <3> QED BY <1>3, <2>4, <3>1 DEF Recorded, Exists
    <2>8. AuditChain'
      <3> SUFFICES ASSUME NEW b \in Alias, alias'[b] # None PROVE Chain(b)'
        BY DEF AuditChain, Exists
      <3>1. CASE b = a
        <4>1. Trail(b)' = {}
          BY <1>3, <2>6, <3>1 DEF Trail
        <4>2. alias'[b].chat = home'[b]
          BY <2>3, <2>4, <3>1
        <4> QED BY <4>1, <4>2 DEF Chain, LedTo
      <3>2. CASE b # a
        <4>1. Trail(b)' = Trail(b)
          BY <1>3 DEF Trail
        <4>2. alias'[b] = alias[b] /\ changes'[b] = changes[b] /\ changes[b] \in Nat
              /\ home'[b] = home[b]
          BY <2>4, <3>2 DEF IInv, TypeOK
        <4> QED BY <4>1, <4>2, ChainUntouched
      <3> QED BY <3>1, <3>2
    <2>9. Trails'
      BY <2>7, <2>8 DEF Trails
    <2>10. Writes(Held("bot"))
      <3>1. ASSUME NEW b \in Alias PROVE (changes[b] > 0 => Evolves(b)) /\ Enters(Held("bot"), b)
        <4>1. changes[b] \in Nat /\ (alias[b] # None => alias[b].version \in Nat)
          BY RowType DEF IInv, TypeOK, Exists
        <4>2. CASE b = a
          BY <2>1, <2>3, <2>4, <4>2 DEF Enters
        <4>3. CASE b # a
          BY <2>4, <4>1, <4>3 DEF Evolves, Enters
        <4> QED BY <4>2, <4>3
      <3>2. \A e \in audit' : Records(Held("bot"), e)
        BY <1>3 DEF Records
      <3>3. \A c \in repaired' : Repairs(Held("bot"), c)
        BY <1>3 DEF Repairs
      <3> QED BY <3>1, <3>2, <3>3 DEF Writes
    <2>11. Rows'
      <3> SUFFICES ASSUME NEW b \in Alias, alias'[b] # None
                   PROVE  changes'[b] > 0 /\ alias'[b].owner \in users
                          /\ alias'[b].chat \notin repaired
        BY <1>3 DEF Rows, RowOK, Exists
      <3>1. CASE b = a
        BY <2>1, <2>3, <2>4, <3>1
      <3>2. CASE b # a
        BY <2>4, <3>2, TablesBefore DEF Rows, RowOK, Exists
      <3> QED BY <3>1, <3>2
    <2>12. ConfirmedAsShown'
      BY <1>3, TablesBefore DEF ConfirmedAsShown
    <2>13. (\A g \in Group : Supergroup[g] # None => chat'[g] # "none")
           /\ (\A g \in repaired' : moved[g] # None)
      BY <1>3, TablesBefore
    <2> QED BY <1>1, <1>3, <2>5, <2>9, <2>10, <2>11, <2>12, <2>13, WriteStep
  <1> QED BY <1>4, <1>5 DEF WriteCreate

(* Cleanup purges a tombstone.                                             *)
LEMMA PurgeTombstoneStep ==
  ASSUME IInv, NEW a \in Alias, PurgeTombstone(a)
  PROVE  IInv'
  <1>1. /\ alias' = [alias EXCEPT ![a] = None] /\ alias[a] # None /\ alias[a].status = "deleted"
        /\ UNCHANGED <<chat, users, audit, telegram, news, screen, txn, history, inputs>>
    BY DEF PurgeTombstone, Exists
  <1>2. /\ alias' \in [Alias -> Row \cup {None}] /\ alias'[a] = None
        /\ \A b \in Alias : alias'[b] # None => b # a /\ alias'[b] = alias[b]
    BY <1>1 DEF IInv, TypeOK
  <1>3. home' = home /\ changes' = changes /\ confirmed' = confirmed /\ repaired' = repaired
        /\ moved' = moved
    BY <1>1 DEF history, telegram
  <1>4. TypeOK'
    BY <1>1, <1>2, <1>3 DEF IInv, TypeOK, telegram, Held
  <1>5. \A b \in Alias : changes[b] \in Nat /\ (alias[b] # None => alias[b].version \in Nat)
    BY RowType DEF IInv, TypeOK, Exists
  <1>6. \A b \in Alias : Evolves(b)
    BY <1>2, <1>3, <1>5 DEF Evolves
  <1>7. Writes({}) /\ Gentle
    <2>1. \A b \in Alias : Enters({}, b)
      BY <1>2 DEF Enters
    <2>2. (\A e \in audit' : Records({}, e)) /\ (\A c \in repaired' : Repairs({}, c))
      BY <1>1, <1>3 DEF Records, Repairs
    <2>3. Gentle
      BY <1>2, <1>3 DEF Gentle
    <2> QED BY <1>6, <2>1, <2>2, <2>3 DEF Writes
  <1>8. Migrations'
    BY <1>1, <1>3 DEF IInv, Migrations
  <1>9. Rows' /\ ConfirmedAsShown'
    BY <1>1, <1>2, <1>3, TablesBefore DEF Rows, RowOK, Exists, ConfirmedAsShown
  <1>10. Trails'
    <2>1. TablesTyped'
      BY <1>4 DEF TypeOK, TablesTyped
    <2> QED BY <1>1, <1>2, <1>3, <1>5, <2>1, SameAudit
  <1>11. Screens'
    <2> SUFFICES ASSUME NEW s \in Screen, screen[s] # None PROVE Shown(screen[s])'
      BY <1>1 DEF Screens
    <2>1. ASSUME NEW b, b = screen[s] PROVE Shown(b)'
      <3>1. b \in ButtonData /\ Shown(b)
        BY <2>1 DEF IInv, TypeOK, Screens
      <3>2. b.version \in Nat /\ b.seen \in Nat /\ Evolves(b.alias)
        BY <1>6, <3>1 DEF ButtonData, Shown
      <3> QED BY <1>4, <3>1, <3>2, ShownKept DEF IInv
    <2> QED BY <1>1, <2>1
  <1>12. Handling'
    <2> SUFFICES ASSUME NEW q \in Actor, txn'[q] # None
                 PROVE  HandlerOK(txn[q])' /\ (q # "bot" => txn'[q].kind \in {"repair", "erase"})
      BY DEF Handling
    <2>1. ASSUME NEW t, t = txn'[q]
          PROVE  HandlerOK(t)' /\ (q # "bot" => t.kind \in {"repair", "erase"})
      <3>1. t \in Handler /\ HandlerOK(t) /\ (q # "bot" => t.kind \in {"repair", "erase"})
        BY <1>1, <2>1, UnderWay
      <3> QED BY <1>3, <1>4, <1>7, <3>1, OtherKept
    <2> QED BY <2>1
  <1> QED BY <1>4, <1>8, <1>9, <1>10, <1>11, <1>12 DEF IInv

(* An audit row whose actor is forgotten.                                  *)
Forget(e, u, doomed) == [e EXCEPT !.actor = IF @ = u /\ Id(e) \in doomed THEN None ELSE @]

(* It is the same row but for the actor.                                   *)
LEMMA ForgetKeeps ==
  ASSUME NEW e \in AuditRow, NEW u, NEW doomed, NEW x, x = Forget(e, u, doomed)
  PROVE  /\ x \in AuditRow /\ SameLink(e, x) /\ x.alias = e.alias /\ x.owner = e.owner
         /\ Id(x) = Id(e)
  <1>1. PICK actor \in User \cup {None} : x = [e EXCEPT !.actor = actor]
    <2>1. e.actor \in User \cup {None}
      BY DEF AuditRow
    <2> QED BY <2>1 DEF Forget
  <1>2. /\ x \in AuditRow /\ x.alias = e.alias /\ x.owner = e.owner /\ x.nr = e.nr
        /\ x.old = e.old /\ x.new = e.new /\ x.auth = e.auth
    BY <1>1 DEF AuditRow
  <1> QED BY <1>2 DEF SameLink, Id

(* deleteHostedUser: all rows of the user go.                              *)
LEMMA WriteEraseStep ==
  ASSUME IInv, NEW p \in {"bot", "cli"}, WriteErase(p)
  PROVE  IInv'
  <1> DEFINE t == txn[p]
  <1> DEFINE u == t.by
  <1> DEFINE kept == {e \in audit : Id(e) \notin t.doomed \/ e.owner # u}
  <1>1. p \in Actor /\ t # None /\ t.kind = "erase" /\ t.stage = "write" /\ End(p)
    BY DEF Actor, WriteErase, At
  <1>2. HandlerOK(t) /\ u \in User /\ \A e \in audit : e.owner = u => Id(e) \in t.doomed
    BY <1>1, UnderWay DEF HandlerOK, EraseOK
  <1>3. /\ audit' = {Forget(e, u, t.doomed) : e \in kept}
        /\ alias' = [a \in Alias |-> IF Exists(a) /\ alias[a].owner = u THEN None ELSE alias[a]]
        /\ chat' = [chat EXCEPT ![u] = "none"] /\ users' = users \ {u}
        /\ UNCHANGED <<telegram, news, screen, history, inputs>>
    BY DEF WriteErase, Forget
  <1>4. home' = home /\ changes' = changes /\ confirmed' = confirmed /\ repaired' = repaired
    BY <1>3 DEF history
  <1>5. kept = {e \in audit : e.owner # u}
    BY <1>2
  <1> HIDE DEF kept, u, t
  <1>6. \A a \in Alias : alias'[a] # None => alias'[a] = alias[a] /\ alias[a] # None
        /\ alias[a].owner # u
    BY <1>3 DEF Exists
  <1>7. alias' \in [Alias -> Row \cup {None}]
    BY <1>3 DEF IInv, TypeOK
  <1>8. /\ chat' \in [Chat -> {"none", "active", "inactive"}] /\ \A g \in Group : chat'[g] = chat[g]
    BY <1>2, <1>3, ChatKinds DEF IInv, TypeOK
  <1>9. audit \subseteq AuditRow
    BY DEF IInv, TypeOK
  <1>10. ASSUME NEW x \in audit'
         PROVE  \E e \in audit : /\ x = Forget(e, u, t.doomed) /\ e.owner # u /\ x \in AuditRow /\ SameLink(e, x)
                                 /\ x.alias = e.alias /\ x.owner = e.owner /\ Id(x) = Id(e)
    <2>1. PICK e \in kept : x = Forget(e, u, t.doomed)
      BY <1>3, <1>10
    <2>2. e \in audit /\ e.owner # u /\ e \in AuditRow
      BY <1>5, <1>9, <2>1
    <2>3. x \in AuditRow /\ SameLink(e, x) /\ x.alias = e.alias /\ x.owner = e.owner
          /\ Id(x) = Id(e)
      BY <2>1, <2>2, ForgetKeeps
    <2> QED BY <2>1, <2>2, <2>3
  <1>11. TablesTyped'
    BY <1>3, <1>4, <1>7, <1>8, <1>10, TablesBefore DEF TablesTyped
  <1>12. Writes(Held(p)) /\ Gentle
    <2>1. \A b \in Alias : changes[b] \in Nat /\ (alias[b] # None => alias[b].version \in Nat)
      BY RowType DEF IInv, TypeOK, Exists
    <2>2. \A b \in Alias : Evolves(b) /\ Enters(Held(p), b)
      BY <1>4, <1>6, <2>1 DEF Evolves, Enters
    <2>3. \A e \in audit' : Records(Held(p), e)
      BY <1>10 DEF Records
    <2>4. \A c \in repaired' : Repairs(Held(p), c)
      BY <1>4, <1>8 DEF Repairs, IInv, TypeOK
    <2>5. Gentle
      BY <1>4, <1>6 DEF Gentle
    <2> QED BY <2>2, <2>3, <2>4, <2>5 DEF Writes
  <1>13. Rows'
    BY <1>3, <1>4, <1>6, TablesBefore DEF Rows, RowOK, Exists
  <1>14. \A x \in audit' : Recorded(x)'
    <2> SUFFICES ASSUME NEW x \in audit' PROVE Recorded(x)'
      OBVIOUS
    <2>1. PICK e \in audit : e.owner # u /\ SameLink(e, x) /\ x.alias = e.alias /\ x.owner = e.owner
      BY <1>10
    <2>2. Recorded(e) /\ e.alias \in Alias
      BY <1>9, TablesBefore DEF Trails, AuditRow
    <2> QED BY <1>3, <1>4, <1>6, <2>1, <2>2 DEF Recorded, Exists, SameLink
  <1>15. AuditChain'
    <2> SUFFICES ASSUME NEW a \in Alias, alias'[a] # None PROVE Chain(a)'
      BY DEF AuditChain, Exists
    <2>1. alias'[a] = alias[a] /\ alias[a] # None /\ alias[a].owner # u
      BY <1>6
    <2>2. \A x \in Trail(a)' : \E e \in Trail(a) : SameLink(e, x) /\ x = Forget(e, u, t.doomed)
      BY <1>10 DEF Trail
    <2>3. ASSUME NEW e \in Trail(a) PROVE \E x \in Trail(a)' : SameLink(e, x)
      <3>1. e \in audit /\ e.alias = a /\ e \in AuditRow
        BY <1>9 DEF Trail
      <3>2. e.owner = alias[a].owner
        BY <2>1, <3>1, TablesBefore DEF Trails, Recorded, Exists
      <3>3. PICK x : x = Forget(e, u, t.doomed)
        OBVIOUS
      <3>4. x \in audit'
        BY <1>3, <1>5, <2>1, <3>1, <3>2, <3>3
      <3>5. SameLink(e, x) /\ x.alias = a
        BY <3>1, <3>3, ForgetKeeps
      <3> QED BY <3>4, <3>5 DEF Trail
    <2>4. \A x, y \in Trail(a)' : x.nr = y.nr => x = y
      <3> SUFFICES ASSUME NEW x \in Trail(a)', NEW y \in Trail(a)', x.nr = y.nr PROVE x = y
        OBVIOUS
      <3>1. PICK e \in Trail(a) : SameLink(e, x) /\ x = Forget(e, u, t.doomed)
        BY <2>2
      <3>2. PICK f \in Trail(a) : SameLink(f, y) /\ y = Forget(f, u, t.doomed)
        BY <2>2
      <3>3. e.nr = f.nr
        BY <3>1, <3>2 DEF SameLink
      <3>4. e = f
        BY <2>1, <3>3, TablesBefore DEF Trails, AuditChain, Chain, Exists
      <3> QED BY <3>1, <3>2, <3>4
    <2>5. changes'[a] \in Nat /\ changes[a] <= changes'[a] /\ home'[a] = home[a]
      BY <1>4 DEF IInv, TypeOK
    <2> QED BY <2>1, <2>2, <2>3, <2>4, <2>5, ChainKept
  <1>16. Trails'
    BY <1>14, <1>15 DEF Trails
  <1>17. ConfirmedAsShown'
    BY <1>4, TablesBefore DEF ConfirmedAsShown
  <1>18. (\A g \in Group : Supergroup[g] # None => chat'[g] # "none")
         /\ (\A g \in repaired' : moved[g] # None)
    BY <1>4, <1>8, TablesBefore
  <1> QED BY <1>1, <1>3, <1>11, <1>12, <1>13, <1>16, <1>17, <1>18, WriteStep

(* repairChatMigration: every alias of the chat is re-keyed and recorded.  *)
LEMMA WriteRepairStep ==
  ASSUME IInv, NEW p \in {"bot", "delivery"}, WriteRepair(p)
  PROVE  IInv'
  <1> DEFINE t == txn[p]
  <1> DEFINE g == t.old
  <1> DEFINE h == t.target
  <1> DEFINE there == {a \in Alias : Exists(a) /\ alias[a].chat = g}
  <1> DEFINE row(a) == [Rerouted(alias[a], h) EXCEPT !.thread = IF @ = g THEN h ELSE @]
  <1> DEFINE ev(a) == Event(a, None, "migration", g, h, g)
  <1>1. p \in Actor /\ t # None /\ t.kind = "repair" /\ t.stage = "write" /\ t.plan = {} /\ End(p)
    BY DEF Actor, WriteRepair, At
  <1>2. RepairOK(t) /\ Held(p) = t.held
    BY <1>1, UnderWay DEF HandlerOK
  <1>3. /\ g \in Group /\ g \in Held(p) /\ moved[g] # None /\ h = moved[g]
        /\ OwnerLocks(g) \subseteq Held(p)
    BY <1>1, <1>2 DEF RepairOK
  <1>4. h \in Group /\ h # g /\ h \notin repaired /\ moved[h] = None /\ Supergroup[g] # None
    <2>1. moved[g] = Supergroup[g] /\ moved[g] \in Group /\ moved[g] # g /\ moved[g] \notin repaired
      BY <1>3, SupergroupStays DEF IInv
    <2>2. Supergroup[h] = None /\ moved[h] \in {None, Supergroup[h]}
      BY <1>3, <2>1, RoutingAssumption DEF RoutingAssumption, IInv, Migrations
    <2> QED BY <1>3, <2>1, <2>2
  <1>5. /\ alias' = [a \in Alias |-> IF a \in there THEN row(a) ELSE alias[a]]
        /\ changes' = [a \in Alias |-> IF a \in there THEN changes[a] + 1 ELSE changes[a]]
        /\ audit' = audit \cup {ev(a) : a \in there}
        /\ chat' = [chat EXCEPT ![h] = IF t.known THEN @ ELSE "active",
                                ![g] = IF @ = "active" THEN "inactive" ELSE @]
        /\ repaired' = repaired \cup {g}
        /\ UNCHANGED <<users, telegram, news, screen, home, confirmed, inputs>>
    BY DEF WriteRepair
  <1>6. ASSUME NEW a \in there
        PROVE  /\ row(a) \in Row /\ row(a).chat = h /\ row(a).owner = alias[a].owner
               /\ row(a).status = alias[a].status /\ row(a).version = alias[a].version + 1
               /\ row(a) # None
    <2>1. a \in Alias /\ alias[a] \in Row
      BY <1>6, RowType DEF IInv
    <2>2. PICK n : n = Rerouted(alias[a], h)
      OBVIOUS
    <2>3. /\ n \in Row /\ n.chat = h /\ n.owner = alias[a].owner /\ n.status = alias[a].status
          /\ n.version = alias[a].version + 1 /\ n.thread \in Group \cup {None}
      BY <1>4, <2>1, <2>2, ReroutedRow, ChatKinds, RowType DEF Row
    <2>4. PICK th \in Group \cup {None} : row(a) = [n EXCEPT !.thread = th]
      BY <1>4, <2>2, <2>3
    <2> HIDE DEF row
    <2> QED BY <2>3, <2>4, RowFields, NotNone
  <1>7. ASSUME NEW a \in there
        PROVE  /\ ev(a) \in AuditRow /\ ev(a).alias = a /\ ev(a).owner = alias[a].owner
               /\ ev(a).nr = changes[a] + 1
               /\ ev(a).old = alias[a].chat /\ ev(a).auth = ev(a).old /\ ev(a).new = h
               /\ ev(a).owner \in Held(p) /\ alias[a].owner \in users
    <2>1. a \in Alias /\ Exists(a) /\ alias[a].owner \in User /\ alias[a].chat = g
          /\ changes[a] \in Nat
      BY <1>7, RowType DEF IInv, TypeOK
    <2>2. alias[a].owner \in Held(p) /\ alias[a].owner \in users
      BY <1>3, <2>1, TablesBefore DEF OwnerLocks, Rows, RowOK
    <2>3. /\ ev(a) \in AuditRow /\ ev(a).alias = a /\ ev(a).owner = alias[a].owner
          /\ ev(a).nr = changes[a] + 1
          /\ ev(a).old = g /\ ev(a).auth = g /\ ev(a).new = h
      BY <1>3, <1>4, <2>1, ChatKinds DEF Event, AuditRow
    <2> HIDE DEF ev
    <2> QED BY <2>1, <2>2, <2>3
  <1> HIDE DEF row, ev
  <1>8. \A a \in Alias :
          /\ a \in there => alias'[a] = row(a) /\ changes'[a] = changes[a] + 1 /\ alias[a] # None
             /\ alias[a].chat = g
          /\ a \notin there => /\ alias'[a] = alias[a] /\ changes'[a] = changes[a]
                               /\ alias[a] # None => alias[a].chat # g
    BY <1>5 DEF Exists
  <1>9. /\ chat' \in [Chat -> {"none", "active", "inactive"}] /\ chat'[g] = "inactive"
        /\ \A c \in Chat \ {g, h} : chat'[c] = chat[c]
        /\ chat[h] # "none" => chat'[h] # "none"
    <2>1. chat[g] \in {"active", "inactive"}
      BY <1>3, <1>4, ChatKinds DEF IInv, TypeOK, Migrations
    <2> HIDE DEF g, h
    <2> QED BY <1>3, <1>4, <1>5, <2>1, ChatKinds DEF IInv, TypeOK
  <1> HIDE DEF there, g, h
  <1>10. there \subseteq Alias
    BY DEF there
  <1>11. alias' \in [Alias -> Row \cup {None}] /\ changes' \in [Alias -> Nat]
    BY <1>5, <1>6 DEF IInv, TypeOK
  <1>12. TablesTyped'
    BY <1>3, <1>5, <1>7, <1>9, <1>11, TablesBefore DEF TablesTyped
  <1>13. \A b \in Alias : changes[b] \in Nat /\ (alias[b] # None => alias[b].version \in Nat)
    BY RowType DEF IInv, TypeOK, Exists
  <1>14. Writes(Held(p)) /\ Gentle
    <2>1. ASSUME NEW b \in Alias PROVE (changes[b] > 0 => Evolves(b)) /\ Enters(Held(p), b)
      <3>1. CASE b \in there
        BY <1>4, <1>6, <1>8, <1>13, <3>1 DEF Evolves, Enters
      <3>2. CASE b \notin there
        BY <1>8, <1>13, <3>2 DEF Evolves, Enters
      <3> QED BY <3>1, <3>2
    <2>2. \A e \in audit' : Records(Held(p), e)
      BY <1>5, <1>7 DEF Records
    <2>3. \A c \in repaired' : Repairs(Held(p), c)
      BY <1>3, <1>4, <1>5, <1>9, ChatKinds DEF Repairs, IInv, TypeOK
    <2>4. Gentle
      <3>1. \A a \in Alias : alias[a] # None => changes[a] > 0
        BY TablesBefore DEF Rows, RowOK, Exists
      <3> QED BY <1>6, <1>8, <1>13, <3>1 DEF Gentle
    <2> QED BY <2>1, <2>2, <2>3, <2>4 DEF Writes
  <1>15. Rows'
    <2> SUFFICES ASSUME NEW b \in Alias, alias'[b] # None
                 PROVE  changes'[b] > 0 /\ alias'[b].owner \in users
                        /\ alias'[b].chat \notin repaired'
      BY <1>5 DEF Rows, RowOK, Exists
    <2>1. CASE b \in there
      BY <1>4, <1>5, <1>6, <1>7, <1>8, <1>13, <2>1
    <2>2. CASE b \notin there
      BY <1>5, <1>8, <2>2, TablesBefore DEF Rows, RowOK, Exists
    <2> QED BY <2>1, <2>2
  <1>16. \A x \in audit' : Recorded(x)'
    <2> SUFFICES ASSUME NEW x \in audit' PROVE Recorded(x)'
      OBVIOUS
    <2>1. CASE x \in audit
      <3>1. Recorded(x) /\ x.alias \in Alias /\ x.nr \in Nat
        BY <2>1, TablesBefore DEF Trails, TablesTyped, AuditRow
      <3>2. CASE x.alias \in there
        BY <1>5, <1>6, <1>8, <1>13, <3>1, <3>2 DEF Recorded, Exists
      <3>3. CASE x.alias \notin there
        BY <1>5, <1>8, <3>1, <3>3 DEF Recorded, Exists
      <3> QED BY <3>2, <3>3
    <2>2. CASE x \notin audit
      <3>1. PICK a \in there : x = ev(a)
        BY <1>5, <2>2
      <3> QED BY <1>5, <1>6, <1>7, <1>8, <1>10, <1>13, <3>1 DEF Recorded, Exists
    <2> QED BY <2>1, <2>2
  <1>17. AuditChain'
    <2> SUFFICES ASSUME NEW a \in Alias, alias'[a] # None PROVE Chain(a)'
      BY DEF AuditChain, Exists
    <2>0. home' = home
      BY <1>5
    <2>1. CASE a \in there
      <3>1. ASSUME NEW e, e = ev(a) PROVE Chain(a)'
        <4>1. Trail(a)' = Trail(a) \cup {e}
          BY <1>5, <1>7, <2>1, <3>1 DEF Trail
        <4>2. /\ alias[a] # None /\ changes'[a] = changes[a] + 1 /\ e.nr = changes[a] + 1
              /\ e.old = alias[a].chat /\ e.auth = e.old /\ e.new = alias'[a].chat
          BY <1>6, <1>7, <1>8, <2>1, <3>1
        <4> QED BY <2>0, <4>1, <4>2, ChainGrows
      <3> QED BY <3>1
    <2>2. CASE a \notin there
      <3>1. Trail(a)' = Trail(a)
        BY <1>5, <1>7, <2>2 DEF Trail
      <3>2. alias'[a] = alias[a] /\ changes'[a] = changes[a] /\ changes[a] \in Nat
        BY <1>8, <1>13, <2>2
      <3> QED BY <2>0, <3>1, <3>2, ChainUntouched
    <2> QED BY <2>1, <2>2
  <1>18. Trails'
    BY <1>16, <1>17 DEF Trails
  <1>19. ConfirmedAsShown'
    BY <1>5, TablesBefore DEF ConfirmedAsShown
  <1>20. (\A f \in Group : Supergroup[f] # None => chat'[f] # "none")
         /\ (\A f \in repaired' : moved[f] # None)
    BY <1>3, <1>4, <1>5, <1>9, ChatKinds, TablesBefore
  <1> HIDE DEF t
  <1> QED BY <1>1, <1>5, <1>12, <1>14, <1>15, <1>18, <1>19, <1>20, WriteStep

-----------------------------------------------------------------------------
(* The theorems.                                                           *)

(* Every step of the system keeps the invariant.                           *)
LEMMA NextIInv ==
  ASSUME IInv, [Next]_vars
  PROVE  IInv'
  <1>1. CASE FromUser
    <2>1. ASSUME NEW s \in Screen, NEW u \in User, NEW a \in Alias, NEW w \in Chat,
                 ShowMenu(s, u, a, w)
          PROVE  IInv'
      BY <2>1, ShowMenuStep
    <2>2. ASSUME NEW s \in Screen, TapButton(s) PROVE IInv'
      BY <2>2, TapMoveStep, TapOtherStep DEF TapButton
    <2>3. ASSUME NEW u \in User, NEW a \in Alias, NEW w \in Chat, DeleteEmail(u, a, w) PROVE IInv'
      BY <2>3, DeleteEmailStep
    <2>4. ASSUME NEW u \in User, NEW a \in Alias, NEW w \in Chat,
                 PauseEmail(u, a, w) \/ ResumeEmail(u, a, w)
          PROVE  IInv'
      <3>1. Idle /\ Enter(u, w) /\ Live(a)
            /\ UNCHANGED <<alias, audit, telegram, news, screen, history>>
        BY <2>4 DEF PauseEmail, ResumeEmail, Command, Resolves
      <3>2. PICK status \in {"paused", "active"} : NewStatus(u, a, status)
        BY <2>4 DEF PauseEmail, ResumeEmail
      <3> QED BY <3>1, <3>2, NewStatusStep
    <2>5. ASSUME NEW u \in User, NEW a \in Alias, NEW w \in Chat,
                 NEW status \in {"paused", "active"},
                 TapStatus(u, a, w, status)
          PROVE  IInv'
      BY <2>5, NewStatusStep DEF TapStatus, CanManageAlias
    <2>6. ASSUME NEW u \in User, NEW a \in Alias, NEW w \in Chat, NewEmail(u, a, w) PROVE IInv'
      BY <2>6, CreateStep DEF NewEmail
    <2>7. ASSUME NEW u \in User, NEW a \in Alias, NEW w \in Chat, NEW c \in Chat,
                 NameReply(u, a, c, w) \/ SkipName(u, a, c, w)
          PROVE  IInv'
      <3>1. None \in Topics(c)
        BY DEF Topics
      <3> QED BY <2>7, <3>1, CreateStep DEF NameReply, SkipName
    <2>8. ASSUME NEW p \in {"bot", "cli"}, NEW u \in User, EraseUser(p, u) PROVE IInv'
      BY <2>8, EraseUserStep
    <2> QED BY <1>1, <2>1, <2>2, <2>3, <2>4, <2>5, <2>6, <2>7, <2>8 DEF FromUser
  <1>2. CASE Handlers
    <2>1. ASSUME NEW p \in Actor, Acquire(p) \/ DeadlockAbort(p) PROVE IInv'
      BY <2>1, AcquireStep, DeadlockAbortStep
    <2>2. CASE CheckMove \/ LockMove \/ WriteMove
      BY <2>2, CheckMoveStep, LockMoveStep, WriteMoveStep
    <2>3. CASE WriteTopic \/ WriteDelete \/ WriteStatus
      BY <2>3, WriteTopicOrDeleteStep, WriteStatusStep
    <2>4. CASE LockCreate \/ WriteCreate
      BY <2>4, LockCreateStep, WriteCreateStep
    <2>5. ASSUME NEW p \in {"bot", "cli"}, LockErase(p) \/ WriteErase(p) PROVE IInv'
      BY <2>5, LockEraseStep, WriteEraseStep
    <2>6. ASSUME NEW g \in Group, ReactiveRepair(g) PROVE IInv'
      BY <2>6, ReactiveRepairStep
    <2>7. ASSUME NEW p \in {"bot", "delivery"}, LockRepair(p) \/ WriteRepair(p) PROVE IInv'
      BY <2>7, LockRepairStep, WriteRepairStep
    <2>8. ASSUME NEW n \in news, HandleNews(n) PROVE IInv'
      BY <2>8, MigratedNewsStep, MembershipNewsStep
    <2>9. ASSUME NEW a \in Alias, PurgeTombstone(a) PROVE IInv'
      BY <2>9, PurgeTombstoneStep
    <2> QED BY <1>2, <2>1, <2>2, <2>3, <2>4, <2>5, <2>6, <2>7, <2>8, <2>9 DEF Handlers
  <1>3. CASE Telegram
    BY <1>3, MembershipStep, MigrateStep, DeactivateStep DEF Telegram
  <1>4. CASE UNCHANGED vars
    <2>1. UNCHANGED <<tables, txn, telegram, news, screen, chat, users, inputs>>
      BY <1>4 DEF vars, tables, history
    <2>2. Screens'
      BY <2>1, TablesKept
    <2>3. /\ users \subseteq User /\ chat \in [Chat -> {"none", "active", "inactive"}]
          /\ screen \in [Screen -> ButtonData \cup {None}] /\ inputs \in 0..MaxInputs
      BY DEF IInv, TypeOK
    <2>4. admin' = admin /\ member' = member /\ moved' = moved
      BY <2>1 DEF telegram
    <2> QED BY <2>1, <2>2, <2>3, <2>4, TelegramTypes, QuietStep
  <1> QED BY <1>1, <1>2, <1>3, <1>4 DEF Next

(* What the handlers, the tables and the audit trail know of each other    *)
(* holds in every reachable state.                                         *)
THEOREM Inductive == Spec => []IInv
  <1>1. Init => IInv
    BY InitIInv
  <1>2. IInv /\ [Next]_vars => IInv'
    BY NextIInv
  <1> QED BY <1>1, <1>2, PTL DEF Spec

(* Tables have the columns of the schema, and no advisory lock is held by  *)
(* two transactions at once.                                               *)
THEOREM TypeCorrect == Spec => []TypeOK
  <1>1. IInv => TypeOK
    BY DEF IInv
  <1> QED BY <1>1, Inductive, PTL

(* alias_move_events leads without a gap from the chat an alias was        *)
(* created for to the chat it delivers to, across moves, repairs and the   *)
(* erasure of those who moved it.                                          *)
THEOREM AuditChainHolds == Spec => []AuditChain
  <1>1. IInv => AuditChain
    BY DEF IInv, Trails
  <1> QED BY <1>1, Inductive, PTL

(* After repairChatMigration no creation or move that was under way leaves *)
(* an alias at the old id of the chat.                                     *)
THEOREM RepairedChatEmptyHolds == Spec => []RepairedChatEmpty
  <1>1. IInv => RepairedChatEmpty
    BY DEF IInv, Rows, RowOK, RepairedChatEmpty
  <1> QED BY <1>1, Inductive, PTL

(* routing_version protects a confirmation from every change in between.   *)
THEOREM ConfirmedAsShownHolds == Spec => []ConfirmedAsShown
  <1>1. IInv => ConfirmedAsShown
    BY DEF IInv
  <1> QED BY <1>1, Inductive, PTL

(* deleteHostedUser leaves no audit row of an alias of the user behind,    *)
(* whatever move or repair runs beside it.                                 *)
THEOREM ErasedOwnerLeavesNoAuditHolds == Spec => []ErasedOwnerLeavesNoAudit
  <1>1. IInv => ErasedOwnerLeavesNoAudit
    BY DEF IInv, Trails, Recorded, ErasedOwnerLeavesNoAudit
  <1> QED BY <1>1, Inductive, PTL

=============================================================================
