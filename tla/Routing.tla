------------------------------- MODULE Routing -------------------------------
(***************************************************************************)
(* Where an alias delivers: creation, moves between chats, forum topics,   *)
(* deletion, the repair after a group became a supergroup, the recovery of *)
(* aliases of dead chats, and the erasure of a user.                       *)
(*                                                                         *)
(* grammY's long polling handles one update at a time, so the bot is one   *)
(* actor; a delivery (or retry) repairs a migration it runs into at any    *)
(* time, and the CLI erases users from another process.  A transaction     *)
(* takes advisory locks one by one: chats and users share one key space,   *)
(* and a user's own chat with the bot has the user's id.                   *)
(***************************************************************************)
EXTENDS Integers, FiniteSets

CONSTANTS
  Alias,       \* alias rows that may be created
  User,        \* Telegram users: positive ids
  Group,       \* group chats: negative ids
  Tables,      \* the alias tables a behaviour may start with
  Admins,      \* <<group, user>>: who administers what at the start
  Supergroup,  \* group -> the supergroup it may become, or None
  Screen,      \* menu messages of the bot
  AliasLimit,  \* aliases of one user
  MaxInputs,   \* bound: updates from users, erasures and events in Telegram
  None

Chat == Group \cup User
Actor == {"bot", "delivery", "cli"}

ASSUME RoutingAssumption ==
  /\ User \subseteq Nat \ {0}
  /\ \A g \in Group : g \in Int /\ g < 0
  \* a supergroup never becomes another one
  /\ Supergroup \in [Group -> Group \cup {None}]
  /\ \A g \in Group : Supergroup[g] # None => Supergroup[Supergroup[g]] = None
  /\ Admins \subseteq Group \X User
  /\ AliasLimit \in Nat /\ MaxInputs \in Nat

VARIABLES
  alias,      \* alias -> its row, or None
  chat,       \* chat -> "none": no row, "active", "inactive"
  users,      \* users with a row
  audit,      \* rows of alias_move_events
  admin,      \* Telegram: <<group, user>> administrators
  member,     \* Telegram: groups the bot is in, and users with an account
  moved,      \* Telegram: group -> the supergroup it became, or None
  news,       \* updates on chats the bot has not handled yet
  screen,     \* menu message -> the confirmation button it shows, or None
  txn,        \* actor -> what it is doing, or None
  inputs,     \* inputs so far
  home,       \* history: alias -> the chat it was created for
  changes,    \* history: alias -> changes of its routing, 0 before creation
  confirmed,  \* history: changes a button was shown at, and applied at
  repaired    \* history: chats whose aliases a repair has re-keyed

telegram == <<admin, member, moved>>
history == <<home, changes, confirmed, repaired>>
vars == <<alias, chat, users, audit, telegram, news, screen, txn, inputs, history>>

(* A forum topic is named by the chat it is in: one topic per group.       *)
Row == [status : {"active", "paused", "deleted"}, chat : Chat,
        thread : Group \cup {None}, version : Nat, owner : User]

(* alias_move_events; nr is the change of the alias that the row records.  *)
AuditRow == [alias : Alias, owner : User, actor : User \cup {None},
             path : {"none", "admin", "orphan", "migration"}, old : Chat \cup {None}, new : Chat,
             auth : Chat \cup {None}, nr : Nat]

(* What a confirmation button carries.                                     *)
ButtonData == [kind : {"move", "topic", "delete", "orphan"}, by : User, alias : Alias,
               target : Chat \cup {None}, where : Chat, version : Nat, seen : Nat]

(* An update on a chat.                                                    *)
ChatNews == [kind : {"in", "out", "migrated"}, chat : Group, meta : BOOLEAN]

(* A handler under way: what it is about, what it read, the locks it holds *)
(* and the locks it takes next, in ascending order.                        *)
Handler == [kind : {"move", "topic", "delete", "paused", "active", "create", "erase", "repair"},
            by : User \cup {None}, alias : Alias \cup {None}, target : Chat \cup {None},
            version : Nat, seen : Nat, where : Chat \cup {None}, old : Chat \cup {None},
            owner : User \cup {None}, path : {"none", "admin", "orphan"},
            auth : Chat \cup {None}, known : BOOLEAN, doomed : SUBSET (Alias \X Nat),
            stage : {"check", "lock", "write"}, held : SUBSET Chat, plan : SUBSET Chat]

ASSUME TablesAssumption ==
  /\ None \notin Row \cup ButtonData \cup Handler \cup Chat \cup Alias
  /\ Tables \subseteq [Alias -> Row \cup {None}]

Init ==
  /\ alias \in Tables
  /\ chat = [c \in Chat |-> IF \E g \in Group : Supergroup[g] = c THEN "none" ELSE "active"]
  /\ users = User
  /\ audit = {}
  /\ admin = Admins
  /\ member = User \cup {g \in Group : \A h \in Group : Supergroup[h] # g}
  /\ moved = [g \in Group |-> None]
  /\ news = {}
  /\ screen = [s \in Screen |-> None]
  /\ txn = [p \in Actor |-> None]
  /\ inputs = 0
  /\ home = [a \in Alias |-> IF alias[a] = None THEN None ELSE alias[a].chat]
  /\ changes = [a \in Alias |-> IF alias[a] = None THEN 0 ELSE 1]
  /\ confirmed = [seen |-> 0, was |-> 0]
  /\ repaired = {}

-----------------------------------------------------------------------------
(* Questions to the tables and to Telegram.                                *)

Exists(a) == alias[a] # None
Live(a) == Exists(a) /\ alias[a].status # "deleted"
Owned(u) == {a \in Alias : Live(a) /\ alias[a].owner = u}

(* canManageChat: the own chat, or a live answer that u administers it.    *)
CanManage(u, c) == c = u \/ (<<c, u>> \in admin /\ c \in member /\ moved[c] = None)
CanManageAlias(u, a) == Live(a) /\ CanManage(u, alias[a].chat)

(* The cached answer that rendering a menu is content with: it may still   *)
(* hold for someone who lost the rights since.                             *)
CouldManage(u, c) == c = u \/ <<c, u>> \in Admins \cup admin

(* probeChatReachability: "dead" only on Telegram's own word (the bot is    *)
(* out of the group, the user deactivated); a migrated chat is alive under *)
(* its new id.                                                             *)
Probe(c) ==
  IF c \in Group /\ moved[c] # None THEN "migrated"
  ELSE IF c \in member THEN "reachable" ELSE "dead"

(* canRecoverOrphanAlias: the creator of an alias whose chat is dead.      *)
CanRecover(u, a) == Live(a) /\ alias[a].owner = u /\ Probe(alias[a].chat) = "dead"

AuthzPath(u, a) ==
  IF CanManageAlias(u, a) THEN "admin" ELSE IF CanRecover(u, a) THEN "orphan" ELSE "none"

(* canActorUseMoveTarget: an own chat only from inside it, any other chat  *)
(* if u administers it and the bot can send there.                         *)
CanUseTarget(u, c, where) == IF c = u THEN where = u ELSE c \in Group /\ CanManage(u, c)

(* getAccessibleChats and the filters of the move picker.                  *)
Targets(u, a, where) ==
  {c \in Chat : /\ c # alias[a].chat
                /\ c = u => where = u
                /\ c # u => chat[c] = "active" /\ c \in Group /\ CouldManage(u, c)}

-----------------------------------------------------------------------------
(* Transactions and their locks.                                           *)

Held(p) == IF txn[p] = None THEN {} ELSE txn[p].held

(* lockOrder: distinct ids, ascending; k is the first of those in S.       *)
LockOrder(S, k) == k \in S /\ \A j \in S : k <= j

Blocks(p, q) == txn[q] # None /\ \E k \in Held(p) : LockOrder(txn[q].plan, k)

Start(p, t) == txn' = [txn EXCEPT ![p] = t]
Goto(p, stage, plan) == Start(p, [txn[p] EXCEPT !.stage = stage, !.plan = plan])
End(p) == Start(p, None)
At(p, kind, stage) ==
  txn[p] # None /\ txn[p].kind = kind /\ txn[p].stage = stage /\ txn[p].plan = {}

Work(kind, by, a, target, version, seen, where) ==
  [kind |-> kind, by |-> by, alias |-> a, target |-> target, version |-> version, seen |-> seen,
   where |-> where, old |-> None, owner |-> None, path |-> "none", auth |-> None, known |-> FALSE,
   doomed |-> {}, stage |-> "check", held |-> {}, plan |-> {}]

Repair(g, h, meta) ==
  [Work("repair", None, None, h, 0, 0, None) EXCEPT
     !.old = g, !.known = ~meta, !.stage = "lock", !.plan = {g}]

-----------------------------------------------------------------------------
(* Faulty variants.                                                        *)

CasAnyVersion(a, v) == Live(a)
TopicKeepsVersion(r, thread) == [r EXCEPT !.thread = thread]
NeverInactive(c) == FALSE
NoOwnerLocks(g) == {}

-----------------------------------------------------------------------------
(* What the statements do to a row.                                        *)

Free(p, k) == \A q \in Actor \ {p} : k \notin Held(q)

(* casCondition, and the updates it guards.                                *)
Cas(a, v) == Live(a) /\ alias[a].version = v
Rerouted(r, c) == [r EXCEPT !.chat = c, !.version = @ + 1]
SetTopic(r, thread) == [r EXCEPT !.thread = thread, !.version = @ + 1]
Tombstone(r) == [r EXCEPT !.status = "deleted"]

(* The chat row a transaction re-reads under the chat's migration lock.    *)
Inactive(c) == chat[c] = "inactive"

(* listAliasOwnersByChat: the users to lock.                               *)
OwnerLocks(g) == {alias[a].owner : a \in {b \in Alias : Exists(b) /\ alias[b].chat = g}}

Event(a, actor, path, old, new, auth) ==
  [alias |-> a, owner |-> alias[a].owner, actor |-> actor, path |-> path, old |-> old, new |-> new,
   auth |-> auth, nr |-> changes[a] + 1]

Id(e) == <<e.alias, e.nr>>

Change(a, row) ==
  /\ alias' = [alias EXCEPT ![a] = row]
  /\ changes' = [changes EXCEPT ![a] = @ + 1]
Applied(t) == confirmed' = [seen |-> t.seen, was |-> changes[t.alias]]

Acquire(p) ==
  /\ txn[p] # None
  /\ \E k \in txn[p].plan :
       /\ LockOrder(txn[p].plan, k) /\ Free(p, k)
       /\ Start(p, [txn[p] EXCEPT !.held = @ \cup {k}, !.plan = @ \ {k}])
  /\ UNCHANGED <<alias, chat, users, audit, telegram, news, screen, history, inputs>>

(* Postgres aborts one of two transactions that wait for each other.       *)
DeadlockAbort(p) ==
  /\ \E q \in Actor \ {p} : Blocks(p, q) /\ Blocks(q, p)
  /\ End(p)
  /\ UNCHANGED <<alias, chat, users, audit, telegram, news, screen, history, inputs>>

-----------------------------------------------------------------------------
(* Updates from users.  authMiddleware ran first: the user has a row, and  *)
(* so has the private chat the update came from.                           *)

Idle == txn["bot"] = None
Input == inputs < MaxInputs /\ inputs' = inputs + 1
Enter(u, where) ==
  /\ Input
  /\ u \in member /\ where \in {u} \cup (member \cap Group)
  /\ users' = users \cup {u}
  /\ chat' = IF where = u THEN [chat EXCEPT ![u] = "active"] ELSE chat

(* A menu is rendered: the button of a move carries its target, every      *)
(* button the routing version.  A topic is offered wherever the menu is    *)
(* open inside a topic the alias does not deliver to.                      *)
Button(kind, u, a, target, where) ==
  [kind |-> kind, by |-> u, alias |-> a, target |-> target, where |-> where,
   version |-> alias[a].version, seen |-> changes[a]]

MoveButtons(u, a, where) == {Button("move", u, a, c, where) : c \in Targets(u, a, where)}

TopicButtons(u, a, where) ==
  {Button("topic", u, a, thread, where) :
     thread \in {t \in {where} \cap Group : alias[a].thread # t}
                  \cup {t \in {None} : alias[a].thread # None}}

DeleteButtons(u, a, where) == {Button("delete", u, a, None, where)}

(* The recovery menu: move or delete, nothing else.                        *)
OrphanButtons(u, a, where) ==
  MoveButtons(u, a, where) \cup {Button("orphan", u, a, None, where)}

ShowMenu(s, u, a, where) ==
  /\ Idle /\ Live(a)
  /\ Enter(u, where)
  /\ \E b \in (IF CouldManage(u, alias[a].chat)
               THEN MoveButtons(u, a, where) \cup TopicButtons(u, a, where)
                      \cup DeleteButtons(u, a, where)
               ELSE {})
              \cup (IF CanRecover(u, a) THEN OrphanButtons(u, a, where) ELSE {}) :
       screen' = [screen EXCEPT ![s] = b]
  /\ UNCHANGED <<alias, audit, telegram, news, txn, history>>

(* A button is tapped, maybe long after and maybe twice.  A move reads the *)
(* alias first and checks later.  The recovery menu deletes as the others  *)
(* do.                                                                     *)
Tapped(b) ==
  Work(IF b.kind = "orphan" THEN "delete" ELSE b.kind,
       b.by, b.alias, b.target, b.version, b.seen, b.where)

TapMove(b) ==
  /\ b.kind = "move" /\ Live(b.alias)
  /\ Start("bot", [Tapped(b) EXCEPT !.old = alias[b.alias].chat, !.owner = alias[b.alias].owner])

(* assertAliasAccess, asked afresh before every other change.              *)
TapTopicOrDelete(b) ==
  /\ b.kind \in {"topic", "delete"} /\ CanManageAlias(b.by, b.alias)
  /\ Start("bot", [Tapped(b) EXCEPT !.stage = "write"])

TapOrphanDelete(b) ==
  /\ b.kind = "orphan" /\ CanRecover(b.by, b.alias)
  /\ Start("bot", [Tapped(b) EXCEPT !.stage = "write"])

TapButton(s) ==
  /\ Idle /\ screen[s] # None
  /\ Enter(screen[s].by, screen[s].where)
  /\ TapMove(screen[s]) \/ TapTopicOrDelete(screen[s]) \/ TapOrphanDelete(screen[s])
  /\ UNCHANGED <<alias, audit, telegram, news, screen, history>>

(* resolveManageableAlias: by full address from anywhere; by name among    *)
(* one's own in the private chat, and strictly this chat's in a group.     *)
Resolves(u, a, where, byAddress) ==
  /\ Live(a)
  /\ byAddress \/ IF where \in User THEN a \in Owned(u) ELSE alias[a].chat = where
  /\ CanManageAlias(u, a)

Command(u, a, where) ==
  /\ Idle /\ Enter(u, where)
  /\ \E byAddress \in BOOLEAN : Resolves(u, a, where, byAddress)
  /\ UNCHANGED <<alias, audit, telegram, news, screen, history>>

(* Deleted at the version the command read.                                *)
DeleteEmail(u, a, where) ==
  /\ Command(u, a, where)
  /\ Start("bot", [Work("delete", u, a, None, alias[a].version, changes[a], None) EXCEPT
                     !.stage = "write"])

(* Paused and resumed without one.                                         *)
NewStatus(u, a, status) ==
  Start("bot", [Work(status, u, a, None, 0, 0, None) EXCEPT !.stage = "write"])

PauseEmail(u, a, where) ==
  Command(u, a, where) /\ alias[a].status # "paused" /\ NewStatus(u, a, "paused")
ResumeEmail(u, a, where) ==
  Command(u, a, where) /\ alias[a].status # "active" /\ NewStatus(u, a, "active")

(* The pause and resume buttons of a menu that may be old: no look at the  *)
(* status.                                                                 *)
TapStatus(u, a, where, status) ==
  /\ Idle /\ Enter(u, where)
  /\ CanManageAlias(u, a) /\ NewStatus(u, a, status)
  /\ UNCHANGED <<alias, audit, telegram, news, screen, history>>

(* createEmailAlias, up to its locks.                                      *)
Create(u, a, c, thread, where) ==
  /\ Idle /\ Enter(u, where)
  /\ changes[a] = 0
  /\ CanManage(u, c)
  /\ Start("bot", [Work("create", u, a, c, 0, 0, None) EXCEPT
                     !.old = thread, !.stage = "lock", !.plan = {c}])
  /\ UNCHANGED <<alias, audit, telegram, news, screen, history>>

Topics(c) == {None} \cup ({c} \cap Group)

(* /newemail name: for this chat, and for the topic it is typed in.  A     *)
(* command has ended every pending dialog before it runs.                  *)
NewEmail(u, a, where) == \E thread \in Topics(where) : Create(u, a, where, thread, where)

(* The answer to a prompt for a name: for the chat of the prompt, typed    *)
(* anywhere.                                                               *)
NameReply(u, a, c, where) == \E thread \in Topics(c) : Create(u, a, c, thread, where)

(* The button "pick a name for me": for a chat, without a topic.           *)
SkipName(u, a, c, where) == Create(u, a, c, None, where)

(* /delete_me, and the delete-user command of the CLI.                     *)
EraseUser(p, u) ==
  /\ Input /\ txn[p] = None /\ u \in users /\ (p = "bot" => u \in member)
  /\ Start(p, [Work("erase", u, None, None, 0, 0, None) EXCEPT !.stage = "lock", !.plan = {u}])
  /\ UNCHANGED <<alias, chat, users, audit, telegram, news, screen, history>>

-----------------------------------------------------------------------------
(* The steps of the handlers.                                              *)

(* executeAliasMove: both ends are checked with Telegram.  The probe of a  *)
(* migrated chat repairs it, and the move is denied.                       *)
CheckMove ==
  LET t == txn["bot"]
      path == AuthzPath(t.by, t.alias)
      from == alias[t.alias].chat
  IN /\ At("bot", "move", "check")
     /\ \/ /\ path # "none" /\ CanUseTarget(t.by, t.target, t.where)
           /\ Start("bot", [t EXCEPT !.path = path, !.auth = from, !.stage = "lock",
                                     !.plan = {t.target}])
        \/ /\ path = "none" /\ Live(t.alias) /\ alias[t.alias].owner = t.by
           /\ Probe(from) = "migrated"
           /\ Start("bot", Repair(from, moved[from], FALSE))
        \/ /\ path = "none" \/ ~CanUseTarget(t.by, t.target, t.where)
           /\ ~(path = "none" /\ Live(t.alias) /\ alias[t.alias].owner = t.by
                  /\ Probe(from) = "migrated")
           /\ End("bot")
     /\ UNCHANGED <<alias, chat, users, audit, telegram, news, screen, history, inputs>>

(* The target's migration lock is held: a repaired target is refused.      *)
LockMove ==
  LET t == txn["bot"]
  IN /\ At("bot", "move", "lock")
     /\ IF Inactive(t.target) THEN End("bot")
        ELSE Goto("bot", "write", {t.owner, t.by})
     /\ UNCHANGED <<alias, chat, users, audit, telegram, news, screen, history, inputs>>

(* moveAliasWithCas: the new chat, no topic, and the audit row.            *)
WriteMove ==
  LET t == txn["bot"]
      a == t.alias
  IN /\ At("bot", "move", "write")
     /\ End("bot")
     /\ IF Cas(a, t.version)
        THEN /\ Change(a, [Rerouted(alias[a], t.target) EXCEPT !.thread = None])
             /\ audit' = audit \cup {Event(a, t.by, t.path, t.old, t.target, t.auth)}
             /\ Applied(t)
        ELSE UNCHANGED <<alias, changes, audit, confirmed>>
     /\ UNCHANGED <<chat, users, telegram, news, screen, home, repaired, inputs>>

WriteTopic ==
  LET t == txn["bot"]
  IN /\ At("bot", "topic", "write")
     /\ End("bot")
     /\ IF Cas(t.alias, t.version)
        THEN Change(t.alias, SetTopic(alias[t.alias], t.target)) /\ Applied(t)
        ELSE UNCHANGED <<alias, changes, confirmed>>
     /\ UNCHANGED <<chat, users, audit, telegram, news, screen, home, repaired, inputs>>

WriteDelete ==
  LET t == txn["bot"]
  IN /\ At("bot", "delete", "write")
     /\ End("bot")
     /\ IF Cas(t.alias, t.version)
        THEN Change(t.alias, Tombstone(alias[t.alias])) /\ Applied(t)
        ELSE UNCHANGED <<alias, changes, confirmed>>
     /\ UNCHANGED <<chat, users, audit, telegram, news, screen, home, repaired, inputs>>

(* updateAliasStatus, whatever the row holds by now.                       *)
WriteStatus ==
  LET t == txn["bot"]
  IN /\ \/ At("bot", "paused", "write")
        \/ At("bot", "active", "write")
     /\ End("bot")
     /\ alias' = IF Exists(t.alias) THEN [alias EXCEPT ![t.alias].status = t.kind] ELSE alias
     /\ UNCHANGED <<chat, users, audit, telegram, news, screen, history, inputs>>

(* Creation under the chat's lock and then the user's.                     *)
LockCreate ==
  LET t == txn["bot"]
  IN /\ At("bot", "create", "lock")
     /\ IF Inactive(t.target) THEN End("bot") ELSE Goto("bot", "write", {t.by})
     /\ UNCHANGED <<alias, chat, users, audit, telegram, news, screen, history, inputs>>

(* checkAliasCreateLimit: a user the tables know, with room for one more.  *)
AliasRoom(u) == u \in users /\ Cardinality(Owned(u)) < AliasLimit

CreatedRow(t) ==
  [status |-> "active", chat |-> t.target, thread |-> t.old, version |-> 0, owner |-> t.by]

WriteCreate ==
  LET t == txn["bot"]
  IN /\ At("bot", "create", "write")
     /\ End("bot")
     /\ \/ /\ AliasRoom(t.by)
           /\ Change(t.alias, CreatedRow(t))
           /\ home' = [home EXCEPT ![t.alias] = t.target]
        \/ UNCHANGED <<alias, changes, home>>  \* limit, daily attempts, name taken
     /\ UNCHANGED <<chat, users, audit, telegram, news, screen, confirmed, repaired, inputs>>

(* deleteHostedUser: what the deletes of the audit rows see, then the      *)
(* aliases, the private chat's row and the user.                           *)
LockErase(p) ==
  LET t == txn[p]
  IN /\ At(p, "erase", "lock")
     /\ IF t.by \notin users THEN End(p)
        ELSE Start(p, [t EXCEPT !.doomed = {Id(e) : e \in audit}, !.stage = "write"])
     /\ UNCHANGED <<alias, chat, users, audit, telegram, news, screen, history, inputs>>

WriteErase(p) ==
  LET u == txn[p].by
      kept == {e \in audit : Id(e) \notin txn[p].doomed \/ e.owner # u}
  IN /\ At(p, "erase", "write")
     /\ End(p)
     /\ audit' = {[e EXCEPT !.actor = IF @ = u /\ Id(e) \in txn[p].doomed THEN None ELSE @]
                   : e \in kept}
     /\ alias' = [a \in Alias |-> IF Exists(a) /\ alias[a].owner = u THEN None ELSE alias[a]]
     /\ chat' = [chat EXCEPT ![u] = "none"]
     /\ users' = users \ {u}
     /\ UNCHANGED <<telegram, news, screen, history, inputs>>

-----------------------------------------------------------------------------
(* repairChatMigration.                                                    *)

(* A send fails because the chat migrated.                                 *)
ReactiveRepair(g) ==
  /\ txn["delivery"] = None /\ moved[g] # None /\ g \notin repaired
  /\ Start("delivery", Repair(g, moved[g], FALSE))
  /\ UNCHANGED <<alias, chat, users, audit, telegram, news, screen, history, inputs>>

LockRepair(p) ==
  LET t == txn[p]
  IN /\ At(p, "repair", "lock")
     /\ Start(p, [t EXCEPT !.known = @ /\ chat[t.target] # "none", !.stage = "write",
                           !.plan = OwnerLocks(t.old)])
     /\ UNCHANGED <<alias, chat, users, audit, telegram, news, screen, history, inputs>>

(* Every alias of the chat, tombstones too, each with an audit row; topics *)
(* survive, under the supergroup's name for them.                          *)
WriteRepair(p) ==
  LET g == txn[p].old
      h == txn[p].target
      there == {a \in Alias : Exists(a) /\ alias[a].chat = g}
  IN /\ At(p, "repair", "write")
     /\ End(p)
     /\ alias' = [a \in Alias |->
          IF a \in there
          THEN [Rerouted(alias[a], h) EXCEPT !.thread = IF @ = g THEN h ELSE @]
          ELSE alias[a]]
     /\ changes' = [a \in Alias |-> IF a \in there THEN changes[a] + 1 ELSE changes[a]]
     /\ audit' = audit \cup {Event(a, None, "migration", g, h, g) : a \in there}
     /\ chat' = [chat EXCEPT ![h] = IF txn[p].known THEN @ ELSE "active",
                             ![g] = IF @ = "active" THEN "inactive" ELSE @]
     /\ repaired' = repaired \cup {g}
     /\ UNCHANGED <<users, telegram, news, screen, home, confirmed, inputs>>

(* ensureHostedActingUser: whoever added the bot gets a row, unless the    *)
(* onboarding limit refuses it.                                            *)
Invited(u) == users' \in {users, users \cup {u}}

(* my_chat_member: a chat the bot joined is registered, one it left is     *)
(* deactivated.                                                            *)
Membership(n) ==
  /\ chat' = [chat EXCEPT ![n.chat] =
                IF n.kind = "in" THEN "active" ELSE IF @ = "none" THEN @ ELSE "inactive"]
  /\ IF n.kind = "in" THEN \E u \in User : Invited(u) ELSE UNCHANGED users

(* An update about a chat: the bot's own membership, or one of the two     *)
(* service messages of a migration.                                        *)
HandleNews(n) ==
  /\ Idle /\ n \in news
  /\ news' = news \ {n}
  /\ IF n.kind = "migrated"
     THEN Start("bot", Repair(n.chat, moved[n.chat], n.meta)) /\ UNCHANGED <<chat, users>>
     ELSE Membership(n) /\ UNCHANGED txn
  /\ UNCHANGED <<alias, audit, telegram, screen, history, inputs>>

(* Cleanup purges an old tombstone.                                        *)
PurgeTombstone(a) ==
  /\ Exists(a) /\ alias[a].status = "deleted"
  /\ alias' = [alias EXCEPT ![a] = None]
  /\ UNCHANGED <<chat, users, audit, telegram, news, screen, txn, history, inputs>>

-----------------------------------------------------------------------------
(* Telegram.                                                               *)

News(kind, c, meta) == [kind |-> kind, chat |-> c, meta |-> meta]

LoseAdmin(g, u) ==
  /\ Input /\ <<g, u>> \in admin
  /\ admin' = admin \ {<<g, u>>}
  /\ UNCHANGED <<alias, chat, users, audit, member, moved, news, screen, txn, history>>

BotRemoved(g) ==
  /\ Input /\ g \in member /\ moved[g] = None
  /\ member' = member \ {g}
  /\ news' = (news \ {News("in", g, FALSE)}) \cup {News("out", g, FALSE)}
  /\ UNCHANGED <<alias, chat, users, audit, admin, moved, screen, txn, history>>

BotAdded(g) ==
  /\ Input /\ g \notin member /\ moved[g] = None /\ \A h \in Group : Supergroup[h] # g
  /\ member' = member \cup {g}
  /\ news' = (news \ {News("out", g, FALSE)}) \cup {News("in", g, FALSE)}
  /\ UNCHANGED <<alias, chat, users, audit, admin, moved, screen, txn, history>>

(* A user deletes their account: nothing reaches them, they ask nothing.   *)
Deactivate(u) ==
  /\ Input /\ u \in member
  /\ member' = member \ {u}
  /\ UNCHANGED <<alias, chat, users, audit, admin, moved, news, screen, txn, history>>

Migrate(g) ==
  LET h == Supergroup[g]
  IN /\ Input /\ h # None /\ g \in member /\ moved[g] = None
     /\ moved' = [moved EXCEPT ![g] = h]
     /\ member' = (member \ {g}) \cup {h}
     /\ admin' = {IF x[1] = g THEN <<h, x[2]>> ELSE x : x \in admin}
     /\ news' = news \cup {News("migrated", g, FALSE), News("migrated", g, TRUE)}
     /\ UNCHANGED <<alias, chat, users, audit, screen, txn, history>>

-----------------------------------------------------------------------------
FromUser ==
  \/ \E s \in Screen, u \in User, a \in Alias, w \in Chat : ShowMenu(s, u, a, w)
  \/ \E s \in Screen : TapButton(s)
  \/ \E u \in User, a \in Alias, w \in Chat :
       \/ DeleteEmail(u, a, w) \/ PauseEmail(u, a, w) \/ ResumeEmail(u, a, w)
       \/ \E status \in {"paused", "active"} : TapStatus(u, a, w, status)
       \/ NewEmail(u, a, w)
       \/ \E c \in Chat : NameReply(u, a, c, w) \/ SkipName(u, a, c, w)
  \/ \E p \in {"bot", "cli"}, u \in User : EraseUser(p, u)

Handlers ==
  \/ \E p \in Actor : Acquire(p) \/ DeadlockAbort(p)
  \/ CheckMove \/ LockMove \/ WriteMove
  \/ WriteTopic \/ WriteDelete \/ WriteStatus
  \/ LockCreate \/ WriteCreate
  \/ \E p \in {"bot", "cli"} : LockErase(p) \/ WriteErase(p)
  \/ \E g \in Group : ReactiveRepair(g)
  \/ \E p \in {"bot", "delivery"} : LockRepair(p) \/ WriteRepair(p)
  \/ \E n \in news : HandleNews(n)
  \/ \E a \in Alias : PurgeTombstone(a)

Telegram ==
  \/ \E g \in Group, u \in User : LoseAdmin(g, u)
  \/ \E g \in Group : BotRemoved(g) \/ BotAdded(g) \/ Migrate(g)
  \/ \E u \in User : Deactivate(u)

Next == FromUser \/ Handlers \/ Telegram

Spec == Init /\ [][Next]_vars

-----------------------------------------------------------------------------
(* Properties.                                                             *)

(* Tables have the columns of the schema, and no advisory lock is held by  *)
(* two transactions at once.                                               *)
TypeOK ==
  /\ alias \in [Alias -> Row \cup {None}]
  /\ chat \in [Chat -> {"none", "active", "inactive"}]
  /\ users \subseteq User /\ audit \subseteq AuditRow
  /\ admin \subseteq Group \X User /\ member \subseteq Chat
  /\ moved \in [Group -> Group \cup {None}]
  /\ news \subseteq ChatNews
  /\ screen \in [Screen -> ButtonData \cup {None}]
  /\ txn \in [Actor -> Handler \cup {None}]
  /\ inputs \in 0..MaxInputs
  /\ home \in [Alias -> Chat \cup {None}] /\ changes \in [Alias -> Nat]
  /\ confirmed \in [seen : Nat, was : Nat] /\ repaired \subseteq Group
  /\ \A p, q \in Actor : p # q => Held(p) \cap Held(q) = {}

Trail(a) == {e \in audit : e.alias = a}

\* c is where the changes of alias a before the one numbered n had led.
LedTo(a, n, c) ==
  \/ c = home[a] /\ \A e \in Trail(a) : e.nr >= n
  \/ \E f \in Trail(a) : f.nr < n /\ f.new = c /\ \A e \in Trail(a) : e.nr <= f.nr \/ e.nr >= n

Chain(a) ==
  /\ \A e \in Trail(a) : LedTo(a, e.nr, e.old) /\ e.auth = e.old
  /\ \A e, f \in Trail(a) : e.nr = f.nr => e = f
  /\ LedTo(a, changes[a] + 1, alias[a].chat)

(* The audit trail of an alias (alias_move_events) leads from the chat it  *)
(* was created for to the chat it delivers to, without a gap: no move or   *)
(* re-key is missing, and none records a chat the alias had already left.  *)
AuditChain == \A a \in Alias : Exists(a) => Chain(a)

(* Once repairChatMigration has re-keyed a chat, no alias delivers to its  *)
(* old id again, whatever creation or move was under way.                  *)
RepairedChatEmpty == \A a \in Alias : Exists(a) => alias[a].chat \notin repaired

(* A confirmation (move, topic, delete) takes effect only on the routing   *)
(* state it was shown for, an A -> B -> A round trip included.             *)
ConfirmedAsShown == confirmed.seen = confirmed.was

(* Erasing a user leaves no audit row of an alias they owned.              *)
ErasedOwnerLeavesNoAudit == \A e \in audit : e.owner \in users

=============================================================================
