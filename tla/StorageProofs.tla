--------------------------- MODULE StorageProofs ---------------------------
(***************************************************************************)
(* Proofs about Storage, for every set of attachments, any number of       *)
(* operations and interruptions, and all sizes and limits.  IInv is the    *)
(* inductive invariant; its parts are named for what they are about.       *)
(***************************************************************************)
EXTENDS Storage, FiniteSetTheorems, TLAPS

(* What an operation may have in hand at each of its steps.                *)
PrepShape(o) ==
  /\ o.pc \in {"begin", "store", "insert", "end"}
  /\ o.todo \subseteq Att /\ o.done \subseteq Att /\ o.done \cap o.todo = {}
  /\ o.pc = "begin" => o.done = {}
  /\ o.pc = "insert" => o.p \in Att \ (o.todo \cup o.done)

CleanupShape(o) ==
  /\ o.pc \in {"att", "attTx", "raw", "rawTx", "logs", "links", "end"}
  /\ o.pc \in {"att", "attTx"} => o.todo \subseteq Att
  /\ o.pc \in {"raw", "rawTx"} => o.todo \subseteq {Raw}
  /\ o.pc = "attTx" => o.p \in Att
  /\ o.pc = "rawTx" => o.p = Raw /\ o.todo = {}

BackfillShape(o) ==
  /\ o.pc \in {"read", "replace", "row", "clear", "end"}
  /\ o.todo \subseteq (IF o.phase = "att" THEN Att ELSE {Raw})
  /\ o.pc \in {"replace", "row", "clear"} =>
       IF o.phase = "att" THEN o.p \in Att ELSE o.p = Raw

Shape(o) ==
  /\ o.kind = "prep" => PrepShape(o)
  /\ o.kind = "cleanup" => CleanupShape(o)
  /\ o.kind = "backfill" => BackfillShape(o)
  /\ o.kind = "download" => o.p \in Att /\ o.pc \in {"claim", "open", "stream", "end"}
  /\ o.kind = "view" => o.todo \subseteq Att /\ o.pc \in {"claim", "stream", "end"}
  /\ o.kind = "erase" => o.pc \in {"rows", "files", "end"}
  /\ o.kind \in {"idle", "resend"} => o.pc = "end"

Shapes == \A i \in Slot : Shape(ops[i])

(* The mail is prepared once; until that is over it has no attachment row  *)
(* and nobody has an attachment in hand.                                   *)
Fresh == log.stage = "queued" \/ Live("prep") # {}

OnePrep ==
  /\ log.stage = "queued" => \A i \in Slot : ops[i].kind # "prep"
  /\ \A i, j \in Slot : ops[i].kind = "prep" /\ ops[j].kind = "prep" => i = j

HandsOff(o) ==
  /\ o.kind = "cleanup" => o.todo \cap Att = {} /\ o.pc # "attTx"
  /\ o.kind = "backfill" /\ o.phase = "att" => o.todo = {} /\ o.pc \in {"read", "end"}

Untouched == Fresh => Existing = {} /\ \A i \in Slot : HandsOff(ops[i])

(* The owner's lock: a preparation and an erasure exclude each other.      *)
Locks == Preparing = {} \/ Erasing = {}

Preparation == OnePrep /\ Untouched /\ Locks

(* Who has unlinked a file may count on it being gone.                     *)
Gone(p) == ~disk[p].file \/ p \in lost

FileOK(o) ==
  /\ o.kind = "cleanup" /\ o.pc = "attTx" => Gone(o.p)
  /\ o.kind = "cleanup" /\ o.pc = "rawTx" => Gone(Raw)
  /\ o.kind = "erase" /\ o.pc = "rows" =>
       Existing \subseteq o.todo /\ (log.here /\ log.raw => Raw \in o.todo)

Files ==
  /\ NoStrandedFile
  /\ ~log.raw => Gone(Raw)
  /\ \A i \in Slot : FileOK(ops[i])

(* What is encrypted with which key, and who is about to write it down.    *)
KeyOK(i, o) ==
  /\ o.kind = "prep" /\ o.pc # "end" =>
       \A a \in Att : a \in o.done \/ (o.pc = "insert" /\ a = o.p) => disk[a].body = <<i>>
  /\ o.kind = "backfill" /\ o.pc # "end" /\ o.phase = "att" =>
       /\ \A a \in o.todo : HasRow(a) => rows[a].dek = None
       /\ o.pc \in {"replace", "row", "clear"} => o.p \notin o.todo
       /\ o.pc = "replace" /\ HasRow(o.p) =>
            rows[o.p].dek = None /\ disk[o.p].note = o.n /\ o.got = 0 /\ o.n # None
       /\ o.pc = "row" /\ HasRow(o.p) =>
            /\ rows[o.p].dek = None /\ disk[o.p].note = o.n /\ o.n # None
            /\ disk[o.p].body = <<o.n>>
       /\ o.pc = "clear" /\ HasRow(o.p) =>
            rows[o.p].dek = o.n /\ disk[o.p].body = <<o.n>> /\ o.n # None

OneBackfill == \A i, j \in Live("backfill") : i = j

Keys ==
  /\ AttachmentReadable
  /\ OneBackfill
  /\ \A i \in Slot : KeyOK(i, ops[i])

(* Bytes stored.                                                           *)
InHand(o) == o.todo \cup o.done \cup (IF o.pc = "insert" THEN {o.p} ELSE {})

AttBytes ==
  /\ user => usage.att >= Elsewhere + Bytes(Existing)
  /\ user /\ Fresh => usage.att >= Elsewhere + Bytes(Att)
  /\ \A i \in Live("prep") : ops[i].n + Cardinality(InHand(ops[i])) <= Cardinality(Att)

RawInHand(o) == o.kind = "cleanup" /\ (o.pc = "rawTx" \/ (o.pc = "raw" /\ Raw \in o.todo))

RawBytes ==
  ~overlap =>
    /\ user => usage.raw = Elsewhere + (IF log.here /\ log.raw THEN 1 ELSE 0)
    /\ \A i, j \in Live("cleanup") : i = j
    /\ \A i \in Slot : RawInHand(ops[i]) /\ log.here => log.raw

(* Bytes served: what is reserved for a download that is about to open its *)
(* file is charged and not yet counted as served.                          *)
Opening == {i \in Slot : At(i, "download", "open")}

EgressBytes ==
  user => served + Bytes(Opening) <= egress /\ egress <= EgressLimit

(* A link that is spent never comes back: a slot issues its links once.    *)
HasIssued(o) ==
  \/ o.kind = "resend"
  \/ o.kind = "prep" /\ o.pc = "end"
  \/ o.kind = "view" /\ o.pc # "claim"

Issued(n) == n = 0 \/ (n \in Slot /\ HasIssued(ops[n]))

Taken(o) == o.kind = "download" /\ (o.pc \in {"open", "stream"} \/ o.got > 0)

Spent(l) == l \in used \/ l \notin links

Links ==
  /\ \A l \in links : Issued(l[2])
  /\ \A i \in Slot : ops[i].kind = "download" => Issued(ops[i].n)
  /\ \A i \in Slot : Taken(ops[i]) => Spent(LinkOf(i))
  /\ \A i, j \in Slot : i # j /\ Taken(ops[i]) /\ Taken(ops[j]) => LinkOf(i) # LinkOf(j)

Views == Cardinality(Shown) + (IF Unviewed THEN 1 ELSE 0) <= issued

Core == TypeOK /\ Shapes /\ Preparation

IInv == Core /\ Files /\ Keys /\ AttBytes /\ RawBytes /\ EgressBytes /\ Links /\ Views
-----------------------------------------------------------------------------
(* What each step does to the operation that takes it.                     *)

USE StorageAssumption DEF StorageAssumption

(* Operation i moves, the others stay.                                     *)
Moves(i) ==
  /\ ops' \in [Slot -> Operation]
  /\ \A j \in Slot : j # i => ops'[j] = ops[j]

(* Operation i begins, in an idle slot, with nothing done yet.             *)
Begins(i, kind, pc) ==
  /\ Moves(i) /\ ops[i].kind = "idle"
  /\ ops'[i].kind = kind /\ ops'[i].pc = pc /\ ops'[i].done = {} /\ ops'[i].got = 0
  /\ ops'[i].phase = "att"

(* Operation i of that kind goes from one step to another and keeps the    *)
(* fields that only its own kind uses otherwise.                           *)
Goes(i, kind, from, to) ==
  /\ Moves(i) /\ ops[i].kind = kind /\ ops[i].pc = from
  /\ ops'[i].kind = kind /\ ops'[i].pc = to

(* Operation i ends and leaves its path, its number and its bytes.         *)
Ends(i, kind, from, got) ==
  /\ Goes(i, kind, from, "end")
  /\ ops'[i].todo = {} /\ ops'[i].done = {} /\ ops'[i].p = ops[i].p
  /\ ops'[i].n = ops[i].n /\ ops'[i].got = got

(* A slot takes a new value.                                               *)
LEMMA StepMoves ==
  ASSUME TypeOK, NEW i \in Slot, NEW o \in Operation, Step(i, o)
  PROVE  Moves(i) /\ ops'[i] = o
  BY DEF Step, Moves, TypeOK

(* A fresh operation is well typed.                                        *)
LEMMA OpIsOperation ==
  ASSUME NEW k \in Kind, NEW c \in Pc, NEW t \in SUBSET Path
  PROVE  /\ Op(k, c, t) \in Operation
         /\ Op(k, c, t).kind = k /\ Op(k, c, t).pc = c /\ Op(k, c, t).todo = t
         /\ Op(k, c, t).done = {} /\ Op(k, c, t).got = 0 /\ Op(k, c, t).phase = "att"
         /\ Op(k, c, t).n = 0
  BY DEF Op, Idle, Operation, Path, Phase, None

(* A new operation begins.                                                 *)
LEMMA StartBegins ==
  ASSUME TypeOK, NEW i \in Slot, NEW k \in Kind, NEW c \in Pc, NEW t \in SUBSET Path,
         Start(i, Op(k, c, t))
  PROVE  Begins(i, k, c) /\ ops'[i].todo = t /\ ops'[i].n = 0
  BY StepMoves, OpIsOperation DEF Start, Begins

(* An operation finishes.                                                  *)
LEMMA FinishEnds ==
  ASSUME TypeOK, NEW i \in Slot, NEW got \in Nat, Finish(i, got)
  PROVE  Ends(i, ops[i].kind, ops[i].pc, got)
  <1>1. ops[i] \in Operation
    BY DEF TypeOK
  <1>2. PICK o : o = [Idle EXCEPT !.kind = ops[i].kind, !.p = ops[i].p, !.n = ops[i].n, !.got = got]
    OBVIOUS
  <1>3. /\ o \in Operation /\ o.kind = ops[i].kind /\ o.pc = "end" /\ o.todo = {} /\ o.done = {}
        /\ o.p = ops[i].p /\ o.n = ops[i].n /\ o.got = got
    BY <1>1, <1>2 DEF Operation, Idle, Path, Phase, Pc, None
  <1>4. Step(i, o)
    BY <1>2 DEF Finish
  <1> QED BY <1>3, <1>4, StepMoves DEF Ends, Goes

(* A preparation begins.                                                   *)
LEMMA BeginPrepDoes ==
  ASSUME TypeOK, NEW i \in Slot, BeginPrep(i)
  PROVE  Begins(i, "prep", "begin") /\ ops'[i].todo = Att /\ ops'[i].n = 0
  BY StartBegins DEF BeginPrep, Kind, Pc, Path

(* It gets the lock and its alias, or ends.                                *)
LEMMA LockPrepDoes ==
  ASSUME TypeOK, NEW i \in Slot, LockPrep(i)
  PROVE  \/ /\ Goes(i, "prep", "begin", "store") /\ ops'[i].todo = ops[i].todo
            /\ ops'[i].done = ops[i].done /\ ops'[i].n = ops[i].n
         \/ Ends(i, "prep", "begin", 0)
  <1>1. ops[i] \in Operation /\ ops[i].kind = "prep" /\ ops[i].pc = "begin"
    BY DEF TypeOK, LockPrep, At
  <1>2. CASE Step(i, [ops[i] EXCEPT !.pc = "store"])
    <2>1. PICK o : o = [ops[i] EXCEPT !.pc = "store"]
      OBVIOUS
    <2>2. o \in Operation /\ o.pc = "store" /\ o.kind = ops[i].kind
          /\ o.todo = ops[i].todo /\ o.done = ops[i].done /\ o.n = ops[i].n
      BY <1>1, <2>1 DEF Operation, Pc
    <2>3. Moves(i) /\ ops'[i] = o
      BY <1>2, <2>1, <2>2, StepMoves
    <2> QED BY <1>1, <1>2, <2>2, <2>3 DEF Goes
  <1>3. CASE Finish(i, 0)
    BY <1>1, <1>3, FinishEnds
  <1> QED BY <1>2, <1>3 DEF LockPrep

(* It writes a file, or fails to.                                          *)
LEMMA WriteAttachmentDoes ==
  ASSUME TypeOK, NEW i \in Slot, WriteAttachment(i)
  PROVE  \E a \in ops[i].todo :
           /\ ops'[i].todo = ops[i].todo \ {a} /\ ops'[i].done = ops[i].done
           /\ \/ /\ Goes(i, "prep", "store", "insert") /\ ops'[i].p = a /\ ops'[i].n = ops[i].n
                 /\ disk' = [disk EXCEPT ![a] = [@ EXCEPT !.file = TRUE, !.body = <<i>>]]
              \/ /\ Goes(i, "prep", "store", "store") /\ ops'[i].n <= ops[i].n + 1
                 /\ UNCHANGED disk
  <1>1. PICK a \in ops[i].todo :
          \/ /\ disk' = [disk EXCEPT ![a] = [@ EXCEPT !.file = TRUE, !.body = <<i>>]]
             /\ Step(i, [ops[i] EXCEPT !.pc = "insert", !.p = a, !.todo = @ \ {a}])
          \/ /\ Step(i, [ops[i] EXCEPT !.todo = @ \ {a}, !.n = IF ops[i].ok THEN @ + 1 ELSE @])
             /\ UNCHANGED disk
    BY DEF WriteAttachment
  <1>2. ops[i] \in Operation /\ ops[i].kind = "prep" /\ ops[i].pc = "store"
    BY DEF TypeOK, WriteAttachment, At
  <1>3. ASSUME Step(i, [ops[i] EXCEPT !.pc = "insert", !.p = a, !.todo = @ \ {a}])
        PROVE  /\ Goes(i, "prep", "store", "insert") /\ ops'[i].p = a /\ ops'[i].n = ops[i].n
               /\ ops'[i].todo = ops[i].todo \ {a} /\ ops'[i].done = ops[i].done
    <2>1. PICK o : o = [ops[i] EXCEPT !.pc = "insert", !.p = a, !.todo = @ \ {a}]
      OBVIOUS
    <2>2. o \in Operation /\ o.pc = "insert" /\ o.kind = ops[i].kind /\ o.p = a
          /\ o.todo = ops[i].todo \ {a} /\ o.done = ops[i].done /\ o.n = ops[i].n
      BY <1>2, <2>1 DEF Operation, Pc
    <2>3. Moves(i) /\ ops'[i] = o
      BY <1>3, <2>1, <2>2, StepMoves
    <2> QED BY <1>2, <1>3, <2>2, <2>3 DEF Goes
  <1>4. ASSUME Step(i, [ops[i] EXCEPT !.todo = @ \ {a}, !.n = IF ops[i].ok THEN @ + 1 ELSE @])
        PROVE  /\ Goes(i, "prep", "store", "store") /\ ops'[i].n <= ops[i].n + 1
               /\ ops'[i].todo = ops[i].todo \ {a} /\ ops'[i].done = ops[i].done
    <2>0. PICK n \in Nat : n = (IF ops[i].ok THEN ops[i].n + 1 ELSE ops[i].n) /\ n <= ops[i].n + 1
      BY <1>2 DEF Operation
    <2>4. Step(i, [ops[i] EXCEPT !.todo = @ \ {a}, !.n = n])
      BY <1>4, <2>0
    <2>1. PICK o : o = [ops[i] EXCEPT !.todo = @ \ {a}, !.n = n]
      OBVIOUS
    <2>2. o \in Operation /\ o.pc = ops[i].pc /\ o.kind = ops[i].kind /\ o.n = n
          /\ o.todo = ops[i].todo \ {a} /\ o.done = ops[i].done
      BY <1>2, <2>1 DEF Operation, Pc
    <2>3. Moves(i) /\ ops'[i] = o
      BY <2>4, <2>1, <2>2, StepMoves
    <2> QED BY <2>0, <1>2, <2>4, <2>2, <2>3 DEF Goes
  <1> QED BY <1>1, <1>3, <1>4

(* Its row is created, or the transaction is aborted.                      *)
LEMMA InsertAttachmentDoes ==
  ASSUME TypeOK, NEW i \in Slot, InsertAttachment(i)
  PROVE  /\ Goes(i, "prep", "insert", "store")
         /\ ops'[i].todo = ops[i].todo /\ ops'[i].n = ops[i].n
         /\ \/ ops'[i].done = ops[i].done \cup {ops[i].p} /\ UNCHANGED <<disk, lost>>
            \/ /\ ops'[i].done = ops[i].done
               /\ \/ disk' = [disk EXCEPT ![ops[i].p].file = FALSE] /\ UNCHANGED lost
                  \/ lost' = lost \cup {ops[i].p} /\ UNCHANGED disk
  <1>1. ops[i] \in Operation /\ ops[i].kind = "prep" /\ ops[i].pc = "insert"
    BY DEF TypeOK, InsertAttachment, At
  <1>2. ASSUME NEW linked \in BOOLEAN,
               Step(i, [ops[i] EXCEPT !.pc = "store", !.done = @ \cup {ops[i].p}, !.ok = linked])
        PROVE  /\ Goes(i, "prep", "insert", "store")
               /\ ops'[i].todo = ops[i].todo /\ ops'[i].n = ops[i].n
               /\ ops'[i].done = ops[i].done \cup {ops[i].p}
    <2>1. PICK o : o = [ops[i] EXCEPT !.pc = "store", !.done = @ \cup {ops[i].p}, !.ok = linked]
      OBVIOUS
    <2>2. o \in Operation /\ o.pc = "store" /\ o.kind = ops[i].kind /\ o.n = ops[i].n
          /\ o.todo = ops[i].todo /\ o.done = ops[i].done \cup {ops[i].p}
      BY <1>1, <2>1 DEF Operation, Pc
    <2>3. Moves(i) /\ ops'[i] = o
      BY <1>2, <2>1, <2>2, StepMoves
    <2> QED BY <1>1, <1>2, <2>2, <2>3 DEF Goes
  <1>3. ASSUME Step(i, [ops[i] EXCEPT !.pc = "store", !.ok = FALSE])
        PROVE  /\ Goes(i, "prep", "insert", "store")
               /\ ops'[i].todo = ops[i].todo /\ ops'[i].n = ops[i].n /\ ops'[i].done = ops[i].done
    <2>0. PICK no \in BOOLEAN : no = FALSE
      BY Zenon
    <2>4. Step(i, [ops[i] EXCEPT !.pc = "store", !.ok = no])
      BY <1>3, <2>0
    <2>1. PICK o : o = [ops[i] EXCEPT !.pc = "store", !.ok = no]
      OBVIOUS
    <2>2. o \in Operation /\ o.pc = "store" /\ o.kind = ops[i].kind /\ o.n = ops[i].n
          /\ o.todo = ops[i].todo /\ o.done = ops[i].done
      BY <1>1, <2>1 DEF Operation, Pc
    <2>3. Moves(i) /\ ops'[i] = o
      BY <2>4, <2>1, <2>2, StepMoves
    <2> QED BY <1>1, <2>4, <2>2, <2>3 DEF Goes
  <1> QED BY <1>2, <1>3 DEF InsertAttachment

(* It commits or rolls back.                                               *)
LEMMA CommitPrepDoes ==
  ASSUME TypeOK, NEW i \in Slot, CommitPrep(i)
  PROVE  /\ Goes(i, "prep", "store", "end")
         /\ ops[i].todo = {} /\ ops'[i].todo = {} /\ ops'[i].done = {}
  <1>1. ops[i] \in Operation /\ ops[i].kind = "prep" /\ ops[i].pc = "store" /\ ops[i].todo = {}
        /\ Step(i, [Idle EXCEPT !.kind = "prep"])
    BY DEF TypeOK, CommitPrep, At
  <1>2. PICK o : o = [Idle EXCEPT !.kind = "prep"]
    OBVIOUS
  <1>3. o \in Operation /\ o.kind = "prep" /\ o.pc = "end" /\ o.todo = {} /\ o.done = {}
    BY <1>2 DEF Operation, Idle, Path, Phase, Pc, None, Kind
  <1>4. Moves(i) /\ ops'[i] = o
    BY <1>1, <1>2, <1>3, StepMoves
  <1> QED BY <1>1, <1>3, <1>4 DEF Goes

(* A retry reads the mail and issues links.                                *)
LEMMA ResendDoes ==
  ASSUME TypeOK, NEW i \in Slot, Resend(i)
  PROVE  Begins(i, "resend", "end") /\ ops'[i].todo = {}
  BY StartBegins DEF Resend, Kind, Pc, Path

(* A download remembers the link it found.                                 *)
LEMMA BeginDownloadDoes ==
  ASSUME TypeOK, NEW i \in Slot, BeginDownload(i)
  PROVE  /\ Begins(i, "download", "claim") /\ ops'[i].todo = {}
         /\ \E l \in links \ used : ops'[i].p = l[1] /\ ops'[i].n = l[2]
  <1>1. PICK l \in links \ used :
          Start(i, [Op("download", "claim", {}) EXCEPT !.p = l[1], !.n = l[2], !.dek = rows[l[1]].dek])
    BY DEF BeginDownload
  <1>2. l[1] \in Att /\ l[2] \in Nat /\ rows[l[1]].dek \in Nat
    BY DEF TypeOK
  <1>3. PICK b : b = Op("download", "claim", {})
    OBVIOUS
  <1>4. /\ b \in Operation /\ b.kind = "download" /\ b.pc = "claim" /\ b.todo = {} /\ b.done = {}
        /\ b.got = 0 /\ b.phase = "att"
    BY <1>3, OpIsOperation DEF Kind, Pc
  <1>5. PICK o : o = [b EXCEPT !.p = l[1], !.n = l[2], !.dek = rows[l[1]].dek]
    OBVIOUS
  <1>6. /\ o \in Operation /\ o.kind = "download" /\ o.pc = "claim" /\ o.todo = {} /\ o.done = {}
        /\ o.got = 0 /\ o.phase = "att" /\ o.p = l[1] /\ o.n = l[2]
    BY <1>2, <1>4, <1>5 DEF Operation, Path
  <1>7. Moves(i) /\ ops'[i] = o /\ ops[i].kind = "idle"
    BY <1>1, <1>3, <1>5, <1>6, StepMoves DEF Start
  <1> QED BY <1>6, <1>7 DEF Begins

(* It claims its link, or ends.                                            *)
LEMMA ClaimDownloadDoes ==
  ASSUME TypeOK, NEW i \in Slot, ClaimDownload(i)
  PROVE  \/ /\ Goes(i, "download", "claim", "open")
            /\ ops'[i].p = ops[i].p /\ ops'[i].n = ops[i].n /\ ops'[i].got = ops[i].got
            /\ ops'[i].todo = ops[i].todo
         \/ Ends(i, "download", "claim", 0)
  <1>1. ops[i] \in Operation /\ ops[i].kind = "download" /\ ops[i].pc = "claim"
    BY DEF TypeOK, ClaimDownload, At
  <1>2. CASE Step(i, [ops[i] EXCEPT !.pc = "open"])
    <2>1. PICK o : o = [ops[i] EXCEPT !.pc = "open"]
      OBVIOUS
    <2>2. /\ o \in Operation /\ o.kind = ops[i].kind /\ o.pc = "open" /\ o.phase = ops[i].phase
          /\ o.todo = ops[i].todo /\ o.done = ops[i].done /\ o.p = ops[i].p /\ o.n = ops[i].n
          /\ o.got = ops[i].got
      BY <1>1, <2>1 DEF Operation, Pc, Phase
    <2>3. Moves(i) /\ ops'[i] = o
      BY <1>2, <2>1, <2>2, StepMoves
    <2> QED BY <1>1, <1>2, <2>2, <2>3 DEF Goes
  <1>3. CASE Finish(i, 0)
    BY <1>1, <1>3, FinishEnds
  <1> QED BY <1>2, <1>3 DEF ClaimDownload

(* It opens the file, or ends.                                             *)
LEMMA OpenDownloadDoes ==
  ASSUME TypeOK, NEW i \in Slot, OpenDownload(i)
  PROVE  \/ /\ Goes(i, "download", "open", "stream")
            /\ ops'[i].p = ops[i].p /\ ops'[i].n = ops[i].n /\ ops'[i].todo = ops[i].todo
            /\ ops'[i].got = Size
         \/ Ends(i, "download", "open", 0)
  <1>1. ops[i] \in Operation /\ ops[i].kind = "download" /\ ops[i].pc = "open"
    BY DEF TypeOK, OpenDownload, At
  <1>2. CASE Step(i, [ops[i] EXCEPT !.pc = "stream", !.got = Size])
    <2>1. PICK o : o = [ops[i] EXCEPT !.pc = "stream", !.got = Size]
      OBVIOUS
    <2>2. /\ o \in Operation /\ o.kind = ops[i].kind /\ o.pc = "stream"
          /\ o.phase = ops[i].phase /\ o.todo = ops[i].todo /\ o.done = ops[i].done
          /\ o.p = ops[i].p /\ o.n = ops[i].n /\ o.got = Size
      BY <1>1, <2>1 DEF Operation, Pc, Phase
    <2>3. Moves(i) /\ ops'[i] = o
      BY <1>2, <2>1, <2>2, StepMoves
    <2> QED BY <1>1, <1>2, <2>2, <2>3 DEF Goes
  <1>3. CASE Finish(i, 0)
    BY <1>1, <1>3, FinishEnds
  <1> QED BY <1>2, <1>3 DEF OpenDownload

(* A stream ends with what it has sent.                                    *)
LEMMA EndStreamDoes ==
  ASSUME TypeOK, NEW i \in Slot, EndStream(i)
  PROVE  \E k \in {"download", "view"}, sent \in Nat :
           /\ Ends(i, k, "stream", sent) /\ sent <= ops[i].got
           /\ served' = served - (ops[i].got - sent)
           /\ UNCHANGED egress \/ Release(ops[i].got - sent)
  <1>1. ops[i] \in Operation /\ ops[i].kind \in {"download", "view"} /\ ops[i].pc = "stream"
        /\ ops[i].got \in Nat /\ served \in Int
    BY DEF TypeOK, EndStream, Operation
  <1>2. CASE Finish(i, ops[i].got) /\ UNCHANGED <<egress, served>>
    <2>1. Ends(i, ops[i].kind, "stream", ops[i].got)
      BY <1>1, <1>2, FinishEnds
    <2>2. served' = served - (ops[i].got - ops[i].got)
      BY <1>1, <1>2
    <2> QED BY <1>1, <1>2, <2>1, <2>2
  <1>3. CASE \E sent \in 0..(ops[i].got - 1) :
               /\ Finish(i, sent) /\ served' = served - (ops[i].got - sent)
               /\ Release(Unsent(ops[i].got, sent))
    <2>1. PICK sent \in 0..(ops[i].got - 1) :
            /\ Finish(i, sent) /\ served' = served - (ops[i].got - sent)
            /\ Release(Unsent(ops[i].got, sent))
      BY <1>3
    <2>2. sent \in Nat /\ sent <= ops[i].got
      BY <1>1
    <2>3. Ends(i, ops[i].kind, "stream", sent)
      BY <1>1, <2>1, <2>2, FinishEnds
    <2> QED BY <1>1, <2>1, <2>2, <2>3 DEF Unsent
  <1> QED BY <1>2, <1>3 DEF EndStream

(* A view lists the attachments.                                           *)
LEMMA BeginViewDoes ==
  ASSUME TypeOK, NEW i \in Slot, BeginView(i)
  PROVE  Begins(i, "view", "claim") /\ ops'[i].todo = Existing /\ ops'[i].n = 0
  <1>1. Existing \in SUBSET Path
    BY DEF Existing, Path
  <1> QED BY <1>1, StartBegins DEF BeginView, Kind, Pc

(* It claims the view link, or ends.                                       *)
LEMMA ClaimViewDoes ==
  ASSUME TypeOK, NEW i \in Slot, ClaimView(i)
  PROVE  \/ /\ Goes(i, "view", "claim", "stream")
            /\ ops'[i].p = ops[i].p
            /\ ops'[i].n = 1 /\ ops'[i].got = ViewSize /\ ops'[i].todo = {}
         \/ Ends(i, "view", "claim", 0)
  <1>1. ops[i] \in Operation /\ ops[i].kind = "view" /\ ops[i].pc = "claim"
    BY DEF TypeOK, ClaimView, At
  <1>2. CASE Step(i, [ops[i] EXCEPT !.pc = "stream", !.n = 1, !.got = ViewSize, !.todo = {}])
    <2>1. PICK o : o = [ops[i] EXCEPT !.pc = "stream", !.n = 1, !.got = ViewSize, !.todo = {}]
      OBVIOUS
    <2>2. /\ o \in Operation /\ o.kind = ops[i].kind /\ o.pc = "stream"
          /\ o.phase = ops[i].phase /\ o.todo = {} /\ o.done = ops[i].done /\ o.p = ops[i].p
          /\ o.n = 1 /\ o.got = ViewSize
      BY <1>1, <2>1 DEF Operation, Pc, Phase
    <2>3. Moves(i) /\ ops'[i] = o
      BY <1>2, <2>1, <2>2, StepMoves
    <2> QED BY <1>1, <1>2, <2>2, <2>3 DEF Goes
  <1>3. CASE Finish(i, 0)
    BY <1>1, <1>3, FinishEnds
  <1> QED BY <1>2, <1>3 DEF ClaimView

(* A cleanup run lists the expired attachments.                            *)
LEMMA BeginCleanupDoes ==
  ASSUME TypeOK, NEW i \in Slot, BeginCleanup(i)
  PROVE  Begins(i, "cleanup", "att") /\ ops'[i].todo \subseteq Existing
  <1>1. PICK t : t = IF Expired THEN Existing ELSE {}
    OBVIOUS
  <1>2. t \in SUBSET Path /\ t \subseteq Existing
    BY <1>1 DEF Existing, Path
  <1>3. Start(i, Op("cleanup", "att", t))
    BY <1>1 DEF BeginCleanup
  <1> QED BY <1>2, <1>3, StartBegins DEF Kind, Pc

(* It unlinks a file, or skips one.                                        *)
LEMMA UnlinkDoes ==
  ASSUME TypeOK, NEW i \in Slot, Unlink(i)
  PROVE  /\ ops[i].pc \in {"att", "raw"}
         /\ \E p \in ops[i].todo :
              /\ ops'[i].todo = ops[i].todo \ {p}
              /\ \/ /\ Goes(i, "cleanup", ops[i].pc, IF ops[i].pc = "att" THEN "attTx" ELSE "rawTx")
                    /\ ops'[i].p = p /\ disk' = [disk EXCEPT ![p].file = FALSE]
                 \/ Goes(i, "cleanup", ops[i].pc, ops[i].pc) /\ UNCHANGED disk
  <1>1. ops[i] \in Operation /\ ops[i].kind = "cleanup" /\ ops[i].pc \in {"att", "raw"}
    BY DEF TypeOK, Unlink
  <1>2. PICK p \in ops[i].todo :
          \/ /\ disk' = [disk EXCEPT ![p].file = FALSE]
             /\ Step(i, [ops[i] EXCEPT !.todo = @ \ {p}, !.p = p,
                                       !.pc = IF @ = "att" THEN "attTx" ELSE "rawTx"])
          \/ /\ Step(i, [ops[i] EXCEPT !.todo = @ \ {p}])
             /\ UNCHANGED disk
    BY DEF Unlink
  <1>3. ASSUME Step(i, [ops[i] EXCEPT !.todo = @ \ {p}, !.p = p,
                                      !.pc = IF @ = "att" THEN "attTx" ELSE "rawTx"])
        PROVE  /\ Goes(i, "cleanup", ops[i].pc, IF ops[i].pc = "att" THEN "attTx" ELSE "rawTx")
               /\ ops'[i].todo = ops[i].todo \ {p} /\ ops'[i].p = p
    <2>0. PICK c \in Pc : c = (IF ops[i].pc = "att" THEN "attTx" ELSE "rawTx")
      BY DEF Pc
    <2>4. Step(i, [ops[i] EXCEPT !.todo = @ \ {p}, !.p = p, !.pc = c])
      BY <1>3, <2>0
    <2>1. PICK o : o = [ops[i] EXCEPT !.todo = @ \ {p}, !.p = p, !.pc = c]
      OBVIOUS
    <2>2. /\ o \in Operation /\ o.kind = ops[i].kind /\ o.pc = c /\ o.p = p
          /\ o.todo = ops[i].todo \ {p}
      BY <1>1, <2>1 DEF Operation, Pc, Phase
    <2>3. Moves(i) /\ ops'[i] = o
      BY <2>4, <2>1, <2>2, StepMoves
    <2> QED BY <2>0, <1>1, <2>4, <2>2, <2>3 DEF Goes
  <1>4. ASSUME Step(i, [ops[i] EXCEPT !.todo = @ \ {p}])
        PROVE  /\ Goes(i, "cleanup", ops[i].pc, ops[i].pc) /\ ops'[i].todo = ops[i].todo \ {p}
    <2>1. PICK o : o = [ops[i] EXCEPT !.todo = @ \ {p}]
      OBVIOUS
    <2>2. /\ o \in Operation /\ o.kind = ops[i].kind /\ o.pc = ops[i].pc
          /\ o.todo = ops[i].todo \ {p}
      BY <1>1, <2>1 DEF Operation, Pc, Phase
    <2>3. Moves(i) /\ ops'[i] = o
      BY <1>4, <2>1, <2>2, StepMoves
    <2> QED BY <1>1, <1>4, <2>2, <2>3 DEF Goes
  <1> QED BY <1>1, <1>2, <1>3, <1>4

(* It deletes a row.                                                       *)
LEMMA DeleteRowDoes ==
  ASSUME TypeOK, NEW i \in Slot, DeleteRow(i)
  PROVE  /\ Goes(i, "cleanup", "attTx", "att")
         /\ ops'[i].todo = ops[i].todo
  <1>1. ops[i] \in Operation /\ ops[i].kind = "cleanup" /\ ops[i].pc = "attTx"
    BY DEF TypeOK, DeleteRow, At
  <1>2. Step(i, [ops[i] EXCEPT !.pc = "att"])
    BY DEF DeleteRow
  <1> QED
    <2>1. PICK o : o = [ops[i] EXCEPT !.pc = "att"]
      OBVIOUS
    <2>2. /\ o \in Operation /\ o.kind = ops[i].kind /\ o.pc = "att" /\ o.phase = ops[i].phase
          /\ o.todo = ops[i].todo /\ o.done = ops[i].done /\ o.p = ops[i].p /\ o.n = ops[i].n
          /\ o.got = ops[i].got
      BY <1>1, <2>1 DEF Operation, Pc, Phase
    <2>3. Moves(i) /\ ops'[i] = o
      BY <1>2, <2>1, <2>2, StepMoves
    <2> QED BY <1>1, <1>2, <2>2, <2>3 DEF Goes

(* A failed transaction ends the pass.                                     *)
LEMMA CleanupFailsDoes ==
  ASSUME TypeOK, NEW i \in Slot, CleanupFails(i)
  PROVE  /\ ops[i].pc \in {"attTx", "rawTx"} /\ ops'[i].todo = {}
         /\ Goes(i, "cleanup", ops[i].pc, IF ops[i].pc = "attTx" THEN "att" ELSE "raw")
  <1>1. ops[i] \in Operation /\ ops[i].kind = "cleanup" /\ ops[i].pc \in {"attTx", "rawTx"}
    BY DEF TypeOK, CleanupFails
  <1>2. PICK c \in Pc : c = (IF ops[i].pc = "attTx" THEN "att" ELSE "raw")
    BY DEF Pc
  <1>3. Step(i, [ops[i] EXCEPT !.todo = {}, !.pc = c])
    BY <1>2 DEF CleanupFails
  <1> QED
    <2>1. PICK o : o = [ops[i] EXCEPT !.todo = {}, !.pc = c]
      OBVIOUS
    <2>2. /\ o \in Operation /\ o.kind = ops[i].kind /\ o.pc = c /\ o.todo = {}
      BY <1>1, <2>1 DEF Operation, Pc, Phase
    <2>3. Moves(i) /\ ops'[i] = o
      BY <1>3, <2>1, <2>2, StepMoves
    <2> QED BY <1>2, <1>1, <1>3, <2>2, <2>3 DEF Goes

(* The next pass selects its candidates.                                   *)
LEMMA NextPassDoes ==
  ASSUME TypeOK, NEW i \in Slot, NextPass(i)
  PROVE  \/ /\ Goes(i, "cleanup", "att", "raw") /\ ops'[i].todo \subseteq {Raw}
            /\ Raw \in ops'[i].todo => log.raw
         \/ Goes(i, "cleanup", "raw", "logs") /\ ops'[i].todo = {}
  <1>1. ops[i] \in Operation /\ ops[i].kind = "cleanup" /\ ops[i].todo = {}
    BY DEF TypeOK, NextPass
  <1>2. ASSUME ops[i].pc = "att", NEW s, s = IF Expired /\ log.here /\ log.raw THEN {Raw} ELSE {},
               Step(i, [ops[i] EXCEPT !.pc = "raw", !.todo = s])
        PROVE  /\ Goes(i, "cleanup", "att", "raw") /\ ops'[i].todo \subseteq {Raw}
               /\ Raw \in ops'[i].todo => log.raw
    <2>0. s \in SUBSET Path /\ s \subseteq {Raw} /\ (Raw \in s => log.raw)
      BY <1>2 DEF Path
    <2>4. ops[i].pc = "att" /\ Step(i, [ops[i] EXCEPT !.pc = "raw", !.todo = s])
      BY <1>2
    <2>1. PICK o : o = [ops[i] EXCEPT !.pc = "raw", !.todo = s]
      OBVIOUS
    <2>2. /\ o \in Operation /\ o.kind = ops[i].kind /\ o.pc = "raw" /\ o.todo = s
      BY <1>1, <2>0, <2>1 DEF Operation, Pc, Phase
    <2>3. Moves(i) /\ ops'[i] = o
      BY <2>4, <2>1, <2>2, StepMoves
    <2> QED BY <2>0, <1>1, <2>4, <2>2, <2>3 DEF Goes
  <1>3. ASSUME ops[i].pc = "raw", NEW b \in BOOLEAN,
               Step(i, [ops[i] EXCEPT !.pc = "logs", !.ok = b])
        PROVE  Goes(i, "cleanup", "raw", "logs") /\ ops'[i].todo = {}
    <2>1. PICK o : o = [ops[i] EXCEPT !.pc = "logs", !.ok = b]
      OBVIOUS
    <2>2. /\ o \in Operation /\ o.kind = ops[i].kind /\ o.pc = "logs" /\ o.todo = {}
      BY <1>1, <2>1 DEF Operation, Pc, Phase
    <2>3. Moves(i) /\ ops'[i] = o
      BY <1>3, <2>1, <2>2, StepMoves
    <2> QED BY <1>1, <1>3, <2>2, <2>3 DEF Goes
  <1>4. CASE ops[i].pc = "att"
    BY <1>2, <1>4 DEF NextPass
  <1>5. CASE ops[i].pc = "raw"
    <2>1. PICK reconciled \in BOOLEAN :
            Step(i, [ops[i] EXCEPT !.pc = "logs",
                                   !.ok = reconciled /\ Expired /\ log.here /\ ~log.raw])
      BY <1>5 DEF NextPass
    <2>2. (reconciled /\ Expired /\ log.here /\ ~log.raw) \in BOOLEAN
      BY Zenon
    <2> QED BY <1>3, <1>5, <2>1, <2>2
  <1> QED BY <1>4, <1>5 DEF NextPass

(* It clears the path of the raw mail.                                     *)
LEMMA ClearRawDoes ==
  ASSUME TypeOK, NEW i \in Slot, ClearRaw(i)
  PROVE  /\ Goes(i, "cleanup", "rawTx", "raw")
         /\ ops'[i].todo = ops[i].todo
  <1>1. ops[i] \in Operation /\ ops[i].kind = "cleanup" /\ ops[i].pc = "rawTx"
    BY DEF TypeOK, ClearRaw, At
  <1>2. Step(i, [ops[i] EXCEPT !.pc = "raw"])
    BY DEF ClearRaw
  <1> QED
    <2>1. PICK o : o = [ops[i] EXCEPT !.pc = "raw"]
      OBVIOUS
    <2>2. /\ o \in Operation /\ o.kind = ops[i].kind /\ o.pc = "raw" /\ o.phase = ops[i].phase
          /\ o.todo = ops[i].todo /\ o.done = ops[i].done /\ o.p = ops[i].p /\ o.n = ops[i].n
          /\ o.got = ops[i].got
      BY <1>1, <2>1 DEF Operation, Pc, Phase
    <2>3. Moves(i) /\ ops'[i] = o
      BY <1>2, <2>1, <2>2, StepMoves
    <2> QED BY <1>1, <1>2, <2>2, <2>3 DEF Goes

(* It purges the log.                                                      *)
LEMMA PurgeLogDoes ==
  ASSUME TypeOK, NEW i \in Slot, PurgeLog(i)
  PROVE  /\ Goes(i, "cleanup", "logs", "links")
         /\ ops'[i].todo = ops[i].todo
  <1>1. ops[i] \in Operation /\ ops[i].kind = "cleanup" /\ ops[i].pc = "logs"
    BY DEF TypeOK, PurgeLog, At
  <1>2. Step(i, [ops[i] EXCEPT !.pc = "links"])
    BY DEF PurgeLog
  <1> QED
    <2>1. PICK o : o = [ops[i] EXCEPT !.pc = "links"]
      OBVIOUS
    <2>2. /\ o \in Operation /\ o.kind = ops[i].kind /\ o.pc = "links"
          /\ o.phase = ops[i].phase /\ o.todo = ops[i].todo /\ o.done = ops[i].done
          /\ o.p = ops[i].p /\ o.n = ops[i].n /\ o.got = ops[i].got
      BY <1>1, <2>1 DEF Operation, Pc, Phase
    <2>3. Moves(i) /\ ops'[i] = o
      BY <1>2, <2>1, <2>2, StepMoves
    <2> QED BY <1>1, <1>2, <2>2, <2>3 DEF Goes

(* It purges expired links and ends.                                       *)
LEMMA PurgeLinksDoes ==
  ASSUME TypeOK, NEW i \in Slot, PurgeLinks(i)
  PROVE  Goes(i, "cleanup", "links", "end") /\ ops'[i].todo = {}
  <1>1. ops[i].kind = "cleanup" /\ ops[i].pc = "links"
    BY DEF PurgeLinks, At
  <1>2. Step(i, [Idle EXCEPT !.kind = "cleanup"])
    BY DEF PurgeLinks
  <1> QED
    <2>1. PICK o : o = [Idle EXCEPT !.kind = "cleanup"]
      OBVIOUS
    <2>2. /\ o \in Operation /\ o.kind = "cleanup" /\ o.pc = "end" /\ o.todo = {}
      BY <1>1, <2>1 DEF Operation, Idle, Path, Phase, Pc, None, Kind
    <2>3. Moves(i) /\ ops'[i] = o
      BY <1>2, <2>1, <2>2, StepMoves
    <2> QED BY <1>1, <1>2, <2>2, <2>3 DEF Goes

(* An erasure lists what it will remove.                                   *)
LEMMA BeginEraseDoes ==
  ASSUME TypeOK, NEW i \in Slot, BeginErase(i)
  PROVE  /\ Begins(i, "erase", "rows")
         /\ ops'[i].todo = Existing \cup (IF log.here /\ log.raw THEN {Raw} ELSE {})
  <1>1. Existing \cup (IF log.here /\ log.raw THEN {Raw} ELSE {}) \in SUBSET Path
    BY DEF Existing, Path
  <1> QED BY <1>1, StartBegins DEF BeginErase, Kind, Pc

(* It deletes the rows.                                                    *)
LEMMA EraseDoes ==
  ASSUME TypeOK, NEW i \in Slot, Erase(i)
  PROVE  /\ Goes(i, "erase", "rows", "files")
         /\ ops'[i].todo = ops[i].todo
  <1>1. ops[i] \in Operation /\ ops[i].kind = "erase" /\ ops[i].pc = "rows"
    BY DEF TypeOK, Erase, At
  <1>2. Step(i, [ops[i] EXCEPT !.pc = "files"])
    BY DEF Erase
  <1> QED
    <2>1. PICK o : o = [ops[i] EXCEPT !.pc = "files"]
      OBVIOUS
    <2>2. /\ o \in Operation /\ o.kind = ops[i].kind /\ o.pc = "files"
          /\ o.phase = ops[i].phase /\ o.todo = ops[i].todo /\ o.done = ops[i].done
          /\ o.p = ops[i].p /\ o.n = ops[i].n /\ o.got = ops[i].got
      BY <1>1, <2>1 DEF Operation, Pc, Phase
    <2>3. Moves(i) /\ ops'[i] = o
      BY <1>2, <2>1, <2>2, StepMoves
    <2> QED BY <1>1, <1>2, <2>2, <2>3 DEF Goes

(* It removes a file, fails to, or ends.                                   *)
LEMMA EraseFileDoes ==
  ASSUME TypeOK, NEW i \in Slot, EraseFile(i)
  PROVE  \/ Ends(i, "erase", "files", 0) /\ ops[i].todo = {} /\ UNCHANGED <<disk, lost>>
         \/ \E p \in ops[i].todo :
              /\ Goes(i, "erase", "files", "files") /\ ops'[i].todo = ops[i].todo \ {p}
              /\ \/ disk' = [disk EXCEPT ![p].file = FALSE] /\ UNCHANGED lost
                 \/ lost' = lost \cup {p} /\ UNCHANGED disk
  <1>1. ops[i] \in Operation /\ ops[i].kind = "erase" /\ ops[i].pc = "files"
    BY DEF TypeOK, EraseFile, At
  <1>2. CASE ops[i].todo = {}
    BY <1>1, <1>2, FinishEnds DEF EraseFile
  <1>3. CASE ops[i].todo # {}
    <2>1. PICK p \in ops[i].todo :
            /\ Step(i, [ops[i] EXCEPT !.todo = @ \ {p}])
            /\ \/ disk' = [disk EXCEPT ![p].file = FALSE] /\ UNCHANGED lost
               \/ lost' = lost \cup {p} /\ UNCHANGED disk
      BY <1>3 DEF EraseFile
    <2>2. Goes(i, "erase", "files", "files") /\ ops'[i].todo = ops[i].todo \ {p}
      <3>1. PICK o : o = [ops[i] EXCEPT !.todo = @ \ {p}]
        OBVIOUS
      <3>2. /\ o \in Operation /\ o.kind = ops[i].kind /\ o.pc = ops[i].pc
            /\ o.todo = ops[i].todo \ {p}
        BY <1>1, <3>1 DEF Operation, Pc, Phase
      <3>3. Moves(i) /\ ops'[i] = o
        BY <2>1, <3>1, <3>2, StepMoves
      <3> QED BY <1>1, <2>1, <3>2, <3>3 DEF Goes
    <2> QED BY <2>1, <2>2
  <1> QED BY <1>2, <1>3

(* A backfill lists the attachments without a key.                         *)
LEMMA BeginBackfillDoes ==
  ASSUME TypeOK, NEW i \in Slot, BeginBackfill(i)
  PROVE  /\ Begins(i, "backfill", "read")
         /\ ops'[i].todo = {a \in Existing : rows[a].dek = None}
  <1>1. {a \in Existing : rows[a].dek = None} \in SUBSET Path
    BY DEF Existing, Path
  <1> QED BY <1>1, StartBegins DEF BeginBackfill, Kind, Pc

(* It reads a file, resumes one, or skips a missing one.                   *)
LEMMA ReadFileDoes ==
  ASSUME TypeOK, NEW i \in Slot, ReadFile(i)
  PROVE  \E p \in ops[i].todo :
           /\ ops'[i].todo = ops[i].todo \ {p} /\ ops'[i].phase = ops[i].phase
           /\ \/ Goes(i, "backfill", "read", "read") /\ UNCHANGED disk
              \/ /\ Goes(i, "backfill", "read", "row") /\ ops'[i].p = p /\ ops'[i].n = disk[p].note
                 /\ disk[p].file /\ Resumes(p) /\ UNCHANGED disk
              \/ /\ Goes(i, "backfill", "read", "replace") /\ ops'[i].p = p /\ ops'[i].n = i
                 /\ ops'[i].got = Len(disk[p].body)
                 /\ disk[p].file /\ ~Resumes(p) /\ disk' = Noted(p, i)
  <1>1. ops[i] \in Operation /\ ops[i].kind = "backfill" /\ ops[i].pc = "read"
    BY DEF TypeOK, ReadFile, At
  <1>2. PICK p \in ops[i].todo : ReadPlain(i, p)
    BY DEF ReadFile
  <1>3. disk[p].note \in Nat /\ Len(disk[p].body) \in Nat /\ i \in Nat
    BY <1>1 DEF TypeOK, Operation, Slot
  <1>4. ASSUME Step(i, [ops[i] EXCEPT !.todo = @ \ {p}])
        PROVE  /\ Goes(i, "backfill", "read", "read") /\ ops'[i].todo = ops[i].todo \ {p}
               /\ ops'[i].phase = ops[i].phase
    <2>1. PICK o : o = [ops[i] EXCEPT !.todo = @ \ {p}]
      OBVIOUS
    <2>2. /\ o \in Operation /\ o.kind = ops[i].kind /\ o.pc = ops[i].pc
          /\ o.todo = ops[i].todo \ {p} /\ o.phase = ops[i].phase
      BY <1>1, <2>1 DEF Operation, Pc, Phase
    <2>3. Moves(i) /\ ops'[i] = o
      BY <1>4, <2>1, <2>2, StepMoves
    <2> QED BY <1>1, <1>4, <2>2, <2>3 DEF Goes
  <1>5. ASSUME NEW n \in Nat, Step(i, [ops[i] EXCEPT !.todo = @ \ {p}, !.p = p, !.n = n, !.pc = "row"])
        PROVE  /\ Goes(i, "backfill", "read", "row") /\ ops'[i].todo = ops[i].todo \ {p}
               /\ ops'[i].phase = ops[i].phase /\ ops'[i].p = p /\ ops'[i].n = n
    <2>1. PICK o : o = [ops[i] EXCEPT !.todo = @ \ {p}, !.p = p, !.n = n, !.pc = "row"]
      OBVIOUS
    <2>2. /\ o \in Operation /\ o.kind = ops[i].kind /\ o.pc = "row"
          /\ o.todo = ops[i].todo \ {p} /\ o.phase = ops[i].phase /\ o.p = p /\ o.n = n
      BY <1>1, <2>1 DEF Operation, Pc, Phase
    <2>3. Moves(i) /\ ops'[i] = o
      BY <1>5, <2>1, <2>2, StepMoves
    <2> QED BY <1>1, <1>5, <2>2, <2>3 DEF Goes
  <1>6. ASSUME NEW g \in Nat,
               Step(i, [ops[i] EXCEPT !.todo = @ \ {p}, !.p = p, !.n = i, !.got = g, !.pc = "replace"])
        PROVE  /\ Goes(i, "backfill", "read", "replace") /\ ops'[i].todo = ops[i].todo \ {p}
               /\ ops'[i].phase = ops[i].phase /\ ops'[i].p = p /\ ops'[i].n = i /\ ops'[i].got = g
    <2>1. PICK o : o = [ops[i] EXCEPT !.todo = @ \ {p}, !.p = p, !.n = i, !.got = g, !.pc = "replace"]
      OBVIOUS
    <2>2. /\ o \in Operation /\ o.kind = ops[i].kind /\ o.pc = "replace"
          /\ o.todo = ops[i].todo \ {p} /\ o.phase = ops[i].phase /\ o.p = p /\ o.n = i
          /\ o.got = g
      BY <1>1, <1>3, <2>1 DEF Operation, Pc, Phase
    <2>3. Moves(i) /\ ops'[i] = o
      BY <1>6, <2>1, <2>2, StepMoves
    <2> QED BY <1>1, <1>3, <1>6, <2>2, <2>3 DEF Goes
  <1> QED BY <1>2, <1>3, <1>4, <1>5, <1>6 DEF ReadPlain

(* It replaces the file.                                                   *)
LEMMA ReplaceFileDoes ==
  ASSUME TypeOK, NEW i \in Slot, ReplaceFile(i)
  PROVE  /\ Goes(i, "backfill", "replace", "row")
         /\ ops'[i].phase = ops[i].phase /\ ops'[i].todo = ops[i].todo /\ ops'[i].p = ops[i].p
         /\ ops'[i].n = ops[i].n
  <1>1. ops[i] \in Operation /\ ops[i].kind = "backfill" /\ ops[i].pc = "replace"
    BY DEF TypeOK, ReplaceFile, At
  <1>2. Step(i, [ops[i] EXCEPT !.pc = "row", !.got = 0])
    BY DEF ReplaceFile
  <1> QED
    <2>1. PICK o : o = [ops[i] EXCEPT !.pc = "row", !.got = 0]
      OBVIOUS
    <2>2. /\ o \in Operation /\ o.kind = ops[i].kind /\ o.pc = "row" /\ o.phase = ops[i].phase
          /\ o.todo = ops[i].todo /\ o.done = ops[i].done /\ o.p = ops[i].p /\ o.n = ops[i].n
          /\ o.got = 0
      BY <1>1, <2>1 DEF Operation, Pc, Phase
    <2>3. Moves(i) /\ ops'[i] = o
      BY <1>2, <2>1, <2>2, StepMoves
    <2> QED BY <1>1, <1>2, <2>2, <2>3 DEF Goes

(* It records the key.                                                     *)
LEMMA RecordKeyDoes ==
  ASSUME TypeOK, NEW i \in Slot, RecordKey(i)
  PROVE  /\ Goes(i, "backfill", "row", "clear")
         /\ ops'[i].phase = ops[i].phase /\ ops'[i].todo = ops[i].todo
         /\ ops'[i].p = ops[i].p /\ ops'[i].n = ops[i].n
  <1>1. ops[i] \in Operation /\ ops[i].kind = "backfill" /\ ops[i].pc = "row"
    BY DEF TypeOK, RecordKey, At
  <1>2. PICK d \in SUBSET Path : Step(i, [ops[i] EXCEPT !.pc = "clear", !.done = d])
    <2>1. CASE Step(i, [ops[i] EXCEPT !.pc = "clear"])
      <3>1. [ops[i] EXCEPT !.pc = "clear"] = [ops[i] EXCEPT !.pc = "clear", !.done = ops[i].done]
        BY <1>1 DEF Operation
      <3> QED BY <1>1, <2>1, <3>1 DEF Operation
    <2>2. CASE Step(i, [ops[i] EXCEPT !.pc = "clear", !.done = {Raw}])
      BY <2>2 DEF Path
    <2> QED BY <2>1, <2>2 DEF RecordKey
  <1> QED
    <2>1. PICK o : o = [ops[i] EXCEPT !.pc = "clear", !.done = d]
      OBVIOUS
    <2>2. /\ o \in Operation /\ o.kind = ops[i].kind /\ o.pc = "clear"
          /\ o.phase = ops[i].phase /\ o.todo = ops[i].todo /\ o.p = ops[i].p /\ o.n = ops[i].n
      BY <1>1, <2>1 DEF Operation, Pc, Phase
    <2>3. Moves(i) /\ ops'[i] = o
      BY <1>2, <2>1, <2>2, StepMoves
    <2> QED BY <1>1, <1>2, <2>2, <2>3 DEF Goes

(* It clears its note.                                                     *)
LEMMA ClearNoteDoes ==
  ASSUME TypeOK, NEW i \in Slot, ClearNote(i)
  PROVE  /\ Goes(i, "backfill", "clear", "read")
         /\ ops'[i].phase = ops[i].phase /\ ops'[i].todo = ops[i].todo
  <1>1. ops[i] \in Operation /\ ops[i].kind = "backfill" /\ ops[i].pc = "clear"
    BY DEF TypeOK, ClearNote, At
  <1>2. Step(i, [ops[i] EXCEPT !.pc = "read"])
    BY DEF ClearNote
  <1> QED
    <2>1. PICK o : o = [ops[i] EXCEPT !.pc = "read"]
      OBVIOUS
    <2>2. /\ o \in Operation /\ o.kind = ops[i].kind /\ o.pc = "read" /\ o.phase = ops[i].phase
          /\ o.todo = ops[i].todo /\ o.done = ops[i].done /\ o.p = ops[i].p /\ o.n = ops[i].n
          /\ o.got = ops[i].got
      BY <1>1, <2>1 DEF Operation, Pc, Phase
    <2>3. Moves(i) /\ ops'[i] = o
      BY <1>2, <2>1, <2>2, StepMoves
    <2> QED BY <1>1, <1>2, <2>2, <2>3 DEF Goes

(* The next phase begins, or the job ends.                                 *)
LEMMA NextPhaseDoes ==
  ASSUME TypeOK, NEW i \in Slot, NextPhase(i)
  PROVE  \/ /\ Goes(i, "backfill", "read", "read") /\ ops'[i].phase # "att"
            /\ ops'[i].todo \subseteq {Raw}
         \/ /\ Goes(i, "backfill", "read", "row") /\ ops'[i].phase # "att"
            /\ ops'[i].todo = {} /\ ops'[i].p = Raw
         \/ Goes(i, "backfill", "read", "end") /\ ops'[i].todo = {}
  <1>1. ops[i] \in Operation /\ ops[i].kind = "backfill" /\ ops[i].pc = "read" /\ ops[i].todo = {}
    BY DEF TypeOK, NextPhase, At
  <1>2. ASSUME NEW f \in {"raw", "pending"}, NEW s \in SUBSET {Raw},
               Step(i, [ops[i] EXCEPT !.phase = f, !.todo = s])
        PROVE  /\ Goes(i, "backfill", "read", "read") /\ ops'[i].phase # "att"
               /\ ops'[i].todo \subseteq {Raw}
    <2>1. PICK o : o = [ops[i] EXCEPT !.phase = f, !.todo = s]
      OBVIOUS
    <2>2. /\ o \in Operation /\ o.kind = ops[i].kind /\ o.pc = ops[i].pc /\ o.phase = f
          /\ o.todo = s
      BY <1>1, <2>1 DEF Operation, Phase, Path
    <2>3. Moves(i) /\ ops'[i] = o
      BY <1>2, <2>1, <2>2, StepMoves
    <2> QED BY <1>1, <1>2, <2>2, <2>3 DEF Goes
  <1>3. ASSUME Step(i, [ops[i] EXCEPT !.phase = "pending", !.pc = "row", !.p = Raw])
        PROVE  /\ Goes(i, "backfill", "read", "row") /\ ops'[i].phase # "att"
               /\ ops'[i].todo = {} /\ ops'[i].p = Raw
    <2>1. PICK o : o = [ops[i] EXCEPT !.phase = "pending", !.pc = "row", !.p = Raw]
      OBVIOUS
    <2>2. /\ o \in Operation /\ o.kind = ops[i].kind /\ o.pc = "row" /\ o.phase = "pending"
          /\ o.todo = ops[i].todo /\ o.p = Raw
      BY <1>1, <2>1 DEF Operation, Phase, Path, Pc
    <2>3. Moves(i) /\ ops'[i] = o
      BY <1>3, <2>1, <2>2, StepMoves
    <2> QED BY <1>1, <1>3, <2>2, <2>3 DEF Goes
  <1>4. ASSUME Step(i, [Idle EXCEPT !.kind = "backfill"])
        PROVE  Goes(i, "backfill", "read", "end") /\ ops'[i].todo = {}
    <2>1. PICK o : o = [Idle EXCEPT !.kind = "backfill"]
      OBVIOUS
    <2>2. /\ o \in Operation /\ o.kind = "backfill" /\ o.pc = "end" /\ o.todo = {}
      BY <1>1, <2>1 DEF Operation, Idle, Path, Phase, Pc, None, Kind
    <2>3. Moves(i) /\ ops'[i] = o
      BY <1>4, <2>1, <2>2, StepMoves
    <2> QED BY <1>1, <1>4, <2>2, <2>3 DEF Goes
  <1>5. CASE ops[i].phase = "att"
    <2>1. PICK s \in SUBSET {Raw} : s = IF log.here /\ log.raw /\ log.dek = None THEN {Raw} ELSE {}
      OBVIOUS
    <2> QED BY <1>2, <1>5, <2>1 DEF NextPhase
  <1>6. CASE ops[i].phase = "raw"
    <2>1. PICK s \in SUBSET {Raw} : s = IF pending.here /\ pending.dek = None THEN {Raw} ELSE {}
      OBVIOUS
    <2>2. \/ Step(i, [ops[i] EXCEPT !.phase = "pending", !.pc = "row", !.p = Raw])
          \/ Step(i, [ops[i] EXCEPT !.phase = "pending", !.todo = s])
      BY <1>6, <2>1 DEF NextPhase
    <2> QED BY <1>2, <1>3, <2>2
  <1>7. CASE ops[i].phase = "pending"
    BY <1>4, <1>7 DEF NextPhase
  <1> QED BY <1>5, <1>6, <1>7 DEF NextPhase

(* Operations that are stopped: each keeps what it is, or ends.            *)
StopsOrStays(j) ==
  \/ ops'[j] = ops[j]
  \/ /\ ops[j].pc # "end"
     /\ ops'[j].kind = ops[j].kind /\ ops'[j].pc = "end" /\ ops'[j].todo = {}
     /\ ops'[j].done = {} /\ ops'[j].p = ops[j].p /\ ops'[j].n = ops[j].n
     /\ ops'[j].got = ops[j].got

(* A crash or an interrupted job ends operations and starts none.          *)
LEMMA StoppedDoes ==
  ASSUME TypeOK, NEW S, ops' = Stopped(S)
  PROVE  /\ ops' \in [Slot -> Operation]
         /\ \A j \in Slot : StopsOrStays(j)
         /\ \A j \in Slot : j \in S => ops'[j].pc = "end"
         /\ \A j \in Slot : j \notin S => ops'[j] = ops[j]
  <1>1. ASSUME NEW j \in Slot
        PROVE  /\ ops'[j] \in Operation /\ StopsOrStays(j)
               /\ j \in S => ops'[j].pc = "end"
               /\ j \notin S => ops'[j] = ops[j]
    <2>1. ops[j] \in Operation
      BY DEF TypeOK
    <2>2. PICK o : o = [Idle EXCEPT !.kind = ops[j].kind, !.p = ops[j].p, !.n = ops[j].n,
                                    !.got = ops[j].got]
      OBVIOUS
    <2>3. /\ o \in Operation /\ o.kind = ops[j].kind /\ o.pc = "end" /\ o.todo = {} /\ o.done = {}
          /\ o.p = ops[j].p /\ o.n = ops[j].n /\ o.got = ops[j].got
      BY <2>1, <2>2 DEF Operation, Idle, Path, Phase, Pc, None
    <2>4. ops'[j] = IF j \in S /\ ops[j].pc # "end" THEN o ELSE ops[j]
      BY <2>2 DEF Stopped
    <2> QED BY <2>1, <2>3, <2>4 DEF StopsOrStays
  <1>2. ops' = [j \in Slot |-> ops'[j]]
    BY DEF Stopped
  <1> QED BY <1>1, <1>2

-----------------------------------------------------------------------------
(* Types.                                                                  *)

(* The variables an operation's own record does not hold.                  *)
Outside ==
  /\ time' \in 0..2 /\ crashes' \in Nat /\ issued' \in Nat /\ egress' \in Nat /\ served' \in Int
  /\ user' \in BOOLEAN /\ privacy' \in BOOLEAN /\ overlap' \in BOOLEAN
  /\ log' \in [here : BOOLEAN, raw : BOOLEAN, dek : Nat, final : BOOLEAN,
               stage : {"queued", "prepared"}]
  /\ rows' \in [Att -> [here : BOOLEAN, dek : Nat]]
  /\ disk' \in [Path -> [file : BOOLEAN, body : Seq(Nat), note : Nat]]
  /\ pending' \in [here : BOOLEAN, dek : Nat]
  /\ usage' \in [raw : Nat, att : Nat]
  /\ links' \in SUBSET (Att \X Nat) /\ used' \in SUBSET (Att \X Nat)
  /\ view' \in [here : BOOLEAN, viewed : BOOLEAN]
  /\ lost' \in SUBSET Path

(* Types are kept when the outside and the operation keep theirs.          *)
LEMMA TypeFrom ==
  ASSUME Outside, ops' \in [Slot -> Operation]
  PROVE  TypeOK'
  BY DEF Outside, TypeOK

(* A step that leaves everything but the operations alone.                 *)
LEMMA OutsideStays ==
  ASSUME TypeOK, UNCHANGED <<clock, owner, store, shares, lost>>
  PROVE  Outside
  BY DEF TypeOK, Outside, clock, owner, store, shares

(* The counters never go below zero.                                       *)
LEMMA SubNat ==
  ASSUME NEW x \in Nat, NEW y \in Nat
  PROVE  Sub(x, y) \in Nat /\ Sub(x, y) <= x /\ Sub(x, y) >= x - y /\ (y <= x => Sub(x, y) = x - y)
  BY DEF Sub

(* Initially everything is well typed.                                     *)
LEMMA InitType ==
  ASSUME Init
  PROVE  TypeOK
  <1>1. PICK stored \in BOOLEAN :
          /\ log = [here |-> TRUE, raw |-> TRUE, dek |-> None, final |-> FALSE,
                    stage |-> IF stored THEN "prepared" ELSE "queued"]
          /\ rows = [a \in Att |-> [here |-> stored, dek |-> None]]
          /\ disk = [p \in Path |-> [file |-> stored \/ p = Raw, body |-> <<>>, note |-> None]]
          /\ links = IF stored /\ ~privacy THEN Att \X {0} ELSE {}
          /\ view = [here |-> stored /\ privacy, viewed |-> FALSE]
          /\ issued = IF stored /\ privacy THEN 1 ELSE 0
    BY DEF Init
  <1>2. TRUE \in BOOLEAN /\ FALSE \in BOOLEAN /\ (stored /\ privacy) \in BOOLEAN
    BY Zenon
  <1>3. log \in [here : BOOLEAN, raw : BOOLEAN, dek : Nat, final : BOOLEAN,
                 stage : {"queued", "prepared"}]
    BY <1>1, <1>2 DEF None
  <1>4. rows \in [Att -> [here : BOOLEAN, dek : Nat]]
    BY <1>1 DEF None
  <1>5. disk \in [Path -> [file : BOOLEAN, body : Seq(Nat), note : Nat]]
    <2>1. \A p \in Path : (stored \/ p = Raw) \in BOOLEAN
      BY Zenon
    <2>2. <<>> \in Seq(Nat)
      OBVIOUS
    <2>3. \A p \in Path : [file |-> stored \/ p = Raw, body |-> <<>>, note |-> None]
                            \in [file : BOOLEAN, body : Seq(Nat), note : Nat]
      BY <2>1, <2>2 DEF None
    <2> QED BY <1>1, <2>3, Zenon
  <1>6. pending \in [here : BOOLEAN, dek : Nat]
    BY DEF Init, None
  <1>7. Cardinality(Att) \in Nat
    BY FS_CardinalityType
  <1>8. usage \in [raw : Nat, att : Nat]
    BY <1>7 DEF Init, Bytes
  <1>9. links \in SUBSET (Att \X Nat) /\ used \in SUBSET (Att \X Nat) /\ issued \in Nat
    BY <1>1 DEF Init
  <1>10. view \in [here : BOOLEAN, viewed : BOOLEAN]
    BY <1>1, <1>2
  <1>11. Idle \in Operation
    <2>1. TRUE \in BOOLEAN
      BY Zenon
    <2> QED BY <2>1 DEF Idle, Operation, Path, Phase, Pc, None, Kind
  <1>12. ops \in [Slot -> Operation]
    BY <1>11 DEF Init
  <1>13. user \in BOOLEAN /\ privacy \in BOOLEAN /\ overlap \in BOOLEAN
    BY <1>2 DEF Init
  <1> QED BY <1>3, <1>4, <1>5, <1>6, <1>8, <1>9, <1>10, <1>12, <1>13 DEF Init, TypeOK

(* The record types of the outside.                                        *)
LogRow == [here : BOOLEAN, raw : BOOLEAN, dek : Nat, final : BOOLEAN,
           stage : {"queued", "prepared"}]
Disk == [Path -> [file : BOOLEAN, body : Seq(Nat), note : Nat]]
ViewLink == [here : BOOLEAN, viewed : BOOLEAN]
Usage == [raw : Nat, att : Nat]

(* The types again, by name.                                               *)
LEMMA TypeParts ==
  ASSUME TypeOK
  PROVE  /\ log \in LogRow /\ disk \in Disk /\ view \in ViewLink /\ usage \in Usage
         /\ links \in SUBSET (Att \X Nat) /\ issued \in Nat /\ lost \in SUBSET Path
  BY DEF TypeOK, LogRow, Disk, ViewLink, Usage

(* The log and the view link after an update.                              *)
LEMMA RowUpdates ==
  ASSUME TypeOK
  PROVE  /\ [log EXCEPT !.here = FALSE] \in LogRow /\ [log EXCEPT !.final = TRUE] \in LogRow
         /\ [log EXCEPT !.raw = FALSE, !.dek = None, !.final = TRUE] \in LogRow
         /\ \A d \in Nat : [log EXCEPT !.dek = d] \in LogRow
         /\ [view EXCEPT !.here = FALSE] \in ViewLink /\ [view EXCEPT !.viewed = TRUE] \in ViewLink
         /\ [here |-> TRUE, viewed |-> FALSE] \in ViewLink
  <1>1. PICK yes \in BOOLEAN : yes = TRUE
    BY Zenon
  <1>2. PICK no \in BOOLEAN : no = FALSE
    BY Zenon
  <1>3. log \in LogRow /\ view \in ViewLink
    BY DEF TypeOK, LogRow, ViewLink
  <1>4. /\ [log EXCEPT !.here = no] \in LogRow /\ [log EXCEPT !.final = yes] \in LogRow
        /\ [log EXCEPT !.raw = no, !.dek = None, !.final = yes] \in LogRow
        /\ \A d \in Nat : [log EXCEPT !.dek = d] \in LogRow
        /\ [view EXCEPT !.here = no] \in ViewLink /\ [view EXCEPT !.viewed = yes] \in ViewLink
        /\ [here |-> yes, viewed |-> no] \in ViewLink
    BY <1>3 DEF LogRow, ViewLink, None
  <1> QED BY <1>1, <1>2, <1>4

(* The files after an update.                                              *)
LEMMA DiskUpdates ==
  ASSUME TypeOK, NEW p \in Path
  PROVE  /\ [disk EXCEPT ![p].file = FALSE] \in Disk
         /\ \A n \in Nat : [disk EXCEPT ![p].note = n] \in Disk
         /\ \A s \in Seq(Nat) : [disk EXCEPT ![p].file = TRUE, ![p].body = s] \in Disk
         /\ \A s \in Seq(Nat) : [disk EXCEPT ![p] = [@ EXCEPT !.file = TRUE, !.body = s]] \in Disk
  <1>1. PICK yes \in BOOLEAN : yes = TRUE
    BY Zenon
  <1>2. PICK no \in BOOLEAN : no = FALSE
    BY Zenon
  <1>3. disk \in Disk
    BY DEF TypeOK, Disk
  <1>4. /\ [disk EXCEPT ![p].file = no] \in Disk
        /\ \A n \in Nat : [disk EXCEPT ![p].note = n] \in Disk
        /\ \A s \in Seq(Nat) : [disk EXCEPT ![p].file = yes, ![p].body = s] \in Disk
        /\ \A s \in Seq(Nat) : [disk EXCEPT ![p] = [@ EXCEPT !.file = yes, !.body = s]] \in Disk
    BY <1>3 DEF Disk
  <1> QED BY <1>1, <1>2, <1>4

(* The counters after a release.                                           *)
LEMMA UsageUpdates ==
  ASSUME TypeOK, NEW x \in Nat
  PROVE  /\ [usage EXCEPT !.att = Sub(@, x)] \in Usage /\ [usage EXCEPT !.raw = Sub(@, x)] \in Usage
         /\ [usage EXCEPT !.att = Sub(@, x)].raw = usage.raw
         /\ [usage EXCEPT !.att = Sub(@, x)].att = Sub(usage.att, x)
         /\ [usage EXCEPT !.raw = Sub(@, x)].att = usage.att
         /\ [usage EXCEPT !.raw = Sub(@, x)].raw = Sub(usage.raw, x)
  <1>1. usage \in Usage /\ usage.att \in Nat /\ usage.raw \in Nat
    BY DEF TypeOK, Usage
  <1>2. Sub(usage.att, x) \in Nat /\ Sub(usage.raw, x) \in Nat
    BY <1>1, SubNat
  <1> QED BY <1>1, <1>2 DEF Usage

(* Links that are issued are links.                                        *)
LEMMA IssueTypes ==
  ASSUME TypeOK, NEW i \in Slot, NEW S \in SUBSET Att, Issue(i, S)
  PROVE  /\ links' \in SUBSET (Att \X Nat) /\ issued' \in Nat
         /\ view' \in ViewLink
  <1>1. CASE privacy
    <2>1. view' = [here |-> TRUE, viewed |-> FALSE] /\ issued' = issued + 1 /\ UNCHANGED links
      BY <1>1 DEF Issue
    <2>2. view' \in ViewLink
      BY <2>1, RowUpdates
    <2> QED BY <2>1, <2>2, TypeParts
  <1>2. CASE ~privacy
    <2>1. S \X {i} \subseteq Att \X Nat
      BY DEF Slot
    <2> QED BY <1>2, <2>1 DEF Issue, TypeOK, ViewLink
  <1> QED BY <1>1, <1>2

(* The steps that begin an operation keep the types.                       *)
LEMMA BeginTypes ==
  ASSUME TypeOK, NEW i \in Slot,
         \/ BeginPrep(i) \/ Resend(i) \/ BeginDownload(i) \/ BeginView(i) \/ BeginCleanup(i)
         \/ BeginErase(i) \/ BeginBackfill(i)
  PROVE  TypeOK'
  <1>1. ops' \in [Slot -> Operation]
    BY BeginPrepDoes, ResendDoes, BeginDownloadDoes, BeginViewDoes, BeginCleanupDoes,
       BeginEraseDoes, BeginBackfillDoes DEF Begins, Moves
  <1>2. CASE BeginDownload(i) \/ BeginView(i) \/ BeginErase(i) \/ BeginBackfill(i)
    BY <1>1, <1>2, OutsideStays, TypeFrom DEF BeginDownload, BeginView, BeginErase, BeginBackfill
  <1>3. CASE BeginPrep(i)
    <2>1. log' \in LogRow
      BY <1>3 DEF BeginPrep, TypeOK, LogRow
    <2>2. Outside
      BY <1>3, <2>1 DEF BeginPrep, TypeOK, Outside, LogRow, Disk, ViewLink, Usage, clock, owner,
         shares
    <2> QED BY <1>1, <2>2, TypeFrom
  <1>4. CASE Resend(i)
    <2>1. Existing \in SUBSET Att
      BY DEF Existing
    <2>2. /\ links' \in SUBSET (Att \X Nat) /\ issued' \in Nat
          /\ view' \in ViewLink
      BY <1>4, <2>1, IssueTypes DEF Resend, TypeOK, ViewLink
    <2>3. log' \in LogRow
      BY <1>4, RowUpdates, TypeParts DEF Resend
    <2>4. Outside
      BY <1>4, <2>2, <2>3 DEF Resend, TypeOK, Outside, LogRow, Disk, ViewLink, Usage, clock, owner
    <2> QED BY <1>1, <2>4, TypeFrom
  <1>5. CASE BeginCleanup(i)
    <2>1. overlap' \in BOOLEAN
      <3>1. (overlap \/ Live("cleanup") # {}) \in BOOLEAN
        BY Zenon
      <3> QED BY <1>5, <3>1 DEF BeginCleanup
    <2>2. Outside
      BY <1>5, <2>1 DEF BeginCleanup, TypeOK, Outside, LogRow, Disk, ViewLink, Usage, owner, store,
         shares
    <2> QED BY <1>1, <2>2, TypeFrom
  <1> QED BY <1>2, <1>3, <1>4, <1>5

(* The steps of the preparation keep the types.                            *)
LEMMA PrepTypes ==
  ASSUME TypeOK, Shapes, NEW i \in Slot,
         LockPrep(i) \/ WriteAttachment(i) \/ InsertAttachment(i) \/ CommitPrep(i)
  PROVE  TypeOK'
  <1>1. ops' \in [Slot -> Operation]
    BY LockPrepDoes, WriteAttachmentDoes, InsertAttachmentDoes, CommitPrepDoes
    DEF Ends, Goes, Moves
  <1>2. CASE LockPrep(i)
    BY <1>1, <1>2, OutsideStays, TypeFrom DEF LockPrep
  <1>3. CASE WriteAttachment(i)
    <2>1. <<i>> \in Seq(Nat) /\ ops[i].todo \subseteq Path
      BY DEF Slot, TypeOK, Operation
    <2>2. disk' \in Disk
      <3>1. PICK a \in ops[i].todo :
              \/ disk' = [disk EXCEPT ![a] = [@ EXCEPT !.file = TRUE, !.body = <<i>>]]
              \/ UNCHANGED disk
        BY <1>3, WriteAttachmentDoes
      <3>2. a \in Path
        BY <2>1
      <3> QED BY <2>1, <3>1, <3>2, DiskUpdates, TypeParts
    <2>3. Outside
      BY <1>3, <2>2 DEF WriteAttachment, TypeOK, Outside, LogRow, Disk, ViewLink, Usage, clock,
         owner, shares
    <2> QED BY <1>1, <2>3, TypeFrom
  <1>4. CASE InsertAttachment(i)
    <2>1. ops[i].p \in Path
      BY DEF TypeOK, Operation
    <2>2. disk' \in Disk /\ lost' \in SUBSET Path
      BY <1>4, <2>1, InsertAttachmentDoes, DiskUpdates, TypeParts
    <2>3. Outside
      BY <1>4, <2>2 DEF InsertAttachment, TypeOK, Outside, LogRow, Disk, ViewLink, Usage, clock,
         owner, shares
    <2> QED BY <1>1, <2>3, TypeFrom
  <1>5. CASE CommitPrep(i)
    <2>1. ops[i].done \in SUBSET Path /\ ops[i].n \in Nat /\ i \in Nat
      BY DEF TypeOK, Operation, Slot
    <2>2. CASE ops[i].ok /\ (privacy => log.here)
      <3>1. [a \in Att |-> IF a \in ops[i].done THEN [here |-> TRUE, dek |-> i] ELSE rows[a]]
              \in [Att -> [here : BOOLEAN, dek : Nat]]
        <4>1. TRUE \in BOOLEAN
          BY Zenon
        <4>2. [here |-> TRUE, dek |-> i] \in [here : BOOLEAN, dek : Nat]
          BY <2>1, <4>1
        <4> QED BY <4>2 DEF TypeOK
      <3>2. Size * ops[i].n \in Nat
        BY <2>1
      <3>3. usage' \in Usage
        BY <1>5, <2>2, <3>2, UsageUpdates DEF CommitPrep
      <3>4. /\ links' \in SUBSET (Att \X Nat) /\ issued' \in Nat
            /\ view' \in ViewLink
        <4>1. ops[i].done \in SUBSET Att
          BY <1>5 DEF Shapes, Shape, PrepShape, CommitPrep, At
        <4> QED BY <1>5, <2>2, <4>1, IssueTypes DEF CommitPrep
      <3>5. Outside
        BY <1>5, <2>2, <3>1, <3>3, <3>4 DEF CommitPrep, TypeOK, Outside, LogRow, Disk, ViewLink,
           Usage, clock
      <3> QED BY <1>1, <3>5, TypeFrom
    <2>3. CASE ~(ops[i].ok /\ (privacy => log.here))
      <3>1. lost' \in SUBSET Path /\ UNCHANGED <<rows, usage, links, view, issued>>
        BY <1>5, <2>1, <2>3 DEF CommitPrep, TypeOK
      <3>2. Outside
        BY <1>5, <3>1 DEF CommitPrep, TypeOK, Outside, LogRow, Disk, ViewLink, Usage, clock
      <3> QED BY <1>1, <3>2, TypeFrom
    <2> QED BY <2>2, <2>3
  <1> QED BY <1>2, <1>3, <1>4, <1>5

(* The steps of downloads and views keep the types.                        *)
LEMMA ServeTypes ==
  ASSUME TypeOK, Shapes, NEW i \in Slot,
         ClaimDownload(i) \/ OpenDownload(i) \/ EndStream(i) \/ ClaimView(i)
  PROVE  TypeOK'
  <1>1. ops' \in [Slot -> Operation]
    BY ClaimDownloadDoes, OpenDownloadDoes, EndStreamDoes, ClaimViewDoes DEF Ends, Goes, Moves
  <1>2. /\ egress \in Nat /\ served \in Int /\ ops[i].got \in Nat /\ ops[i].n \in Nat /\ i \in Nat
        /\ ops[i].kind = "download" => ops[i].p \in Att
        /\ ops[i].kind = "view" => ops[i].todo \subseteq Att
    BY DEF TypeOK, Operation, Slot, Shapes, Shape
  <1>3. ASSUME NEW x \in Nat, Release(x) PROVE egress' \in Nat
    <2>1. Sub(egress, x) \in Nat
      BY <1>2, SubNat
    <2> QED BY <1>2, <1>3, <2>1 DEF Release
  <1>4. CASE ClaimDownload(i)
    <2>1. LinkOf(i) \in Att \X Nat
      BY <1>2, <1>4 DEF LinkOf, ClaimDownload, At
    <2>2. egress' \in Nat
      BY <1>2, <1>4 DEF ClaimDownload
    <2>4. used' = used \cup {LinkOf(i)} \/ UNCHANGED used
      BY <1>4 DEF ClaimDownload
    <2>5. used' \in SUBSET (Att \X Nat)
      BY <2>1, <2>4 DEF TypeOK
    <2>3. Outside
      BY <1>4, <2>2, <2>5 DEF ClaimDownload, TypeOK, Outside, clock, store
    <2> QED BY <1>1, <2>3, TypeFrom
  <1>5. CASE OpenDownload(i)
    <2>1. egress' \in Nat /\ served' \in Int
      BY <1>2, <1>3, <1>5 DEF OpenDownload
    <2>2. Outside
      BY <1>5, <2>1 DEF OpenDownload, TypeOK, Outside, clock, store, shares
    <2> QED BY <1>1, <2>2, TypeFrom
  <1>6. CASE EndStream(i)
    <2>1. PICK sent \in Nat :
            /\ sent <= ops[i].got /\ served' = served - (ops[i].got - sent)
            /\ UNCHANGED egress \/ Release(ops[i].got - sent)
      BY <1>6, EndStreamDoes
    <2>2. ops[i].got - sent \in Nat
      BY <1>2, <2>1
    <2>3. egress' \in Nat /\ served' \in Int
      BY <1>2, <1>3, <2>1, <2>2
    <2>4. Outside
      BY <1>6, <2>3 DEF EndStream, TypeOK, Outside, clock, store, shares
    <2> QED BY <1>1, <2>4, TypeFrom
  <1>7. CASE ClaimView(i)
    <2>1. view' \in ViewLink
      BY <1>7, RowUpdates, TypeParts DEF ClaimView
    <2>2. egress' \in Nat /\ served' \in Int
      BY <1>2, <1>7 DEF ClaimView
    <2>3. links' \in SUBSET (Att \X Nat)
      <3>1. ops[i].todo \X {i} \subseteq Att \X Nat
        BY <1>2, <1>7 DEF ClaimView, At
      <3> QED BY <1>7, <3>1, TypeParts DEF ClaimView
    <2>4. Outside
      BY <1>7, <2>1, <2>2, <2>3 DEF ClaimView, TypeOK, Outside, ViewLink, clock, store
    <2> QED BY <1>1, <2>4, TypeFrom
  <1> QED BY <1>4, <1>5, <1>6, <1>7

(* The steps of the cleanup keep the types.                                *)
LEMMA CleanupTypes ==
  ASSUME TypeOK, Shapes, NEW i \in Slot,
         \/ Unlink(i) \/ DeleteRow(i) \/ CleanupFails(i) \/ NextPass(i)
         \/ ClearRaw(i) \/ PurgeLog(i) \/ PurgeLinks(i)
  PROVE  TypeOK'
  <1>1. ops' \in [Slot -> Operation]
    BY UnlinkDoes, DeleteRowDoes, CleanupFailsDoes, NextPassDoes, ClearRawDoes, PurgeLogDoes,
       PurgeLinksDoes DEF Ends, Goes, Moves
  <1>2. CASE CleanupFails(i) \/ NextPass(i)
    BY <1>1, <1>2, OutsideStays, TypeFrom DEF CleanupFails, NextPass
  <1>3. CASE Unlink(i)
    <2>1. PICK p \in ops[i].todo : disk' = [disk EXCEPT ![p].file = FALSE] \/ UNCHANGED disk
      BY <1>3, UnlinkDoes
    <2>2. p \in Path
      BY DEF TypeOK, Operation
    <2>3. disk' \in Disk
      BY <2>1, <2>2, DiskUpdates, TypeParts
    <2>4. Outside
      BY <1>3, <2>3 DEF Unlink, TypeOK, Outside, Disk, clock, owner, shares
    <2> QED BY <1>1, <2>4, TypeFrom
  <1>4. CASE DeleteRow(i)
    <2>1. rows' \in [Att -> [here : BOOLEAN, dek : Nat]]
      <3>1. FALSE \in BOOLEAN
        BY Zenon
      <3>2. [here |-> FALSE, dek |-> None] \in [here : BOOLEAN, dek : Nat]
        BY <3>1 DEF None
      <3> QED BY <1>4, <3>2 DEF DeleteRow, TypeOK
    <2>2. usage' \in Usage
      <3>1. ReleasedFor(ops[i].p) \in Nat
        BY DEF ReleasedFor
      <3>2. CASE user
        BY <1>4, <3>1, <3>2, UsageUpdates DEF DeleteRow
      <3>3. CASE ~user
        BY <1>4, <3>3 DEF DeleteRow, Usage, TypeOK
      <3> QED BY <3>2, <3>3
    <2>3. links' \in SUBSET (Att \X Nat) /\ used' \in SUBSET (Att \X Nat)
      BY <1>4 DEF DeleteRow, TypeOK
    <2>4. Outside
      BY <1>4, <2>1, <2>2, <2>3 DEF DeleteRow, TypeOK, Outside, Usage, clock
    <2> QED BY <1>1, <2>4, TypeFrom
  <1>5. CASE ClearRaw(i)
    <2>1. log' \in LogRow /\ usage' \in Usage
      BY <1>5, RowUpdates, UsageUpdates, TypeParts DEF ClearRaw
    <2>2. Outside
      BY <1>5, <2>1 DEF ClearRaw, TypeOK, Outside, LogRow, Usage, clock, shares
    <2> QED BY <1>1, <2>2, TypeFrom
  <1>6. CASE PurgeLog(i)
    <2>1. log' \in LogRow /\ view' \in ViewLink
      BY <1>6, RowUpdates, TypeParts DEF PurgeLog
    <2>2. Outside
      BY <1>6, <2>1 DEF PurgeLog, TypeOK, Outside, LogRow, ViewLink, clock, owner
    <2> QED BY <1>1, <2>2, TypeFrom
  <1>7. CASE PurgeLinks(i)
    <2>1. view' \in ViewLink
      BY <1>7, RowUpdates, TypeParts DEF PurgeLinks
    <2>2. links' \in SUBSET (Att \X Nat) /\ used' \in SUBSET (Att \X Nat)
      BY <1>7 DEF PurgeLinks, TypeOK
    <2>3. Outside
      BY <1>7, <2>1, <2>2 DEF PurgeLinks, TypeOK, Outside, ViewLink, clock, owner, store
    <2> QED BY <1>1, <2>3, TypeFrom
  <1> QED BY <1>2, <1>3, <1>4, <1>5, <1>6, <1>7

(* The steps of the erasure keep the types.                                *)
LEMMA EraseTypes ==
  ASSUME TypeOK, NEW i \in Slot, Erase(i) \/ EraseFile(i)
  PROVE  TypeOK'
  <1>1. ops' \in [Slot -> Operation]
    BY EraseDoes, EraseFileDoes DEF Ends, Goes, Moves
  <1>2. CASE Erase(i)
    <2>1. FALSE \in BOOLEAN
      BY Zenon
    <2>2. [here |-> FALSE, dek |-> None] \in [here : BOOLEAN, dek : Nat]
      BY <2>1 DEF None
    <2>3. rows' \in [Att -> [here : BOOLEAN, dek : Nat]] /\ usage' \in Usage
      BY <1>2, <2>2 DEF Erase, Usage
    <2>4. log' \in LogRow /\ view' \in ViewLink /\ user' \in BOOLEAN
      BY <1>2, <2>1, RowUpdates DEF Erase
    <2>5. Outside
      BY <1>2, <2>3, <2>4 DEF Erase, TypeOK, Outside, LogRow, ViewLink, Usage, clock
    <2> QED BY <1>1, <2>5, TypeFrom
  <1>3. CASE EraseFile(i)
    <2>1. /\ ops[i].todo \subseteq Path
          /\ \/ UNCHANGED <<disk, lost>>
             \/ \E p \in ops[i].todo : \/ disk' = [disk EXCEPT ![p].file = FALSE] /\ UNCHANGED lost
                                       \/ lost' = lost \cup {p} /\ UNCHANGED disk
      BY <1>3, EraseFileDoes DEF TypeOK, Operation
    <2>2. disk' \in Disk /\ lost' \in SUBSET Path
      BY <2>1, DiskUpdates, TypeParts
    <2>3. Outside
      BY <1>3, <2>2 DEF EraseFile, TypeOK, Outside, Disk, clock, owner, shares
    <2> QED BY <1>1, <2>3, TypeFrom
  <1> QED BY <1>2, <1>3

(* The steps of the backfill keep the types.                               *)
LEMMA BackfillTypes ==
  ASSUME TypeOK, Shapes, NEW i \in Slot,
         ReadFile(i) \/ ReplaceFile(i) \/ RecordKey(i) \/ ClearNote(i) \/ NextPhase(i)
  PROVE  TypeOK'
  <1>1. ops' \in [Slot -> Operation]
    BY ReadFileDoes, ReplaceFileDoes, RecordKeyDoes, ClearNoteDoes, NextPhaseDoes DEF Goes, Moves
  <1>2. ops[i].p \in Path /\ ops[i].n \in Nat /\ ops[i].todo \subseteq Path /\ i \in Nat
    BY DEF TypeOK, Operation, Slot
  <1>3. CASE NextPhase(i)
    BY <1>1, <1>3, OutsideStays, TypeFrom DEF NextPhase
  <1>4. CASE ReadFile(i)
    <2>1. PICK p \in ops[i].todo : UNCHANGED disk \/ disk' = [disk EXCEPT ![p].note = i]
      BY <1>4, ReadFileDoes DEF Noted
    <2>4. p \in Path
      BY <1>2
    <2>2. disk' \in Disk
      BY <1>2, <2>1, <2>4, DiskUpdates, TypeParts
    <2>3. Outside
      BY <1>4, <2>2 DEF ReadFile, TypeOK, Outside, Disk, clock, owner, shares
    <2> QED BY <1>1, <2>3, TypeFrom
  <1>5. CASE ReplaceFile(i)
    <2>1. disk[ops[i].p].body \in Seq(Nat) /\ <<>> \in Seq(Nat)
      BY <1>2 DEF TypeOK
    <2>2. PICK b \in Seq(Nat) : b = IF ops[i].got = 0 THEN <<>> ELSE disk[ops[i].p].body
      BY <2>1
    <2>3. Append(b, ops[i].n) \in Seq(Nat)
      BY <1>2
    <2>4. disk' = [disk EXCEPT ![ops[i].p].file = TRUE, ![ops[i].p].body = Append(b, ops[i].n)]
      BY <1>5, <2>2, <1>2 DEF ReplaceFile, TypeOK
    <2>5. disk' \in Disk
      BY <1>2, <2>3, <2>4, DiskUpdates
    <2>6. lost' \in SUBSET Path
      BY <1>2, <1>5 DEF ReplaceFile, TypeOK
    <2>7. Outside
      BY <1>5, <2>5, <2>6 DEF ReplaceFile, TypeOK, Outside, Disk, clock, owner, shares
    <2> QED BY <1>1, <2>7, TypeFrom
  <1>6. CASE RecordKey(i)
    <2>1. rows' \in [Att -> [here : BOOLEAN, dek : Nat]]
      <3>1. CASE ops[i].phase = "att"
        <4>1. ops[i].p \in Att
          BY <1>6, <3>1 DEF RecordKey, At, Shapes, Shape, BackfillShape
        <4>2. PICK d \in Nat : d = IF HasRow(ops[i].p) THEN ops[i].n ELSE rows[ops[i].p].dek
          BY <1>2, <4>1 DEF TypeOK
        <4>3. rows' = [rows EXCEPT ![ops[i].p].dek = d]
          BY <1>6, <3>1, <4>1, <4>2 DEF RecordKey, TypeOK
        <4> QED BY <4>1, <4>3 DEF TypeOK
      <3>2. CASE ops[i].phase # "att"
        BY <1>6, <3>2 DEF RecordKey, TypeOK
      <3> QED BY <3>1, <3>2
    <2>2. log' \in LogRow
      <3>1. log.dek \in Nat
        BY DEF TypeOK
      <3>2. PICK d \in Nat : d = IF log.here THEN ops[i].n ELSE log.dek
        BY <1>2, <3>1
      <3>3. UNCHANGED log \/ log' = [log EXCEPT !.dek = d]
        BY <1>6, <3>2 DEF RecordKey
      <3> QED BY <3>3, RowUpdates, TypeParts
    <2>3. pending' \in [here : BOOLEAN, dek : Nat]
      <3>1. PICK yes \in BOOLEAN : yes = TRUE
        BY Zenon
      <3>2. [here |-> yes, dek |-> ops[i].n] \in [here : BOOLEAN, dek : Nat]
        BY <1>2
      <3>3. UNCHANGED pending \/ pending' = [here |-> yes, dek |-> ops[i].n]
        BY <1>6, <3>1 DEF RecordKey
      <3> QED BY <3>2, <3>3 DEF TypeOK
    <2>4. Outside
      BY <1>6, <2>1, <2>2, <2>3 DEF RecordKey, TypeOK, Outside, LogRow, clock, owner, shares
    <2> QED BY <1>1, <2>4, TypeFrom
  <1>7. CASE ClearNote(i)
    <2>1. disk' \in Disk
      BY <1>2, <1>7, DiskUpdates DEF ClearNote, None
    <2>2. Outside
      BY <1>7, <2>1 DEF ClearNote, TypeOK, Outside, Disk, clock, owner, shares
    <2> QED BY <1>1, <2>2, TypeFrom
  <1> QED BY <1>3, <1>4, <1>5, <1>6, <1>7

(* The remaining steps keep the types.                                     *)
LEMMA OtherTypes ==
  ASSUME TypeOK, \/ Settle \/ RecoverPending \/ Tick \/ Crash \/ BackfillStops \/ UNCHANGED vars
  PROVE  TypeOK'
  <1>1. ops' \in [Slot -> Operation]
    BY StoppedDoes DEF Settle, RecoverPending, Tick, Crash, BackfillStops, vars, TypeOK
  <1>2. CASE Settle
    <2>1. log' \in LogRow
      BY <1>2, RowUpdates DEF Settle
    <2>2. Outside
      BY <1>2, <2>1 DEF Settle, TypeOK, Outside, LogRow, clock, owner, shares
    <2> QED BY <1>1, <2>2, TypeFrom
  <1>3. CASE RecoverPending
    <2>1. disk' \in Disk
      BY <1>3, DiskUpdates, TypeParts DEF RecoverPending, Path
    <2>2. pending' \in [here : BOOLEAN, dek : Nat]
      <3>1. PICK no \in BOOLEAN : no = FALSE
        BY Zenon
      <3>2. [here |-> no, dek |-> None] \in [here : BOOLEAN, dek : Nat]
        BY DEF None
      <3> QED BY <1>3, <3>1, <3>2 DEF RecoverPending
    <2>3. Outside
      BY <1>3, <2>1, <2>2 DEF RecoverPending, TypeOK, Outside, Disk, clock, owner, shares
    <2> QED BY <1>1, <2>3, TypeFrom
  <1>4. CASE Tick
    <2>1. Outside
      BY <1>4 DEF Tick, TypeOK, Outside, owner, store, shares
    <2> QED BY <1>1, <2>1, TypeFrom
  <1>5. CASE Crash \/ BackfillStops
    <2>1. lost' \in SUBSET Path
      BY <1>5 DEF Crash, BackfillStops, TypeOK
    <2>2. Outside
      BY <1>5, <2>1 DEF Crash, BackfillStops, TypeOK, Outside, owner, store, shares
    <2> QED BY <1>1, <2>2, TypeFrom
  <1>6. CASE UNCHANGED vars
    BY <1>6 DEF vars, TypeOK
  <1> QED BY <1>2, <1>3, <1>4, <1>5, <1>6

-----------------------------------------------------------------------------
(* What operations have in hand.                                           *)

(* The other operations keep their shapes.                                 *)
LEMMA ShapesFrom ==
  ASSUME Shapes, NEW i \in Slot, Moves(i), Shape(ops'[i])
  PROVE  Shapes'
  BY DEF Shapes, Moves

(* An operation that stops has nothing left in hand.                       *)
LEMMA ShapesStop ==
  ASSUME TypeOK, Shapes, \A j \in Slot : StopsOrStays(j)
  PROVE  Shapes'
  <1>1. ASSUME NEW j \in Slot PROVE Shape(ops'[j])
    <2>1. Shape(ops[j])
      BY DEF Shapes
    <2> QED BY <2>1 DEF StopsOrStays, Shape, PrepShape, CleanupShape, BackfillShape
  <1> QED BY <1>1 DEF Shapes

(* A new operation has only what it listed.                                *)
LEMMA BeginShapes ==
  ASSUME TypeOK, Shapes, NEW i \in Slot,
         \/ BeginPrep(i) \/ Resend(i) \/ BeginDownload(i) \/ BeginView(i) \/ BeginCleanup(i)
         \/ BeginErase(i) \/ BeginBackfill(i)
  PROVE  Shapes'
  <1>1. CASE BeginPrep(i) \/ Resend(i)
    BY <1>1, BeginPrepDoes, ResendDoes, ShapesFrom DEF Begins, Shape, PrepShape
  <1>2. CASE BeginDownload(i)
    <2>1. \A l \in links : l[1] \in Att
      BY TypeParts
    <2>2. Begins(i, "download", "claim") /\ ops'[i].p \in Att
      BY <1>2, <2>1, BeginDownloadDoes
    <2> QED BY <2>2, ShapesFrom DEF Begins, Shape
  <1>3. CASE BeginView(i) \/ BeginErase(i)
    BY <1>3, BeginViewDoes, BeginEraseDoes, ShapesFrom DEF Begins, Shape, Existing
  <1>4. CASE BeginCleanup(i) \/ BeginBackfill(i)
    BY <1>4, BeginCleanupDoes, BeginBackfillDoes, ShapesFrom
    DEF Begins, Shape, CleanupShape, BackfillShape, Existing
  <1> QED BY <1>1, <1>2, <1>3, <1>4

(* The preparation hands each attachment on once.                          *)
LEMMA PrepShapes ==
  ASSUME TypeOK, Shapes, NEW i \in Slot,
         LockPrep(i) \/ WriteAttachment(i) \/ InsertAttachment(i) \/ CommitPrep(i)
  PROVE  Shapes'
  <1>1. ops[i].kind = "prep" => PrepShape(ops[i])
    BY DEF Shapes, Shape
  <1>2. CASE LockPrep(i) \/ CommitPrep(i)
    BY <1>1, <1>2, LockPrepDoes, CommitPrepDoes, ShapesFrom DEF Ends, Goes, Shape, PrepShape
  <1>3. CASE WriteAttachment(i)
    <2>1. PICK a \in ops[i].todo :
            /\ ops'[i].todo = ops[i].todo \ {a} /\ ops'[i].done = ops[i].done
            /\ \/ Goes(i, "prep", "store", "insert") /\ ops'[i].p = a
               \/ Goes(i, "prep", "store", "store")
      BY <1>3, WriteAttachmentDoes
    <2>2. Shape(ops'[i]) /\ Moves(i)
      BY <1>1, <2>1 DEF Goes, Shape, PrepShape
    <2> QED BY <2>2, ShapesFrom
  <1>4. CASE InsertAttachment(i)
    <2>1. /\ Goes(i, "prep", "insert", "store") /\ ops'[i].todo = ops[i].todo
          /\ ops'[i].done \in {ops[i].done, ops[i].done \cup {ops[i].p}}
      BY <1>4, InsertAttachmentDoes
    <2>2. Shape(ops'[i]) /\ Moves(i)
      BY <1>1, <2>1 DEF Goes, Shape, PrepShape
    <2> QED BY <2>2, ShapesFrom
  <1> QED BY <1>2, <1>3, <1>4

(* Downloads, views and the erasure.                                       *)
LEMMA ServeShapes ==
  ASSUME TypeOK, Shapes, NEW i \in Slot,
         \/ ClaimDownload(i) \/ OpenDownload(i) \/ EndStream(i) \/ ClaimView(i)
         \/ Erase(i) \/ EraseFile(i)
  PROVE  Shapes'
  <1>1. Shape(ops[i])
    BY DEF Shapes
  <1>2. CASE ClaimDownload(i) \/ OpenDownload(i)
    BY <1>1, <1>2, ClaimDownloadDoes, OpenDownloadDoes, ShapesFrom DEF Ends, Goes, Shape
  <1>3. CASE EndStream(i)
    BY <1>1, <1>3, EndStreamDoes, ShapesFrom DEF Ends, Goes, Shape
  <1>4. CASE ClaimView(i) \/ Erase(i) \/ EraseFile(i)
    BY <1>1, <1>4, ClaimViewDoes, EraseDoes, EraseFileDoes, ShapesFrom DEF Ends, Goes, Shape
  <1> QED BY <1>2, <1>3, <1>4

(* The cleanup works through attachments, then the raw mail.               *)
LEMMA CleanupShapes ==
  ASSUME TypeOK, Shapes, NEW i \in Slot,
         \/ Unlink(i) \/ DeleteRow(i) \/ CleanupFails(i) \/ NextPass(i)
         \/ ClearRaw(i) \/ PurgeLog(i) \/ PurgeLinks(i)
  PROVE  Shapes'
  <1>1. ops[i].kind = "cleanup" => CleanupShape(ops[i])
    BY DEF Shapes, Shape
  <1>2. CASE Unlink(i)
    <2>1. PICK p \in ops[i].todo :
            /\ ops[i].pc \in {"att", "raw"} /\ ops'[i].todo = ops[i].todo \ {p}
            /\ \/ /\ Goes(i, "cleanup", ops[i].pc, IF ops[i].pc = "att" THEN "attTx" ELSE "rawTx")
                  /\ ops'[i].p = p
               \/ Goes(i, "cleanup", ops[i].pc, ops[i].pc)
      BY <1>2, UnlinkDoes
    <2>2. Shape(ops'[i]) /\ Moves(i)
      BY <1>1, <2>1 DEF Goes, Shape, CleanupShape
    <2> QED BY <2>2, ShapesFrom
  <1>3. CASE DeleteRow(i) \/ CleanupFails(i) \/ NextPass(i)
    BY <1>1, <1>3, DeleteRowDoes, CleanupFailsDoes, NextPassDoes, ShapesFrom
    DEF Goes, Shape, CleanupShape
  <1>4. CASE ClearRaw(i) \/ PurgeLog(i) \/ PurgeLinks(i)
    BY <1>1, <1>4, ClearRawDoes, PurgeLogDoes, PurgeLinksDoes, ShapesFrom
    DEF Goes, Shape, CleanupShape
  <1> QED BY <1>2, <1>3, <1>4

(* The backfill works through its phases.                                  *)
LEMMA BackfillShapes ==
  ASSUME TypeOK, Shapes, NEW i \in Slot,
         ReadFile(i) \/ ReplaceFile(i) \/ RecordKey(i) \/ ClearNote(i) \/ NextPhase(i)
  PROVE  Shapes'
  <1>1. ops[i].kind = "backfill" => BackfillShape(ops[i])
    BY DEF Shapes, Shape
  <1>2. CASE ReadFile(i)
    <2>1. PICK p \in ops[i].todo :
            /\ ops'[i].todo = ops[i].todo \ {p} /\ ops'[i].phase = ops[i].phase
            /\ \/ Goes(i, "backfill", "read", "read")
               \/ Goes(i, "backfill", "read", "row") /\ ops'[i].p = p
               \/ Goes(i, "backfill", "read", "replace") /\ ops'[i].p = p
      BY <1>2, ReadFileDoes
    <2>2. Shape(ops'[i]) /\ Moves(i)
      BY <1>1, <2>1 DEF Goes, Shape, BackfillShape
    <2> QED BY <2>2, ShapesFrom
  <1>3. CASE ReplaceFile(i) \/ RecordKey(i) \/ ClearNote(i)
    BY <1>1, <1>3, ReplaceFileDoes, RecordKeyDoes, ClearNoteDoes, ShapesFrom
    DEF Goes, Shape, BackfillShape
  <1>4. CASE NextPhase(i)
    BY <1>1, <1>4, NextPhaseDoes, ShapesFrom DEF Goes, Shape, BackfillShape
  <1> QED BY <1>2, <1>3, <1>4

-----------------------------------------------------------------------------
(* What the steps do to rows and files.                                    *)

(* The cleanup deletes one row.                                            *)
LEMMA DeletedRow ==
  ASSUME TypeOK, Shapes, NEW i \in Slot, DeleteRow(i)
  PROVE  /\ ops[i].p \in Att /\ ~rows'[ops[i].p].here
         /\ \A a \in Att : a # ops[i].p => rows'[a] = rows[a]
         /\ Existing' = Existing \ {ops[i].p}
  <1>1. ops[i].p \in Att
    BY DEF DeleteRow, At, Shapes, Shape, CleanupShape
  <1>2. rows' = [rows EXCEPT ![ops[i].p] = [here |-> FALSE, dek |-> None]]
    BY DEF DeleteRow
  <1>3. rows \in [Att -> [here : BOOLEAN, dek : Nat]]
    BY DEF TypeOK
  <1>4. ~rows'[ops[i].p].here /\ \A a \in Att : a # ops[i].p => rows'[a] = rows[a]
    BY <1>1, <1>2, <1>3
  <1> QED BY <1>1, <1>4 DEF Existing, HasRow

(* The backfill writes a key down, in the attachment's row, in the log or  *)
(* in the pending metadata, which it may create.                           *)
LEMMA RecordedKey ==
  ASSUME TypeOK, Shapes, NEW i \in Slot, RecordKey(i)
  PROVE  /\ Existing' = Existing
         /\ \A a \in Att : rows'[a].here = rows[a].here
         /\ \A a \in Att : rows'[a].dek = IF ops[i].phase = "att" /\ a = ops[i].p /\ HasRow(a)
                                          THEN ops[i].n ELSE rows[a].dek
         /\ log'.here = log.here /\ log'.raw = log.raw /\ log'.stage = log.stage
         /\ pending.here => pending'.here
  <1>1. ops[i] \in Operation /\ ops[i].kind = "backfill" /\ ops[i].pc = "row"
    BY DEF TypeOK, RecordKey, At
  <1>2. rows \in [Att -> [here : BOOLEAN, dek : Nat]] /\ log \in LogRow
    BY DEF TypeOK, LogRow
  <1>3. CASE ops[i].phase = "att"
    <2>1. ops[i].p \in Att
      BY <1>1, <1>3 DEF Shapes, Shape, BackfillShape
    <2>2. PICK d : d = IF HasRow(ops[i].p) THEN ops[i].n ELSE rows[ops[i].p].dek
      OBVIOUS
    <2>3. rows' = [rows EXCEPT ![ops[i].p].dek = d] /\ UNCHANGED <<log, pending>>
      BY <1>3, <2>2 DEF RecordKey
    <2>4. /\ \A a \in Att : rows'[a].here = rows[a].here
          /\ \A a \in Att : rows'[a].dek = IF a = ops[i].p THEN d ELSE rows[a].dek
      BY <1>2, <2>1, <2>3
    <2>5. Existing' = Existing
      BY <2>4 DEF Existing, HasRow
    <2> QED BY <1>3, <2>2, <2>3, <2>4, <2>5
  <1>4. CASE ops[i].phase = "raw"
    <2>1. PICK d : d = IF log.here THEN ops[i].n ELSE log.dek
      OBVIOUS
    <2>2. log' = [log EXCEPT !.dek = d] /\ UNCHANGED <<rows, pending>>
      BY <1>4, <2>1 DEF RecordKey
    <2>3. log'.here = log.here /\ log'.raw = log.raw /\ log'.stage = log.stage
      BY <1>2, <2>2 DEF LogRow
    <2>4. Existing' = Existing
      BY <2>2 DEF Existing, HasRow
    <2> QED BY <1>4, <2>2, <2>3, <2>4
  <1>5. CASE ops[i].phase = "pending"
    <2>1. pending' = [here |-> TRUE, dek |-> ops[i].n] /\ UNCHANGED <<rows, log>>
      BY <1>5 DEF RecordKey
    <2>2. Existing' = Existing
      BY <2>1 DEF Existing, HasRow
    <2> QED BY <1>5, <2>1, <2>2
  <1> QED BY <1>3, <1>4, <1>5 DEF RecordKey

(* A file is unlinked.                                                     *)
LEMMA UnlinkedFile ==
  ASSUME TypeOK, NEW p \in Path, disk' = [disk EXCEPT ![p].file = FALSE]
  PROVE  /\ ~disk'[p].file
         /\ \A q \in Path : /\ disk'[q].body = disk[q].body /\ disk'[q].note = disk[q].note
                            /\ disk'[q].file => disk[q].file
  <1>1. disk \in [Path -> [file : BOOLEAN, body : Seq(Nat), note : Nat]]
    BY DEF TypeOK
  <1> QED BY <1>1

-----------------------------------------------------------------------------
(* The preparation, the lock and the erasure.                              *)

(* A step that is not part of a preparation or an erasure's beginning.     *)
LEMMA PreparationFrame ==
  ASSUME TypeOK, Preparation, NEW i \in Slot, Moves(i), log'.stage = log.stage,
         \A a \in Att : rows'[a].here => rows[a].here,
         ops'[i].kind = "prep" =>
           /\ ops[i].kind = "prep"
           /\ ops'[i].pc # "end" => ops[i].pc # "end"
           /\ ops'[i].pc \notin {"end", "begin"} => ops[i].pc \notin {"end", "begin"},
         ops'[i].kind = "erase" /\ ops'[i].pc = "rows"
           => ops[i].kind = "erase" /\ ops[i].pc = "rows",
         Fresh => HandsOff(ops'[i])
  PROVE  Preparation'
  <1>1. \A j \in Slot : ops'[j].kind = "prep" => ops[j].kind = "prep"
    BY DEF Moves
  <1>2. OnePrep'
    BY <1>1 DEF Preparation, OnePrep
  <1>3. Fresh' => Fresh
    BY DEF Fresh, Live, Moves
  <1>4. Fresh => \A j \in Slot : HandsOff(ops'[j])
    BY DEF Preparation, Untouched, Moves
  <1>5. Existing' \subseteq Existing
    BY DEF Existing, HasRow
  <1>6. Untouched'
    BY <1>3, <1>4, <1>5 DEF Preparation, Untouched
  <1>7. Preparing' \subseteq Preparing /\ Erasing' \subseteq Erasing
    BY DEF Preparing, Erasing, Live, Moves
  <1>8. Locks'
    BY <1>7 DEF Preparation, Locks
  <1> QED BY <1>2, <1>6, <1>8 DEF Preparation

(* A step that only ends operations.                                       *)
LEMMA PreparationStops ==
  ASSUME TypeOK, Shapes, Preparation, log'.stage = log.stage, rows' = rows,
         \A j \in Slot : StopsOrStays(j)
  PROVE  Preparation'
  <1>1. \A j \in Slot : ops'[j].kind = ops[j].kind /\ (ops'[j].pc # "end" => ops'[j] = ops[j])
    BY DEF StopsOrStays
  <1>2. OnePrep'
    BY <1>1 DEF Preparation, OnePrep
  <1>3. Fresh' => Fresh
    BY <1>1 DEF Fresh, Live
  <1>4. Fresh => \A j \in Slot : HandsOff(ops'[j])
    BY DEF Preparation, Untouched, StopsOrStays, HandsOff
  <1>5. Existing' = Existing
    BY DEF Existing, HasRow
  <1>6. Untouched'
    BY <1>3, <1>4, <1>5 DEF Preparation, Untouched
  <1>7. Preparing' \subseteq Preparing /\ Erasing' \subseteq Erasing
    BY <1>1 DEF Preparing, Erasing, Live
  <1>8. Locks'
    BY <1>7 DEF Preparation, Locks
  <1> QED BY <1>2, <1>6, <1>8 DEF Preparation

(* Beginnings: a preparation begins once, an erasure under the lock.       *)
LEMMA BeginPreparation ==
  ASSUME TypeOK, Shapes, Preparation, NEW i \in Slot,
         \/ BeginPrep(i) \/ Resend(i) \/ BeginDownload(i) \/ BeginView(i) \/ BeginCleanup(i)
         \/ BeginErase(i) \/ BeginBackfill(i)
  PROVE  Preparation'
  <1>1. CASE BeginPrep(i)
    <2>1. /\ Begins(i, "prep", "begin") /\ log.stage = "queued" /\ log'.stage = "prepared"
          /\ UNCHANGED rows
      BY <1>1, BeginPrepDoes DEF BeginPrep, TypeOK
    <2>2. Moves(i) /\ ops'[i].kind = "prep" /\ ops'[i].pc = "begin" /\ ops[i].kind = "idle"
      BY <2>1 DEF Begins
    <2>3. OnePrep'
      BY <2>1, <2>2 DEF Preparation, OnePrep, Moves
    <2>4. Fresh /\ Existing' = Existing
      BY <2>1 DEF Fresh, Existing, HasRow
    <2>5. \A j \in Slot : HandsOff(ops'[j])
      BY <2>2, <2>4 DEF Preparation, Untouched, HandsOff, Moves
    <2>6. Untouched'
      BY <2>4, <2>5 DEF Preparation, Untouched
    <2>7. Preparing' = Preparing /\ Erasing' = Erasing
      BY <2>2 DEF Preparing, Erasing, Live, Moves
    <2> QED BY <2>3, <2>6, <2>7 DEF Preparation, Locks
  <1>2. CASE BeginErase(i)
    <2>1. /\ Begins(i, "erase", "rows") /\ LockIsFree /\ UNCHANGED <<log, rows>>
      BY <1>2, BeginEraseDoes DEF BeginErase, store
    <2>2. Moves(i) /\ ops'[i].kind = "erase" /\ ops[i].kind = "idle"
      BY <2>1 DEF Begins
    <2>3. OnePrep'
      BY <2>1, <2>2 DEF Preparation, OnePrep, Moves
    <2>4. (Fresh' => Fresh) /\ Existing' = Existing
      BY <2>1, <2>2 DEF Fresh, Live, Existing, HasRow, Moves
    <2>5. Fresh => \A j \in Slot : HandsOff(ops'[j])
      BY <2>2, <2>4 DEF Preparation, Untouched, HandsOff, Moves
    <2>6. Untouched'
      BY <2>4, <2>5 DEF Preparation, Untouched
    <2>7. Preparing' \subseteq Preparing /\ Preparing = {}
      BY <2>1, <2>2 DEF Preparing, LockIsFree, Live, Moves
    <2> QED BY <2>3, <2>6, <2>7 DEF Preparation, Locks
  <1>3. CASE Resend(i) \/ BeginDownload(i) \/ BeginView(i)
    <2>1. log'.stage = log.stage /\ UNCHANGED rows
      BY <1>3 DEF Resend, BeginDownload, BeginView, store, TypeOK
    <2>2. Moves(i) /\ ops'[i].kind \in {"resend", "download", "view"}
      BY <1>3, ResendDoes, BeginDownloadDoes, BeginViewDoes DEF Begins
    <2>3. HandsOff(ops'[i])
      BY <2>2 DEF HandsOff
    <2> QED BY <2>1, <2>2, <2>3, PreparationFrame
  <1>4. CASE BeginCleanup(i) \/ BeginBackfill(i)
    <2>1. log'.stage = log.stage /\ UNCHANGED rows
      BY <1>4 DEF BeginCleanup, BeginBackfill, store
    <2>2. /\ Moves(i) /\ ops'[i].kind \in {"cleanup", "backfill"} /\ ops'[i].todo \subseteq Existing
          /\ ops'[i].kind = "cleanup" => ops'[i].pc = "att"
          /\ ops'[i].kind = "backfill" => ops'[i].pc = "read"
      BY <1>4, BeginCleanupDoes, BeginBackfillDoes DEF Begins
    <2>3. Fresh => HandsOff(ops'[i])
      BY <2>2 DEF HandsOff, Preparation, Untouched
    <2> QED BY <2>1, <2>2, <2>3, PreparationFrame
  <1> QED BY <1>1, <1>2, <1>3, <1>4

(* The preparation takes the lock, works and is over for good.             *)
LEMMA PrepPreparation ==
  ASSUME TypeOK, Shapes, Preparation, NEW i \in Slot,
         LockPrep(i) \/ WriteAttachment(i) \/ InsertAttachment(i) \/ CommitPrep(i)
  PROVE  Preparation'
  <1>1. UNCHANGED log
    BY DEF LockPrep, WriteAttachment, InsertAttachment, CommitPrep, store
  <1>2. CASE LockPrep(i)
    <2>1. /\ Moves(i) /\ ops[i].kind = "prep" /\ ops[i].pc = "begin" /\ ops'[i].kind = "prep"
      BY <1>2, LockPrepDoes DEF Goes, Ends
    <2>2. LockIsFree /\ UNCHANGED rows
      BY <1>2 DEF LockPrep, store
    <2>3. OnePrep'
      BY <1>1, <2>1 DEF Preparation, OnePrep, Moves
    <2>4. (Fresh' => Fresh) /\ Existing' = Existing
      BY <1>1, <2>1, <2>2 DEF Fresh, Live, Existing, HasRow, Moves
    <2>5. Fresh => \A j \in Slot : HandsOff(ops'[j])
      BY <2>1 DEF Preparation, Untouched, HandsOff, Moves
    <2>6. Untouched'
      BY <2>4, <2>5 DEF Preparation, Untouched
    <2>7. Erasing' \subseteq Erasing /\ Erasing = {}
      BY <2>1, <2>2 DEF Erasing, LockIsFree, Live, Moves
    <2> QED BY <2>3, <2>6, <2>7 DEF Preparation, Locks
  <1>3. CASE WriteAttachment(i) \/ InsertAttachment(i)
    <2>1. /\ Moves(i) /\ ops[i].kind = "prep" /\ ops[i].pc \in {"store", "insert"}
          /\ ops'[i].kind = "prep" /\ ops'[i].pc \in {"store", "insert"}
      BY <1>3, WriteAttachmentDoes, InsertAttachmentDoes DEF Goes
    <2>2. HandsOff(ops'[i]) /\ UNCHANGED rows
      BY <1>3, <2>1 DEF HandsOff, WriteAttachment, InsertAttachment
    <2> QED BY <1>1, <2>1, <2>2, PreparationFrame
  <1>4. CASE CommitPrep(i)
    <2>1. Moves(i) /\ ops[i].kind = "prep" /\ ops'[i].kind = "prep" /\ ops'[i].pc = "end"
      BY <1>4, CommitPrepDoes DEF Goes
    <2>2. OnePrep'
      BY <1>1, <2>1 DEF Preparation, OnePrep, Moves
    <2>3. log.stage # "queued"
      BY <2>1 DEF Preparation, OnePrep
    <2>4. \A j \in Slot : ops'[j].kind = "prep" => j = i
      BY <2>1 DEF Preparation, OnePrep, Moves
    <2>5. ~Fresh'
      BY <1>1, <2>1, <2>3, <2>4 DEF Fresh, Live
    <2>6. Preparing' = {}
      BY <2>1, <2>4 DEF Preparing, Live
    <2> QED BY <2>2, <2>5, <2>6 DEF Preparation, Untouched, Locks
  <1> QED BY <1>2, <1>3, <1>4

(* Downloads, views and the erasure leave the preparation alone.           *)
LEMMA ServePreparation ==
  ASSUME TypeOK, Shapes, Preparation, NEW i \in Slot,
         \/ ClaimDownload(i) \/ OpenDownload(i) \/ EndStream(i) \/ ClaimView(i)
         \/ Erase(i) \/ EraseFile(i)
  PROVE  Preparation'
  <1>1. Moves(i) /\ ops'[i].kind \in {"download", "view", "erase"} /\ ops'[i].pc # "rows"
    BY ClaimDownloadDoes, OpenDownloadDoes, EndStreamDoes, ClaimViewDoes, EraseDoes, EraseFileDoes
    DEF Goes, Ends
  <1>2. log'.stage = log.stage
    BY DEF ClaimDownload, OpenDownload, EndStream, ClaimView, Erase, EraseFile, store, TypeOK
  <1>3. \A a \in Att : rows'[a].here => rows[a].here
    BY DEF ClaimDownload, OpenDownload, EndStream, ClaimView, Erase, EraseFile, store
  <1>4. HandsOff(ops'[i])
    BY <1>1 DEF HandsOff
  <1> QED BY <1>1, <1>2, <1>3, <1>4, PreparationFrame

(* The cleanup has no attachment in hand before there is one.              *)
LEMMA CleanupPreparation ==
  ASSUME TypeOK, Shapes, Preparation, NEW i \in Slot,
         \/ Unlink(i) \/ DeleteRow(i) \/ CleanupFails(i) \/ NextPass(i)
         \/ ClearRaw(i) \/ PurgeLog(i) \/ PurgeLinks(i)
  PROVE  Preparation'
  <1>1. Moves(i) /\ ops[i].kind = "cleanup" /\ ops'[i].kind = "cleanup"
    BY UnlinkDoes, DeleteRowDoes, CleanupFailsDoes, NextPassDoes, ClearRawDoes, PurgeLogDoes,
       PurgeLinksDoes DEF Goes
  <1>2. log'.stage = log.stage
    BY DEF Unlink, DeleteRow, CleanupFails, NextPass, ClearRaw, PurgeLog, PurgeLinks, store, TypeOK
  <1>3. \A a \in Att : rows'[a].here => rows[a].here
    <2>1. CASE DeleteRow(i)
      BY <2>1, DeletedRow
    <2>2. CASE ~DeleteRow(i)
      BY <2>2 DEF Unlink, CleanupFails, NextPass, ClearRaw, PurgeLog, PurgeLinks, store
    <2> QED BY <2>1, <2>2
  <1>4. CleanupShape(ops[i]) /\ (Fresh => HandsOff(ops[i]))
    BY <1>1 DEF Preparation, Untouched, Shapes, Shape
  <1>5. Fresh => HandsOff(ops'[i])
    <2>1. CASE Unlink(i)
      <3>1. PICK p \in ops[i].todo :
              /\ ops[i].pc \in {"att", "raw"} /\ ops'[i].todo = ops[i].todo \ {p}
              /\ \/ Goes(i, "cleanup", ops[i].pc, IF ops[i].pc = "att" THEN "attTx" ELSE "rawTx")
                 \/ Goes(i, "cleanup", ops[i].pc, ops[i].pc)
        BY <2>1, UnlinkDoes
      <3> QED BY <1>4, <3>1 DEF Goes, HandsOff, CleanupShape
    <2>2. CASE DeleteRow(i) \/ CleanupFails(i) \/ NextPass(i)
      BY <1>4, <2>2, DeleteRowDoes, CleanupFailsDoes, NextPassDoes DEF Goes, HandsOff
    <2>3. CASE ClearRaw(i) \/ PurgeLog(i) \/ PurgeLinks(i)
      BY <1>4, <2>3, ClearRawDoes, PurgeLogDoes, PurgeLinksDoes DEF Goes, HandsOff
    <2> QED BY <2>1, <2>2, <2>3
  <1> QED BY <1>1, <1>2, <1>3, <1>5, PreparationFrame

(* Neither has the backfill.                                               *)
LEMMA BackfillPreparation ==
  ASSUME TypeOK, Shapes, Preparation, NEW i \in Slot,
         ReadFile(i) \/ ReplaceFile(i) \/ RecordKey(i) \/ ClearNote(i) \/ NextPhase(i)
  PROVE  Preparation'
  <1>1. Moves(i) /\ ops[i].kind = "backfill" /\ ops'[i].kind = "backfill"
    BY ReadFileDoes, ReplaceFileDoes, RecordKeyDoes, ClearNoteDoes, NextPhaseDoes DEF Goes
  <1>2. log'.stage = log.stage
    BY DEF ReadFile, ReplaceFile, RecordKey, ClearNote, NextPhase, store, TypeOK
  <1>3. \A a \in Att : rows'[a].here => rows[a].here
    <2>1. CASE RecordKey(i)
      BY <2>1, RecordedKey
    <2>2. CASE ~RecordKey(i)
      BY <2>2 DEF ReadFile, ReplaceFile, ClearNote, NextPhase, store
    <2> QED BY <2>1, <2>2
  <1>4. BackfillShape(ops[i]) /\ (Fresh => HandsOff(ops[i]))
    BY <1>1 DEF Preparation, Untouched, Shapes, Shape
  <1>5. Fresh => HandsOff(ops'[i])
    <2>1. CASE ReadFile(i)
      BY <1>1, <1>4, <2>1, ReadFileDoes DEF Goes, HandsOff
    <2>2. CASE ReplaceFile(i) \/ RecordKey(i) \/ ClearNote(i)
      BY <1>1, <1>4, <2>2, ReplaceFileDoes, RecordKeyDoes, ClearNoteDoes DEF Goes, HandsOff
    <2>3. CASE NextPhase(i)
      BY <1>1, <1>4, <2>3, NextPhaseDoes DEF Goes, HandsOff
    <2> QED BY <2>1, <2>2, <2>3
  <1> QED BY <1>1, <1>2, <1>3, <1>5, PreparationFrame

(* Every step keeps types, shapes and the order of preparation and lock.   *)
LEMMA CoreStep ==
  ASSUME Core, [Next]_vars
  PROVE  Core'
  <1> USE DEF Core
  <1>1. ASSUME NEW i \in Slot,
               \/ BeginPrep(i) \/ Resend(i) \/ BeginDownload(i) \/ BeginView(i) \/ BeginCleanup(i)
               \/ BeginErase(i) \/ BeginBackfill(i)
        PROVE  Core'
    BY <1>1, BeginTypes, BeginShapes, BeginPreparation
  <1>2. ASSUME NEW i \in Slot,
               LockPrep(i) \/ WriteAttachment(i) \/ InsertAttachment(i) \/ CommitPrep(i)
        PROVE  Core'
    BY <1>2, PrepTypes, PrepShapes, PrepPreparation
  <1>3. ASSUME NEW i \in Slot,
               \/ ClaimDownload(i) \/ OpenDownload(i) \/ EndStream(i) \/ ClaimView(i)
               \/ Erase(i) \/ EraseFile(i)
        PROVE  Core'
    BY <1>3, ServeTypes, EraseTypes, ServeShapes, ServePreparation
  <1>4. ASSUME NEW i \in Slot,
               \/ Unlink(i) \/ DeleteRow(i) \/ CleanupFails(i) \/ NextPass(i)
               \/ ClearRaw(i) \/ PurgeLog(i) \/ PurgeLinks(i)
        PROVE  Core'
    BY <1>4, CleanupTypes, CleanupShapes, CleanupPreparation
  <1>5. ASSUME NEW i \in Slot,
               ReadFile(i) \/ ReplaceFile(i) \/ RecordKey(i) \/ ClearNote(i) \/ NextPhase(i)
        PROVE  Core'
    BY <1>5, BackfillTypes, BackfillShapes, BackfillPreparation
  <1>6. ASSUME \/ Settle \/ RecoverPending \/ Tick \/ Crash \/ BackfillStops \/ UNCHANGED vars
        PROVE  Core'
    <2>1. log'.stage = log.stage /\ UNCHANGED rows
      BY <1>6 DEF Settle, RecoverPending, Tick, Crash, BackfillStops, vars, store, TypeOK
    <2>2. \A j \in Slot : StopsOrStays(j)
      <3>1. CASE Crash \/ BackfillStops
        BY <3>1, StoppedDoes DEF Crash, BackfillStops
      <3>2. CASE UNCHANGED ops
        BY <3>2 DEF StopsOrStays
      <3> QED BY <1>6, <3>1, <3>2 DEF Settle, RecoverPending, Tick, vars
    <2> QED BY <1>6, <2>1, <2>2, OtherTypes, ShapesStop, PreparationStops
  <1> QED BY <1>1, <1>2, <1>3, <1>4, <1>5, <1>6 DEF Next

(* Initially nothing is in hand.                                           *)
LEMMA InitCore ==
  ASSUME Init
  PROVE  Core
  <1>1. TypeOK /\ \A i \in Slot : ops[i] = Idle
    BY InitType DEF Init
  <1>2. Shapes
    BY <1>1 DEF Shapes, Shape, Idle
  <1>3. OnePrep /\ Locks
    BY <1>1 DEF OnePrep, Locks, Preparing, Live, Idle
  <1>4. log.stage = "queued" => Existing = {}
    BY DEF Init, Existing, HasRow
  <1>5. Untouched
    BY <1>1, <1>4 DEF Untouched, Fresh, Live, HandsOff, Idle
  <1> QED BY <1>1, <1>2, <1>3, <1>5 DEF Core, Preparation

-----------------------------------------------------------------------------
(* Files.                                                                  *)

(* An unfinished operation answers for a path.                             *)
Answers(o, p) ==
  /\ o.pc # "end"
  /\ \/ o.kind = "prep" /\ p \in o.done
     \/ o.kind = "prep" /\ o.pc = "insert" /\ p = o.p
     \/ o.kind = "erase" /\ p \in o.todo

(* Who answers for a path.                                                 *)
LEMMA HeldBy ==
  ASSUME NEW p
  PROVE  /\ Held(p, ops) <=> \/ p \in Existing
                             \/ p = Raw /\ (pending.here \/ (log.here /\ log.raw))
                             \/ \E i \in Slot : Answers(ops[i], p)
         /\ Held(p, ops)' <=> \/ p \in Existing'
                              \/ p = Raw /\ (pending'.here \/ (log'.here /\ log'.raw))
                              \/ \E i \in Slot : Answers(ops'[i], p)
  BY DEF Held, Answers

(* Files neither appear nor lose whoever answers for them, unless they are *)
(* gone or written off.                                                    *)
LEMMA FilesFrom ==
  ASSUME Files, lost \subseteq lost',
         \A p \in Path : disk'[p].file => disk[p].file \/ p \in lost',
         \A p \in Path : Held(p, ops) => Held(p, ops)' \/ Gone(p)',
         ~log'.raw => ~log.raw \/ Gone(Raw)',
         \A j \in Slot : FileOK(ops[j])'
  PROVE  Files'
  <1>1. NoStrandedFile'
    BY DEF Files, NoStrandedFile, Gone
  <1>2. ~log'.raw => Gone(Raw)'
    BY DEF Files, Gone, Path
  <1> QED BY <1>1, <1>2 DEF Files

(* What an operation knows of the files stays true when no file comes back *)
(* and no row appears.                                                     *)
LEMMA FileKept ==
  ASSUME TypeOK, Shapes, Files, NEW j \in Slot, ops'[j] = ops[j], lost \subseteq lost',
         \A p \in Path : disk'[p].file => disk[p].file \/ p \in lost',
         j \notin Erasing \/ (Existing' \subseteq Existing /\ (log'.here /\ log'.raw => log.here /\ log.raw))
  PROVE  FileOK(ops[j])'
  <1>1. FileOK(ops[j]) /\ Shape(ops[j])
    BY DEF Files, Shapes
  <1>2. ops[j].kind = "erase" /\ ops[j].pc = "rows" => j \in Erasing
    BY DEF Erasing, Live
  <1>3. \A p \in Path : Gone(p) => Gone(p)'
    BY DEF Gone
  <1>4. ops[j].kind = "cleanup" /\ ops[j].pc = "attTx" => ops[j].p \in Path
    BY <1>1 DEF Shape, CleanupShape, Path
  <1>5. Raw \in Path
    BY DEF Path
  <1> QED BY <1>1, <1>2, <1>3, <1>4, <1>5 DEF FileOK

(* A step of one operation in an otherwise unchanged store.                *)
LEMMA FilesFrame ==
  ASSUME TypeOK, Shapes, Files, NEW i \in Slot, Moves(i), lost \subseteq lost',
         \A p \in Path : disk'[p].file => disk[p].file \/ p \in lost',
         Existing' = Existing, log'.here = log.here, log'.raw = log.raw,
         pending.here => pending'.here,
         \A p \in Path : Answers(ops[i], p) => Answers(ops'[i], p) \/ Gone(p)',
         FileOK(ops[i])'
  PROVE  Files'
  <1>1. \A p \in Path : Held(p, ops) => Held(p, ops)' \/ Gone(p)'
    BY HeldBy DEF Moves
  <1>2. ASSUME NEW j \in Slot PROVE FileOK(ops[j])'
    BY <1>2, FileKept DEF Moves
  <1> QED BY <1>1, <1>2, FilesFrom

(* Beginnings and served bytes touch no file.                              *)
LEMMA BeginFiles ==
  ASSUME TypeOK, Shapes, Files, NEW i \in Slot,
         \/ BeginPrep(i) \/ Resend(i) \/ BeginDownload(i) \/ BeginView(i) \/ BeginCleanup(i)
         \/ BeginErase(i) \/ BeginBackfill(i)
  PROVE  Files'
  <1>1. log \in LogRow
    BY TypeParts
  <1>2. UNCHANGED <<rows, disk, pending, lost>>
    BY DEF BeginPrep, Resend, BeginDownload, BeginView, BeginCleanup, BeginErase, BeginBackfill,
       store
  <1>3. log'.here = log.here /\ log'.raw = log.raw
    BY <1>1 DEF BeginPrep, Resend, BeginDownload, BeginView, BeginCleanup, BeginErase,
       BeginBackfill,
                store, LogRow
  <1>4. Existing' = Existing
    BY <1>2 DEF Existing, HasRow
  <1>5. /\ Moves(i) /\ ops[i].kind = "idle"
        /\ ops'[i].kind = "cleanup" => ops'[i].pc = "att"
        /\ ops'[i].kind = "erase" =>
             ops'[i].todo = Existing \cup (IF log.here /\ log.raw THEN {Raw} ELSE {})
    BY BeginPrepDoes, ResendDoes, BeginDownloadDoes, BeginViewDoes, BeginCleanupDoes,
       BeginEraseDoes,
       BeginBackfillDoes DEF Begins
  <1>6. FileOK(ops[i])'
    BY <1>3, <1>4, <1>5 DEF FileOK
  <1>7. \A p \in Path : ~Answers(ops[i], p)
    BY <1>5 DEF Answers
  <1> QED BY <1>2, <1>3, <1>4, <1>5, <1>6, <1>7, FilesFrame

(* Downloads and views touch no file.                                      *)
LEMMA ServeFiles ==
  ASSUME TypeOK, Shapes, Files, NEW i \in Slot,
         ClaimDownload(i) \/ OpenDownload(i) \/ EndStream(i) \/ ClaimView(i)
  PROVE  Files'
  <1>1. UNCHANGED <<log, rows, disk, pending, lost>>
    BY DEF ClaimDownload, OpenDownload, EndStream, ClaimView, store
  <1>2. Existing' = Existing
    BY <1>1 DEF Existing, HasRow
  <1>3. Moves(i) /\ ops[i].kind \in {"download", "view"} /\ ops'[i].kind \in {"download", "view"}
    BY ClaimDownloadDoes, OpenDownloadDoes, EndStreamDoes, ClaimViewDoes DEF Goes, Ends
  <1>4. FileOK(ops[i])' /\ \A p \in Path : ~Answers(ops[i], p)
    BY <1>3 DEF FileOK, Answers
  <1> QED BY <1>1, <1>2, <1>3, <1>4, FilesFrame

(* The rows a preparation commits are those of the files it has stored; a  *)
(* transaction that is rolled back leaves the files behind.                *)
LEMMA CommittedRows ==
  ASSUME TypeOK, NEW i \in Slot, CommitPrep(i)
  PROVE  \/ /\ rows' = [a \in Att |-> IF a \in ops[i].done
                                      THEN [here |-> TRUE, dek |-> i] ELSE rows[a]]
            /\ Existing' = Existing \cup (ops[i].done \cap Att)
            /\ usage' = [usage EXCEPT !.att = Sub(@, Size * ops[i].n)]
            /\ Issue(i, ops[i].done) /\ UNCHANGED lost
         \/ /\ lost' = lost \cup ops[i].done /\ UNCHANGED <<rows, usage, links, view, issued>>
            /\ Existing' = Existing
  <1>1. CASE ops[i].ok /\ (privacy => log.here)
    <2>1. /\ rows' = [a \in Att |-> IF a \in ops[i].done THEN [here |-> TRUE, dek |-> i] ELSE rows[a]]
          /\ usage' = [usage EXCEPT !.att = Sub(@, Size * ops[i].n)]
          /\ Issue(i, ops[i].done) /\ UNCHANGED lost
      BY <1>1 DEF CommitPrep
    <2>2. \A a \in Att : rows'[a].here <=> (a \in ops[i].done \/ rows[a].here)
      BY <2>1
    <2>3. Existing' = Existing \cup (ops[i].done \cap Att)
      BY <2>2 DEF Existing, HasRow
    <2> QED BY <2>1, <2>3
  <1>2. CASE ~(ops[i].ok /\ (privacy => log.here))
    <2>1. lost' = lost \cup ops[i].done /\ UNCHANGED <<rows, usage, links, view, issued>>
      BY <1>2 DEF CommitPrep
    <2> QED BY <2>1 DEF Existing, HasRow
  <1> QED BY <1>1, <1>2

(* A file the preparation writes is the preparation's until its row is     *)
(* committed.                                                              *)
LEMMA WriteFiles ==
  ASSUME TypeOK, Shapes, Preparation, Files, NEW i \in Slot, WriteAttachment(i)
  PROVE  Files'
  <1>1. UNCHANGED <<log, rows, pending, lost>>
    BY DEF WriteAttachment
  <1>2. Existing' = Existing
    BY <1>1 DEF Existing, HasRow
  <1>3. PICK a \in ops[i].todo :
           /\ ops'[i].todo = ops[i].todo \ {a} /\ ops'[i].done = ops[i].done
           /\ \/ /\ Goes(i, "prep", "store", "insert") /\ ops'[i].p = a
                 /\ disk' = [disk EXCEPT ![a] = [@ EXCEPT !.file = TRUE, !.body = <<i>>]]
              \/ Goes(i, "prep", "store", "store") /\ UNCHANGED disk
    BY WriteAttachmentDoes
  <1>4. /\ Moves(i) /\ ops[i].kind = "prep" /\ ops[i].pc = "store" /\ ops'[i].kind = "prep"
        /\ ops'[i].pc \in {"store", "insert"}
    BY <1>3 DEF Goes
  <1>5. \A p \in Path : Answers(ops[i], p) => Answers(ops'[i], p)
    BY <1>3, <1>4 DEF Answers
  <1>6. FileOK(ops[i])'
    BY <1>4 DEF FileOK
  <1>7. CASE UNCHANGED disk
    BY <1>1, <1>2, <1>4, <1>5, <1>6, <1>7, FilesFrame
  <1>8. CASE /\ ops'[i].pc = "insert" /\ ops'[i].p = a
             /\ disk' = [disk EXCEPT ![a] = [@ EXCEPT !.file = TRUE, !.body = <<i>>]]
    <2>1. a \in Att /\ a # Raw
      BY <1>4 DEF Shapes, Shape, PrepShape
    <2>2. disk \in [Path -> [file : BOOLEAN, body : Seq(Nat), note : Nat]]
      BY DEF TypeOK
    <2>3. \A p \in Path : p # a => disk'[p] = disk[p]
      BY <1>8, <2>2
    <2>4. \A p \in Path : Held(p, ops) => Held(p, ops)'
      BY <1>1, <1>2, <1>4, <1>5, HeldBy DEF Moves
    <2>5. Held(a, ops)'
      BY <1>4, <1>8, HeldBy DEF Answers
    <2>6. NoStrandedFile'
      BY <1>1, <2>3, <2>4, <2>5 DEF Files, NoStrandedFile
    <2>7. ~log'.raw => Gone(Raw)'
      BY <1>1, <2>1, <2>3 DEF Files, Gone, Path
    <2>8. Fresh
      BY <1>4 DEF Fresh, Live
    <2>9. ASSUME NEW j \in Slot PROVE FileOK(ops[j])'
      <3>1. FileOK(ops[j]) /\ HandsOff(ops[j])
        BY <2>8 DEF Files, Preparation, Untouched
      <3>2. Gone(Raw) => Gone(Raw)'
        BY <1>1, <2>1, <2>3 DEF Gone, Path
      <3>3. CASE j # i
        BY <1>1, <1>2, <1>4, <3>1, <3>2, <3>3 DEF FileOK, HandsOff, Moves
      <3> QED BY <1>6, <3>3
    <2> QED BY <2>6, <2>7, <2>9 DEF Files
  <1> QED BY <1>3, <1>7, <1>8 DEF Goes

(* The preparation's other steps.                                          *)
LEMMA PrepFiles ==
  ASSUME TypeOK, Shapes, Preparation, Files, NEW i \in Slot,
         LockPrep(i) \/ InsertAttachment(i) \/ CommitPrep(i)
  PROVE  Files'
  <1>0. Raw \in Path /\ Att \subseteq Path
    BY DEF Path
  <1>1. CASE LockPrep(i)
    <2>1. UNCHANGED <<log, rows, disk, pending, lost>>
      BY <1>1 DEF LockPrep, store
    <2>2. Existing' = Existing
      BY <2>1 DEF Existing, HasRow
    <2>3. Moves(i) /\ ops[i].kind = "prep" /\ ops[i].pc = "begin" /\ ops'[i].kind = "prep"
      BY <1>1, LockPrepDoes DEF Goes, Ends
    <2>4. ops[i].done = {}
      BY <2>3 DEF Shapes, Shape, PrepShape
    <2>5. FileOK(ops[i])' /\ \A p \in Path : ~Answers(ops[i], p)
      BY <2>3, <2>4 DEF FileOK, Answers
    <2> QED BY <2>1, <2>2, <2>3, <2>5, FilesFrame
  <1>2. CASE InsertAttachment(i)
    <2>1. UNCHANGED <<log, rows, pending>>
      BY <1>2 DEF InsertAttachment
    <2>2. Existing' = Existing
      BY <2>1 DEF Existing, HasRow
    <2>3. /\ Goes(i, "prep", "insert", "store")
          /\ \/ ops'[i].done = ops[i].done \cup {ops[i].p} /\ UNCHANGED <<disk, lost>>
             \/ /\ ops'[i].done = ops[i].done
                /\ \/ disk' = [disk EXCEPT ![ops[i].p].file = FALSE] /\ UNCHANGED lost
                   \/ lost' = lost \cup {ops[i].p} /\ UNCHANGED disk
      BY <1>2, InsertAttachmentDoes
    <2>4. /\ Moves(i) /\ ops[i].kind = "prep" /\ ops[i].pc = "insert" /\ ops'[i].kind = "prep"
          /\ ops'[i].pc = "store"
      BY <2>3 DEF Goes
    <2>5. ops[i].p \in Path
      BY <1>0, <2>4 DEF Shapes, Shape, PrepShape
    <2>6. /\ lost \subseteq lost'
          /\ \A p \in Path : disk'[p].file => disk[p].file
          /\ ops[i].p \in ops'[i].done \/ ~disk'[ops[i].p].file \/ ops[i].p \in lost'
          /\ ops[i].done \subseteq ops'[i].done
      BY <2>3, <2>5, UnlinkedFile
    <2>7. \A p \in Path : Answers(ops[i], p) => Answers(ops'[i], p) \/ Gone(p)'
      BY <2>4, <2>6 DEF Answers, Gone
    <2>8. FileOK(ops[i])'
      BY <2>4 DEF FileOK
    <2> QED BY <2>1, <2>2, <2>4, <2>6, <2>7, <2>8, FilesFrame
  <1>3. CASE CommitPrep(i)
    <2>1. UNCHANGED <<log, disk, pending>>
      BY <1>3 DEF CommitPrep
    <2>2. /\ Moves(i) /\ ops[i].kind = "prep" /\ ops[i].pc = "store" /\ ops'[i].kind = "prep"
      BY <1>3, CommitPrepDoes DEF Goes
    <2>3. ops[i].done \subseteq Att
      BY <2>2 DEF Shapes, Shape, PrepShape
    <2>4. /\ Existing \subseteq Existing' /\ lost \subseteq lost'
          /\ ops[i].done \subseteq Existing' \/ ops[i].done \subseteq lost'
      BY <1>3, <2>3, CommittedRows
    <2>5. \A p \in Path : Answers(ops[i], p) => p \in Existing' \/ Gone(p)'
      BY <2>2, <2>4 DEF Answers, Gone
    <2>6. \A p \in Path : Held(p, ops) => Held(p, ops)' \/ Gone(p)'
      BY <2>1, <2>2, <2>4, <2>5, HeldBy DEF Moves
    <2>7. i \in Preparing
      BY <2>2 DEF Preparing, Live
    <2>8. Erasing = {}
      BY <2>7 DEF Preparation, Locks
    <2>9. FileOK(ops[i])'
      BY <2>2 DEF FileOK
    <2>10. ASSUME NEW j \in Slot PROVE FileOK(ops[j])'
      BY <2>1, <2>2, <2>4, <2>8, <2>9, FileKept DEF Moves
    <2> QED BY <2>1, <2>4, <2>6, <2>10, FilesFrom
  <1> QED BY <1>1, <1>2, <1>3

(* The cleanup unlinks before it deletes a row or clears a path.           *)
LEMMA CleanupFiles ==
  ASSUME TypeOK, Shapes, Files, NEW i \in Slot,
         \/ Unlink(i) \/ DeleteRow(i) \/ CleanupFails(i) \/ NextPass(i)
         \/ ClearRaw(i) \/ PurgeLog(i) \/ PurgeLinks(i)
  PROVE  Files'
  <1>0. Raw \in Path /\ Att \subseteq Path /\ log \in LogRow
    BY TypeParts DEF Path
  <1>1. Moves(i) /\ ops[i].kind = "cleanup" /\ ops'[i].kind = "cleanup"
    BY UnlinkDoes, DeleteRowDoes, CleanupFailsDoes, NextPassDoes, ClearRawDoes, PurgeLogDoes,
       PurgeLinksDoes DEF Goes
  <1>2. /\ \A p \in Path : ~Answers(ops[i], p)
        /\ CleanupShape(ops[i]) /\ FileOK(ops[i])
    BY <1>1 DEF Answers, Shapes, Shape, Files
  <1>3. UNCHANGED <<pending, lost>>
    BY DEF Unlink, DeleteRow, CleanupFails, NextPass, ClearRaw, PurgeLog, PurgeLinks, store
  <1>4. CASE Unlink(i)
    <2>1. UNCHANGED <<log, rows>>
      BY <1>4 DEF Unlink
    <2>2. Existing' = Existing
      BY <2>1 DEF Existing, HasRow
    <2>3. PICK p \in ops[i].todo :
            /\ ops[i].pc \in {"att", "raw"}
            /\ \/ /\ Goes(i, "cleanup", ops[i].pc, IF ops[i].pc = "att" THEN "attTx" ELSE "rawTx")
                  /\ ops'[i].p = p /\ disk' = [disk EXCEPT ![p].file = FALSE]
               \/ Goes(i, "cleanup", ops[i].pc, ops[i].pc) /\ UNCHANGED disk
      BY <1>4, UnlinkDoes
    <2>4. p \in Path /\ (ops[i].pc = "raw" => p = Raw)
      BY <1>0, <1>2, <2>3 DEF CleanupShape
    <2>5. /\ \A q \in Path : disk'[q].file => disk[q].file
          /\ ops'[i].pc \in {"attTx", "rawTx"} => ops'[i].p = p /\ ~disk'[p].file
      BY <2>3, <2>4, UnlinkedFile DEF Goes
    <2>6. ops'[i].pc = "rawTx" => ops[i].pc = "raw"
      BY <2>3 DEF Goes
    <2>7. FileOK(ops[i])'
      BY <1>1, <2>4, <2>5, <2>6 DEF FileOK, Gone
    <2> QED BY <1>1, <1>2, <1>3, <2>1, <2>2, <2>5, <2>7, FilesFrame
  <1>5. CASE CleanupFails(i) \/ NextPass(i) \/ PurgeLinks(i)
    <2>1. UNCHANGED <<log, rows, disk>>
      BY <1>5 DEF CleanupFails, NextPass, PurgeLinks, store
    <2>2. Existing' = Existing
      BY <2>1 DEF Existing, HasRow
    <2>3. ops'[i].pc \notin {"attTx", "rawTx"}
      BY <1>5, CleanupFailsDoes, NextPassDoes, PurgeLinksDoes DEF Goes
    <2>4. FileOK(ops[i])'
      BY <1>1, <2>3 DEF FileOK
    <2> QED BY <1>1, <1>2, <1>3, <2>1, <2>2, <2>4, FilesFrame
  <1>6. CASE DeleteRow(i)
    <2>1. UNCHANGED <<log, disk>>
      BY <1>6 DEF DeleteRow
    <2>0. PICK a : a = ops[i].p
      OBVIOUS
    <2>2. Existing' = Existing \ {a}
      BY <1>6, <2>0, DeletedRow
    <2>3. ops[i].pc = "attTx" /\ ops'[i].pc = "att"
      BY <1>6, DeleteRowDoes DEF Goes
    <2>4. Gone(a)'
      BY <1>1, <1>2, <1>3, <2>0, <2>1, <2>3 DEF FileOK, Gone
    <2>5. \A p \in Path : Held(p, ops) => Held(p, ops)' \/ Gone(p)'
      BY <1>1, <1>2, <1>3, <2>1, <2>2, <2>4, HeldBy DEF Moves
    <2>6. FileOK(ops[i])'
      BY <1>1, <2>3 DEF FileOK
    <2>7. ASSUME NEW j \in Slot PROVE FileOK(ops[j])'
      BY <1>1, <1>3, <2>1, <2>2, <2>6, FileKept DEF Moves
    <2> QED BY <1>3, <2>1, <2>5, <2>7, FilesFrom
  <1>7. CASE ClearRaw(i)
    <2>1. UNCHANGED <<rows, disk>>
      BY <1>7 DEF ClearRaw
    <2>2. Existing' = Existing
      BY <2>1 DEF Existing, HasRow
    <2>3. ops[i].pc = "rawTx" /\ ops'[i].pc = "raw"
      BY <1>7, ClearRawDoes DEF Goes
    <2>4. Gone(Raw)'
      BY <1>1, <1>2, <1>3, <2>1, <2>3 DEF FileOK, Gone
    <2>5. log'.here => log.here
      BY <1>0, <1>7 DEF ClearRaw, LogRow
    <2>6. log'.raw => log.raw
      BY <1>0, <1>7 DEF ClearRaw, LogRow
    <2>7. \A p \in Path : Held(p, ops) => Held(p, ops)' \/ Gone(p)'
      BY <1>1, <1>2, <1>3, <2>2, <2>4, HeldBy DEF Moves
    <2>8. FileOK(ops[i])'
      BY <1>1, <2>3 DEF FileOK
    <2>9. ASSUME NEW j \in Slot PROVE FileOK(ops[j])'
      BY <1>1, <1>3, <2>1, <2>2, <2>5, <2>6, <2>8, FileKept DEF Moves
    <2> QED BY <1>3, <2>1, <2>4, <2>7, <2>9, FilesFrom
  <1>8. CASE PurgeLog(i)
    <2>1. UNCHANGED <<rows, disk>>
      BY <1>8 DEF PurgeLog
    <2>2. Existing' = Existing
      BY <2>1 DEF Existing, HasRow
    <2>3. ops'[i].pc = "links"
      BY <1>8, PurgeLogDoes DEF Goes
    <2>4. log'.raw = log.raw /\ (log'.here => log.here) /\ (log.here /\ ~log'.here => ~log.raw)
      BY <1>0, <1>8 DEF PurgeLog, LogRow
    <2>5. \A p \in Path : Held(p, ops) => Held(p, ops)'
      BY <1>1, <1>2, <1>3, <2>2, <2>4, HeldBy DEF Moves
    <2>6. FileOK(ops[i])'
      BY <1>1, <2>3 DEF FileOK
    <2>7. ASSUME NEW j \in Slot PROVE FileOK(ops[j])'
      BY <1>1, <1>3, <2>1, <2>2, <2>4, <2>6, FileKept DEF Moves
    <2> QED BY <1>3, <2>1, <2>4, <2>5, <2>7, FilesFrom
  <1> QED BY <1>4, <1>5, <1>6, <1>7, <1>8

(* The erasure has listed every file whose row it deletes.                 *)
LEMMA EraseFiles ==
  ASSUME TypeOK, Shapes, Files, NEW i \in Slot, Erase(i) \/ EraseFile(i)
  PROVE  Files'
  <1>0. Raw \in Path /\ Att \subseteq Path /\ log \in LogRow
    BY TypeParts DEF Path
  <1>1. CASE Erase(i)
    <2>1. UNCHANGED <<disk, pending, lost>>
      BY <1>1 DEF Erase
    <2>2. /\ Moves(i) /\ ops[i].kind = "erase" /\ ops[i].pc = "rows" /\ ops'[i].kind = "erase"
          /\ ops'[i].pc = "files" /\ ops'[i].todo = ops[i].todo
      BY <1>1, EraseDoes DEF Goes
    <2>3. ~log'.here /\ log'.raw = log.raw
      BY <1>0, <1>1 DEF Erase, LogRow
    <2>4. Existing' = {}
      BY <1>1 DEF Erase, Existing, HasRow
    <2>5. Existing \subseteq ops[i].todo /\ (log.here /\ log.raw => Raw \in ops[i].todo)
      BY <2>2 DEF Files, FileOK
    <2>6. \A p \in Path : p \in ops[i].todo => Answers(ops'[i], p)
      BY <2>2 DEF Answers
    <2>7. \A p \in Path : Answers(ops[i], p) => Answers(ops'[i], p)
      BY <2>2 DEF Answers
    <2>8. \A p \in Path : Held(p, ops) => Held(p, ops)'
      BY <2>1, <2>2, <2>5, <2>6, <2>7, HeldBy DEF Moves
    <2>9. FileOK(ops[i])'
      BY <2>2 DEF FileOK
    <2>10. ASSUME NEW j \in Slot PROVE FileOK(ops[j])'
      BY <2>1, <2>2, <2>3, <2>4, <2>9, FileKept DEF Moves
    <2> QED BY <2>1, <2>3, <2>8, <2>10, FilesFrom
  <1>2. CASE EraseFile(i)
    <2>1. UNCHANGED <<log, rows, pending>>
      BY <1>2 DEF EraseFile
    <2>2. Existing' = Existing
      BY <2>1 DEF Existing, HasRow
    <2>3. \/ Ends(i, "erase", "files", 0) /\ ops[i].todo = {} /\ UNCHANGED <<disk, lost>>
          \/ \E p \in ops[i].todo :
               /\ Goes(i, "erase", "files", "files") /\ ops'[i].todo = ops[i].todo \ {p}
               /\ \/ disk' = [disk EXCEPT ![p].file = FALSE] /\ UNCHANGED lost
                  \/ lost' = lost \cup {p} /\ UNCHANGED disk
      BY <1>2, EraseFileDoes
    <2>4. /\ Moves(i) /\ ops[i].kind = "erase" /\ ops[i].pc = "files" /\ ops'[i].kind = "erase"
          /\ ops'[i].pc \in {"files", "end"} /\ (ops'[i].pc = "end" => ops[i].todo = {})
      BY <2>3 DEF Goes, Ends
    <2>5. ops[i].todo \subseteq Path
      BY DEF TypeOK, Operation
    <2>6. /\ lost \subseteq lost' /\ \A q \in Path : disk'[q].file => disk[q].file
          /\ \A q \in ops[i].todo : q \in ops'[i].todo \/ ~disk'[q].file \/ q \in lost'
      <3>1. CASE ops[i].todo = {} /\ UNCHANGED <<disk, lost>>
        BY <3>1
      <3>2. ASSUME NEW p \in ops[i].todo, ops'[i].todo = ops[i].todo \ {p},
                   \/ disk' = [disk EXCEPT ![p].file = FALSE] /\ UNCHANGED lost
                   \/ lost' = lost \cup {p} /\ UNCHANGED disk
            PROVE  /\ lost \subseteq lost' /\ \A q \in Path : disk'[q].file => disk[q].file
                   /\ \A q \in ops[i].todo : q \in ops'[i].todo \/ ~disk'[q].file \/ q \in lost'
        BY <2>5, <3>2, UnlinkedFile
      <3> QED BY <2>3, <3>1, <3>2
    <2>7. \A q \in Path : Answers(ops[i], q) => Answers(ops'[i], q) \/ Gone(q)'
      BY <2>4, <2>6 DEF Answers, Gone
    <2>8. FileOK(ops[i])'
      BY <2>4 DEF FileOK
    <2> QED BY <2>1, <2>2, <2>4, <2>6, <2>7, <2>8, FilesFrame
  <1> QED BY <1>1, <1>2

(* The backfill's rename may bring a file back, and writes it off then.    *)
LEMMA BackfillFiles ==
  ASSUME TypeOK, Shapes, Files, NEW i \in Slot,
         ReadFile(i) \/ ReplaceFile(i) \/ RecordKey(i) \/ ClearNote(i) \/ NextPhase(i)
  PROVE  Files'
  <1>1. Moves(i) /\ ops[i].kind = "backfill" /\ ops'[i].kind = "backfill"
    BY ReadFileDoes, ReplaceFileDoes, RecordKeyDoes, ClearNoteDoes, NextPhaseDoes DEF Goes
  <1>2. FileOK(ops[i])' /\ \A p \in Path : ~Answers(ops[i], p)
    BY <1>1 DEF FileOK, Answers
  <1>3. disk \in [Path -> [file : BOOLEAN, body : Seq(Nat), note : Nat]]
    BY DEF TypeOK
  <1>4. ops[i].p \in Path /\ ops[i].todo \subseteq Path
    BY DEF TypeOK, Operation
  <1>5. /\ lost \subseteq lost'
        /\ \A p \in Path : disk'[p].file => disk[p].file \/ p \in lost'
    <2>1. CASE ReadFile(i)
      <3>1. UNCHANGED lost
        BY <2>1 DEF ReadFile
      <3>2. PICK p \in ops[i].todo : UNCHANGED disk \/ disk' = Noted(p, i)
        BY <2>1, ReadFileDoes
      <3>3. \A q \in Path : disk'[q].file = disk[q].file
        BY <1>3, <1>4, <3>2 DEF Noted
      <3> QED BY <3>1, <3>3
    <2>2. CASE ReplaceFile(i)
      <3>1. PICK s : disk' = [disk EXCEPT ![ops[i].p].file = TRUE, ![ops[i].p].body = s]
        BY <2>2 DEF ReplaceFile
      <3>2. \A q \in Path : q # ops[i].p => disk'[q].file = disk[q].file
        BY <1>3, <1>4, <3>1
      <3>3. lost' = IF disk[ops[i].p].file THEN lost ELSE lost \cup {ops[i].p}
        BY <2>2 DEF ReplaceFile
      <3> QED BY <3>2, <3>3
    <2>3. CASE ClearNote(i)
      <3>1. UNCHANGED lost /\ disk' = [disk EXCEPT ![ops[i].p].note = None]
        BY <2>3 DEF ClearNote
      <3>2. \A q \in Path : disk'[q].file = disk[q].file
        BY <1>3, <1>4, <3>1
      <3> QED BY <3>1, <3>2
    <2>4. CASE RecordKey(i) \/ NextPhase(i)
      BY <2>4 DEF RecordKey, NextPhase, store
    <2> QED BY <2>1, <2>2, <2>3, <2>4
  <1>6. /\ Existing' = Existing /\ log'.here = log.here /\ log'.raw = log.raw
        /\ pending.here => pending'.here
    <2>1. CASE RecordKey(i)
      BY <2>1, RecordedKey
    <2>2. CASE ~RecordKey(i)
      BY <2>2 DEF ReadFile, ReplaceFile, ClearNote, NextPhase, store, Existing, HasRow
    <2> QED BY <2>1, <2>2
  <1> QED BY <1>1, <1>2, <1>5, <1>6, FilesFrame

(* A crash writes off what only its operations answered for; the recovery  *)
(* removes the file of a mail nobody else answers for.                     *)
LEMMA OtherFiles ==
  ASSUME TypeOK, Shapes, Files,
         \/ Settle \/ RecoverPending \/ Tick \/ Crash \/ BackfillStops \/ UNCHANGED vars
  PROVE  Files'
  <1>0. Raw \in Path /\ log \in LogRow
    BY TypeParts DEF Path
  <1>1. UNCHANGED rows /\ log'.here = log.here /\ log'.raw = log.raw
    BY <1>0 DEF Settle, RecoverPending, Tick, Crash, BackfillStops, vars, store, LogRow
  <1>2. Existing' = Existing
    BY <1>1 DEF Existing, HasRow
  <1>3. CASE RecoverPending
    <2>1. UNCHANGED <<ops, lost>>
      BY <1>3 DEF RecoverPending
    <2>2. CASE log.here
      <3>1. UNCHANGED disk
        BY <1>3, <2>2 DEF RecoverPending
      <3>2. log.raw \/ Gone(Raw)'
        BY <2>1, <3>1 DEF Files, Gone
      <3>3. \A p \in Path : Held(p, ops) => Held(p, ops)' \/ Gone(p)'
        BY <1>1, <1>2, <2>1, <2>2, <3>2, HeldBy
      <3>4. ASSUME NEW j \in Slot PROVE FileOK(ops[j])'
        BY <1>1, <1>2, <2>1, <3>1, FileKept
      <3> QED BY <1>1, <2>1, <3>1, <3>3, <3>4, FilesFrom
    <2>3. CASE ~log.here
      <3>1. ~disk'[Raw].file /\ \A p \in Path : disk'[p].file => disk[p].file
        BY <1>0, <1>3, <2>3, UnlinkedFile DEF RecoverPending
      <3>2. Gone(Raw)'
        BY <3>1 DEF Gone
      <3>3. \A p \in Path : Held(p, ops) => Held(p, ops)' \/ Gone(p)'
        BY <1>1, <1>2, <2>1, <2>3, <3>2, HeldBy
      <3>4. ASSUME NEW j \in Slot PROVE FileOK(ops[j])'
        BY <1>1, <1>2, <2>1, <3>1, FileKept
      <3> QED BY <1>1, <2>1, <3>1, <3>3, <3>4, FilesFrom
    <2> QED BY <2>2, <2>3
  <1>4. CASE Crash \/ BackfillStops
    <2>1. UNCHANGED <<disk, pending>> /\ lost \subseteq lost'
      BY <1>4 DEF Crash, BackfillStops, store
    <2>2. \A j \in Slot : StopsOrStays(j)
      BY <1>4, StoppedDoes DEF Crash, BackfillStops
    <2>3. ASSUME NEW p \in Path, Held(p, ops) PROVE Held(p, ops)' \/ Gone(p)'
      <3>1. CASE Crash
        <4>1. Held(p, ops') => Held(p, ops)'
          BY <1>1, <1>2, <2>1 DEF Held
        <4>2. disk[p].file /\ ~Held(p, ops') => p \in lost'
          BY <2>3, <3>1 DEF Crash
        <4> QED BY <2>1, <4>1, <4>2 DEF Gone
      <3>2. CASE BackfillStops
        <4>1. \A j \in Slot : ops[j].kind # "backfill" => ops'[j] = ops[j]
          BY <3>2, StoppedDoes DEF BackfillStops, Live
        <4>2. \A j \in Slot : Answers(ops[j], p) => Answers(ops'[j], p)
          BY <4>1 DEF Answers
        <4> QED BY <1>1, <1>2, <2>1, <2>3, <4>2, HeldBy
      <3> QED BY <1>4, <3>1, <3>2
    <2>4. ASSUME NEW j \in Slot PROVE FileOK(ops[j])'
      <3>1. CASE ops'[j] = ops[j]
        BY <1>1, <1>2, <2>1, <3>1, FileKept
      <3>2. CASE ops'[j].pc = "end"
        BY <3>2 DEF FileOK
      <3> QED BY <2>2, <3>1, <3>2 DEF StopsOrStays
    <2> QED BY <1>1, <2>1, <2>3, <2>4, FilesFrom
  <1>5. CASE Settle \/ Tick \/ UNCHANGED vars
    <2>1. UNCHANGED <<disk, pending, ops, lost>>
      BY <1>5 DEF Settle, Tick, vars, store
    <2>2. \A p \in Path : Held(p, ops) => Held(p, ops)'
      BY <1>1, <1>2, <2>1, HeldBy
    <2>3. ASSUME NEW j \in Slot PROVE FileOK(ops[j])'
      BY <1>1, <1>2, <2>1, FileKept
    <2> QED BY <1>1, <2>1, <2>2, <2>3, FilesFrom
  <1> QED BY <1>3, <1>4, <1>5

(* Every step keeps account of the files.                                  *)
LEMMA FilesStep ==
  ASSUME Core, Files, [Next]_vars
  PROVE  Files'
  BY BeginFiles, WriteFiles, PrepFiles, ServeFiles, CleanupFiles, EraseFiles, BackfillFiles,
     OtherFiles DEF Core, Next

(* Initially the raw mail has its log, and a stored attachment its row.    *)
LEMMA InitFiles ==
  ASSUME Init
  PROVE  Files
  <1>1. \A i \in Slot : ops[i] = Idle
    BY DEF Init
  <1>2. PICK stored \in BOOLEAN :
          /\ log = [here |-> TRUE, raw |-> TRUE, dek |-> None, final |-> FALSE,
                    stage |-> IF stored THEN "prepared" ELSE "queued"]
          /\ rows = [a \in Att |-> [here |-> stored, dek |-> None]]
          /\ disk = [p \in Path |-> [file |-> stored \/ p = Raw, body |-> <<>>, note |-> None]]
    BY DEF Init
  <1>3. log.here /\ log.raw
    BY <1>2
  <1>4. \A p \in Path : disk[p].file => stored \/ p = Raw
    BY <1>2
  <1>5. stored => \A a \in Att : a \in Existing
    BY <1>2 DEF Existing, HasRow
  <1>6. NoStrandedFile
    BY <1>3, <1>4, <1>5 DEF NoStrandedFile, Held, Path
  <1>7. \A i \in Slot : FileOK(ops[i])
    BY <1>1 DEF FileOK, Idle
  <1> QED BY <1>3, <1>6, <1>7 DEF Files

-----------------------------------------------------------------------------
(* Keys.                                                                   *)

(* What an operation knows of the keys stays true when no row appears or   *)
(* changes its key and no attachment file is rewritten.                    *)
LEMMA KeyKept ==
  ASSUME TypeOK, Shapes, NEW j \in Slot, KeyOK(j, ops[j]), ops'[j] = ops[j],
         \A a \in Att : rows'[a].here => rows[a].here /\ rows'[a].dek = rows[a].dek,
         \A a \in Att : disk'[a].body = disk[a].body /\ disk'[a].note = disk[a].note
  PROVE  KeyOK(j, ops[j])'
  <1>1. Shape(ops[j])
    BY DEF Shapes
  <1>2. ops[j].kind = "backfill" /\ ops[j].phase = "att" =>
          /\ ops[j].todo \subseteq Att
          /\ ops[j].pc \in {"replace", "row", "clear"} => ops[j].p \in Att
    BY <1>1 DEF Shape, BackfillShape
  <1> QED BY <1>2 DEF KeyOK, HasRow

(* A step that neither adds rows nor rewrites attachment files.            *)
LEMMA KeysFrame ==
  ASSUME TypeOK, Shapes, Keys, NEW i \in Slot, Moves(i),
         \A a \in Att : rows'[a].here => rows[a].here /\ rows'[a].dek = rows[a].dek,
         \A a \in Att : /\ disk'[a].body = disk[a].body /\ disk'[a].note = disk[a].note
                        /\ disk'[a].file => disk[a].file,
         ops'[i].kind = "backfill" /\ ops'[i].pc # "end"
           => ops[i].kind = "backfill" /\ ops[i].pc # "end",
         KeyOK(i, ops[i])'
  PROVE  Keys'
  <1>1. AttachmentReadable'
    BY DEF Keys, AttachmentReadable, Opens, Existing, HasRow
  <1>2. OneBackfill'
    BY DEF Keys, OneBackfill, Live, Moves
  <1>3. ASSUME NEW j \in Slot PROVE KeyOK(j, ops[j])'
    <2>1. CASE j # i
      BY <2>1, KeyKept DEF Keys, Moves
    <2> QED BY <2>1
  <1> QED BY <1>1, <1>2, <1>3 DEF Keys

(* Beginnings: a second backfill does not begin.                           *)
LEMMA BeginKeys ==
  ASSUME TypeOK, Shapes, Keys, NEW i \in Slot,
         \/ BeginPrep(i) \/ Resend(i) \/ BeginDownload(i) \/ BeginView(i) \/ BeginCleanup(i)
         \/ BeginErase(i) \/ BeginBackfill(i)
  PROVE  Keys'
  <1>1. UNCHANGED <<rows, disk>>
    BY DEF BeginPrep, Resend, BeginDownload, BeginView, BeginCleanup, BeginErase, BeginBackfill,
       store
  <1>2. CASE BeginBackfill(i)
    <2>1. /\ Moves(i) /\ ops'[i].kind = "backfill" /\ ops'[i].pc = "read"
          /\ ops'[i].todo = {a \in Existing : rows[a].dek = None}
      BY <1>2, BeginBackfillDoes DEF Begins
    <2>2. AttachmentReadable'
      BY <1>1 DEF Keys, AttachmentReadable, Opens, Existing, HasRow
    <2>3. \A j \in Live("backfill")' : j = i
      BY <1>2, <2>1 DEF BeginBackfill, Live, Moves
    <2>4. OneBackfill'
      BY <2>3 DEF OneBackfill
    <2>5. KeyOK(i, ops[i])'
      BY <1>1, <2>1 DEF KeyOK, HasRow
    <2>6. ASSUME NEW j \in Slot PROVE KeyOK(j, ops[j])'
      <3>1. CASE j # i
        BY <1>1, <2>1, <3>1, KeyKept DEF Keys, Moves
      <3> QED BY <2>5, <3>1
    <2> QED BY <2>2, <2>4, <2>6 DEF Keys
  <1>3. CASE ~BeginBackfill(i)
    <2>1. /\ Moves(i) /\ ops'[i].kind # "backfill"
          /\ ops'[i].kind = "prep" => ops'[i].pc = "begin" /\ ops'[i].done = {}
      BY <1>3, BeginPrepDoes, ResendDoes, BeginDownloadDoes, BeginViewDoes, BeginCleanupDoes,
         BeginEraseDoes DEF Begins
    <2>2. KeyOK(i, ops[i])'
      BY <2>1 DEF KeyOK
    <2> QED BY <1>1, <2>1, <2>2, KeysFrame
  <1> QED BY <1>2, <1>3

(* What is served, cleaned up or erased gets no new key.                   *)
LEMMA ServeKeys ==
  ASSUME TypeOK, Shapes, Keys, NEW i \in Slot,
         \/ ClaimDownload(i) \/ OpenDownload(i) \/ EndStream(i) \/ ClaimView(i)
         \/ Erase(i) \/ EraseFile(i)
  PROVE  Keys'
  <1>1. Moves(i) /\ ops'[i].kind \in {"download", "view", "erase"}
    BY ClaimDownloadDoes, OpenDownloadDoes, EndStreamDoes, ClaimViewDoes, EraseDoes, EraseFileDoes
    DEF Goes, Ends
  <1>2. KeyOK(i, ops[i])'
    BY <1>1 DEF KeyOK
  <1>3. \A a \in Att : rows'[a].here => rows[a].here /\ rows'[a].dek = rows[a].dek
    BY DEF ClaimDownload, OpenDownload, EndStream, ClaimView, Erase, EraseFile, store
  <1>4. ops[i].todo \subseteq Path /\ Att \subseteq Path
    BY DEF TypeOK, Operation, Path
  <1>5. \A a \in Path : /\ disk'[a].body = disk[a].body /\ disk'[a].note = disk[a].note
                        /\ disk'[a].file => disk[a].file
    <2>1. CASE EraseFile(i)
      BY <1>4, <2>1, EraseFileDoes, UnlinkedFile
    <2>2. CASE ~EraseFile(i)
      BY <2>2 DEF ClaimDownload, OpenDownload, EndStream, ClaimView, Erase, store
    <2> QED BY <2>1, <2>2
  <1> QED BY <1>1, <1>2, <1>3, <1>4, <1>5, KeysFrame

(* The cleanup.                                                            *)
LEMMA CleanupKeys ==
  ASSUME TypeOK, Shapes, Keys, NEW i \in Slot,
         \/ Unlink(i) \/ DeleteRow(i) \/ CleanupFails(i) \/ NextPass(i)
         \/ ClearRaw(i) \/ PurgeLog(i) \/ PurgeLinks(i)
  PROVE  Keys'
  <1>1. Moves(i) /\ ops'[i].kind = "cleanup"
    BY UnlinkDoes, DeleteRowDoes, CleanupFailsDoes, NextPassDoes, ClearRawDoes, PurgeLogDoes,
       PurgeLinksDoes DEF Goes
  <1>2. KeyOK(i, ops[i])'
    BY <1>1 DEF KeyOK
  <1>3. \A a \in Att : rows'[a].here => rows[a].here /\ rows'[a].dek = rows[a].dek
    <2>1. CASE DeleteRow(i)
      BY <2>1, DeletedRow
    <2>2. CASE ~DeleteRow(i)
      BY <2>2 DEF Unlink, CleanupFails, NextPass, ClearRaw, PurgeLog, PurgeLinks, store
    <2> QED BY <2>1, <2>2
  <1>4. ops[i].todo \subseteq Path /\ Att \subseteq Path
    BY DEF TypeOK, Operation, Path
  <1>5. \A a \in Path : /\ disk'[a].body = disk[a].body /\ disk'[a].note = disk[a].note
                        /\ disk'[a].file => disk[a].file
    <2>1. CASE Unlink(i)
      BY <1>4, <2>1, UnlinkDoes, UnlinkedFile
    <2>2. CASE ~Unlink(i)
      BY <2>2 DEF DeleteRow, CleanupFails, NextPass, ClearRaw, PurgeLog, PurgeLinks, store
    <2> QED BY <2>1, <2>2
  <1> QED BY <1>1, <1>2, <1>3, <1>4, <1>5, KeysFrame

(* While the preparation is under way no other operation knows a key.      *)
LEMMA FreshKeys ==
  ASSUME Preparation, Keys, NEW i \in Slot, Moves(i), ops[i].kind = "prep", ops[i].pc # "end",
         ops'[i].kind = "prep", KeyOK(i, ops[i])', AttachmentReadable'
  PROVE  Keys'
  <1>1. Fresh
    BY DEF Fresh, Live
  <1>2. OneBackfill'
    BY DEF Keys, OneBackfill, Live, Moves
  <1>3. ASSUME NEW j \in Slot PROVE KeyOK(j, ops[j])'
    <2>1. CASE j # i
      <3>1. ops'[j] = ops[j] /\ ops[j].kind # "prep" /\ HandsOff(ops[j])
        BY <1>1, <2>1 DEF Preparation, OnePrep, Untouched, Moves
      <3> QED BY <3>1 DEF KeyOK, HandsOff
    <2> QED BY <2>1
  <1> QED BY <1>2, <1>3 DEF Keys

(* The preparation encrypts with the key whose number its rows will name.  *)
LEMMA PrepKeys ==
  ASSUME TypeOK, Shapes, Preparation, Keys, NEW i \in Slot,
         LockPrep(i) \/ WriteAttachment(i) \/ InsertAttachment(i) \/ CommitPrep(i)
  PROVE  Keys'
  <1>0. Att \subseteq Path /\ disk \in [Path -> [file : BOOLEAN, body : Seq(Nat), note : Nat]]
    BY DEF TypeOK, Path
  <1>1. Moves(i) /\ ops[i].kind = "prep" /\ ops[i].pc # "end" /\ ops'[i].kind = "prep"
    BY LockPrepDoes, WriteAttachmentDoes, InsertAttachmentDoes, CommitPrepDoes DEF Goes, Ends
  <1>2. Existing = {} /\ PrepShape(ops[i]) /\ KeyOK(i, ops[i])
    BY <1>1 DEF Preparation, Untouched, Fresh, Live, Shapes, Shape, Keys
  <1>3. CASE LockPrep(i)
    <2>1. UNCHANGED rows /\ ops'[i].done = {} /\ ops'[i].pc # "insert"
      BY <1>2, <1>3, LockPrepDoes DEF LockPrep, store, Goes, Ends, PrepShape
    <2>2. KeyOK(i, ops[i])'
      BY <1>1, <2>1 DEF KeyOK
    <2>3. AttachmentReadable'
      BY <1>2, <2>1 DEF AttachmentReadable, Existing, HasRow
    <2> QED BY <1>1, <2>2, <2>3, FreshKeys
  <1>4. CASE WriteAttachment(i)
    <2>1. PICK a \in ops[i].todo :
           /\ ops'[i].done = ops[i].done
           /\ \/ /\ Goes(i, "prep", "store", "insert") /\ ops'[i].p = a
                 /\ disk' = [disk EXCEPT ![a] = [@ EXCEPT !.file = TRUE, !.body = <<i>>]]
              \/ Goes(i, "prep", "store", "store") /\ UNCHANGED disk
      BY <1>4, WriteAttachmentDoes
    <2>2. a \in Path /\ a \notin ops[i].done
      BY <1>0, <1>2 DEF PrepShape
    <2>3. \A b \in Att : b \in ops[i].done => disk[b].body = <<i>>
      BY <1>1, <1>2 DEF KeyOK
    <2>4. \A b \in Att : b \in ops'[i].done \/ (ops'[i].pc = "insert" /\ b = ops'[i].p)
                           => disk'[b].body = <<i>>
      <3>1. CASE UNCHANGED disk /\ ops'[i].pc = "store"
        BY <2>1, <2>3, <3>1
      <3>2. CASE /\ ops'[i].p = a
                 /\ disk' = [disk EXCEPT ![a] = [@ EXCEPT !.file = TRUE, !.body = <<i>>]]
        <4>1. disk'[a].body = <<i>> /\ \A b \in Path : b # a => disk'[b] = disk[b]
          BY <1>0, <2>2, <3>2
        <4> QED BY <1>0, <2>1, <2>3, <3>2, <4>1
      <3> QED BY <2>1, <3>1, <3>2 DEF Goes
    <2>5. KeyOK(i, ops[i])'
      BY <1>1, <2>4 DEF KeyOK
    <2>6. AttachmentReadable'
      BY <1>2, <1>4 DEF WriteAttachment, AttachmentReadable, Existing, HasRow
    <2> QED BY <1>1, <2>5, <2>6, FreshKeys
  <1>5. CASE InsertAttachment(i)
    <2>1. /\ Goes(i, "prep", "insert", "store")
          /\ ops'[i].done \subseteq ops[i].done \cup {ops[i].p}
          /\ UNCHANGED disk \/ disk' = [disk EXCEPT ![ops[i].p].file = FALSE]
      BY <1>5, InsertAttachmentDoes
    <2>2. ops[i].pc = "insert" /\ ops'[i].pc = "store"
      BY <2>1 DEF Goes
    <2>3. ops[i].p \in Path
      BY <1>0, <1>2, <2>2 DEF PrepShape
    <2>4. \A b \in Path : disk'[b].body = disk[b].body
      BY <2>1, <2>3, UnlinkedFile
    <2>5. \A b \in Att : b \in ops'[i].done => disk'[b].body = <<i>>
      BY <1>0, <1>1, <1>2, <2>1, <2>2, <2>4 DEF KeyOK
    <2>6. KeyOK(i, ops[i])'
      BY <1>1, <2>2, <2>5 DEF KeyOK
    <2>7. AttachmentReadable'
      BY <1>2, <1>5 DEF InsertAttachment, AttachmentReadable, Existing, HasRow
    <2> QED BY <1>1, <2>6, <2>7, FreshKeys
  <1>6. CASE CommitPrep(i)
    <2>1. UNCHANGED disk /\ ops'[i].pc = "end"
      BY <1>6, CommitPrepDoes DEF CommitPrep, Goes
    <2>2. KeyOK(i, ops[i])'
      BY <1>1, <2>1 DEF KeyOK
    <2>3. \A a \in Att : a \in ops[i].done => disk[a].body = <<i>>
      BY <1>1, <1>2 DEF KeyOK
    <2>4. CASE rows' = [a \in Att |-> IF a \in ops[i].done
                                      THEN [here |-> TRUE, dek |-> i] ELSE rows[a]]
      <3>1. \A a \in Att : rows'[a].here => a \in ops[i].done /\ rows'[a].dek = i
        BY <1>2, <2>4 DEF Existing, HasRow
      <3>2. i # None
        BY DEF Slot, None
      <3> QED BY <1>1, <2>1, <2>2, <2>3, <3>1, <3>2, FreshKeys
          DEF AttachmentReadable, Existing, HasRow, Opens
    <2>5. CASE UNCHANGED rows
      BY <1>1, <1>2, <2>2, <2>5, FreshKeys DEF AttachmentReadable, Existing, HasRow
    <2> QED BY <1>6, <2>4, <2>5, CommittedRows
  <1> QED BY <1>3, <1>4, <1>5, <1>6

(* A backfill among the attachments is alone with their keys.              *)
LEMMA BackfillAlone ==
  ASSUME Preparation, Keys, NEW i \in Slot, Moves(i), ops[i].kind = "backfill",
         ops[i].pc # "end", ops[i].phase = "att", ops[i].todo # {} \/ ops[i].pc # "read",
         ops'[i].kind = "backfill", KeyOK(i, ops[i])', AttachmentReadable'
  PROVE  Keys'
  <1>1. ~Fresh
    BY DEF Preparation, Untouched, HandsOff
  <1>2. OneBackfill'
    BY DEF Keys, OneBackfill, Live, Moves
  <1>3. ASSUME NEW j \in Slot PROVE KeyOK(j, ops[j])'
    <2>1. CASE j # i
      <3>1. ops'[j] = ops[j]
        BY <2>1 DEF Moves
      <3>2. ops[j].kind = "prep" => ops[j].pc = "end"
        BY <1>1 DEF Fresh, Live
      <3>3. ops[j].kind = "backfill" => ops[j].pc = "end"
        BY <2>1 DEF Keys, OneBackfill, Live
      <3> QED BY <3>1, <3>2, <3>3 DEF KeyOK
    <2> QED BY <2>1
  <1> QED BY <1>2, <1>3 DEF Keys

(* The backfill in the raw and pending passes leaves attachments alone.    *)
LEMMA BackfillRawKeys ==
  ASSUME TypeOK, Shapes, Keys, NEW i \in Slot, ops[i].phase # "att" \/ NextPhase(i),
         ReadFile(i) \/ ReplaceFile(i) \/ RecordKey(i) \/ ClearNote(i) \/ NextPhase(i)
  PROVE  Keys'
  <1>0. /\ Att \subseteq Path /\ disk \in [Path -> [file : BOOLEAN, body : Seq(Nat), note : Nat]]
        /\ Raw \in Path
    BY DEF TypeOK, Path
  <1>1. Moves(i) /\ ops[i].kind = "backfill" /\ ops[i].pc # "end" /\ ops'[i].kind = "backfill"
    BY ReadFileDoes, ReplaceFileDoes, RecordKeyDoes, ClearNoteDoes, NextPhaseDoes DEF Goes
  <1>2. BackfillShape(ops[i])
    BY <1>1 DEF Shapes, Shape
  <1>3. ops'[i].pc # "end" => ops'[i].phase # "att"
    BY ReadFileDoes, ReplaceFileDoes, RecordKeyDoes, ClearNoteDoes, NextPhaseDoes DEF Goes
  <1>4. KeyOK(i, ops[i])'
    BY <1>1, <1>3 DEF KeyOK
  <1>5. \A a \in Att : disk'[a] = disk[a]
    <2>1. CASE ReadFile(i)
      <3>1. PICK p \in ops[i].todo : UNCHANGED disk \/ disk' = Noted(p, i)
        BY <2>1, ReadFileDoes
      <3>2. ops[i].pc = "read" /\ ops[i].phase # "att"
        BY <2>1 DEF ReadFile, NextPhase, At
      <3>3. p = Raw
        BY <1>2, <3>1, <3>2 DEF BackfillShape
      <3> QED BY <1>0, <3>1, <3>3 DEF Noted
    <2>2. CASE ReplaceFile(i)
      <3>1. PICK s : disk' = [disk EXCEPT ![ops[i].p].file = TRUE, ![ops[i].p].body = s]
        BY <2>2 DEF ReplaceFile
      <3>2. ops[i].pc = "replace" /\ ops[i].phase # "att"
        BY <2>2 DEF ReplaceFile, NextPhase, At
      <3>3. ops[i].p = Raw
        BY <1>2, <3>2 DEF BackfillShape
      <3> QED BY <1>0, <3>1, <3>3
    <2>3. CASE ClearNote(i)
      <3>1. disk' = [disk EXCEPT ![ops[i].p].note = None]
        BY <2>3 DEF ClearNote
      <3>2. ops[i].pc = "clear" /\ ops[i].phase # "att"
        BY <2>3 DEF ClearNote, NextPhase, At
      <3>3. ops[i].p = Raw
        BY <1>2, <3>2 DEF BackfillShape
      <3> QED BY <1>0, <3>1, <3>3
    <2>4. CASE RecordKey(i) \/ NextPhase(i)
      BY <2>4 DEF RecordKey, NextPhase, store
    <2> QED BY <2>1, <2>2, <2>3, <2>4
  <1>6. \A a \in Att : rows'[a].here => rows[a].here /\ rows'[a].dek = rows[a].dek
    <2>1. CASE RecordKey(i)
      <3>1. ops[i].phase # "att"
        BY <2>1 DEF RecordKey, NextPhase, At
      <3> QED BY <2>1, <3>1, RecordedKey
    <2>2. CASE ~RecordKey(i)
      BY <2>2 DEF ReadFile, ReplaceFile, ClearNote, NextPhase, store
    <2> QED BY <2>1, <2>2
  <1> QED BY <1>1, <1>4, <1>5, <1>6, KeysFrame

(* The backfill among the attachments: the key is noted, then the file     *)
(* replaced, then the row updated, then the note cleared.                  *)
LEMMA BackfillKeys ==
  ASSUME TypeOK, Shapes, Preparation, Keys, NEW i \in Slot, ops[i].phase = "att",
         ReadFile(i) \/ ReplaceFile(i) \/ RecordKey(i) \/ ClearNote(i)
  PROVE  Keys'
  <1>0. Att \subseteq Path /\ disk \in [Path -> [file : BOOLEAN, body : Seq(Nat), note : Nat]]
    BY DEF TypeOK, Path
  <1>1. /\ Moves(i) /\ ops[i].kind = "backfill" /\ ops[i].pc # "end" /\ ops'[i].kind = "backfill"
        /\ ops'[i].phase = "att" /\ ops'[i].todo \subseteq ops[i].todo
    BY ReadFileDoes, ReplaceFileDoes, RecordKeyDoes, ClearNoteDoes DEF Goes
  <1>2. BackfillShape(ops[i]) /\ KeyOK(i, ops[i])
    BY <1>1 DEF Shapes, Shape, Keys
  <1>3. AttachmentReadable
    BY DEF Keys
  <1>4. i # None
    BY DEF Slot, None
  <1>5. CASE ReadFile(i)
    <2>1. PICK p \in ops[i].todo :
           /\ ops'[i].todo = ops[i].todo \ {p}
           /\ \/ Goes(i, "backfill", "read", "read") /\ UNCHANGED disk
              \/ /\ Goes(i, "backfill", "read", "row") /\ ops'[i].p = p /\ ops'[i].n = disk[p].note
                 /\ disk[p].file /\ Resumes(p) /\ UNCHANGED disk
              \/ /\ Goes(i, "backfill", "read", "replace") /\ ops'[i].p = p /\ ops'[i].n = i
                 /\ ops'[i].got = Len(disk[p].body)
                 /\ disk[p].file /\ ~Resumes(p) /\ disk' = Noted(p, i)
      BY <1>5, ReadFileDoes
    <2>2. UNCHANGED rows /\ p \in Att
      BY <1>2, <1>5, <2>1 DEF ReadFile, BackfillShape
    <2>3. \A a \in ops[i].todo : HasRow(a) => rows[a].dek = None
      BY <1>1, <1>2 DEF KeyOK
    <2>4. HasRow(p) /\ disk[p].file => Opens(p, None)
      BY <1>3, <2>2, <2>3 DEF AttachmentReadable, Existing
    <2>5. CASE ops'[i].pc = "read" /\ UNCHANGED disk
      <3>1. KeyOK(i, ops[i])'
        BY <1>1, <2>1, <2>2, <2>3, <2>5 DEF KeyOK, HasRow
      <3>2. AttachmentReadable'
        BY <1>3, <2>2, <2>5 DEF AttachmentReadable, Existing, HasRow, Opens
      <3> QED BY <1>1, <2>1, <3>1, <3>2, BackfillAlone
    <2>6. CASE /\ ops'[i].pc = "row" /\ ops'[i].p = p /\ ops'[i].n = disk[p].note
               /\ disk[p].file /\ Resumes(p) /\ UNCHANGED disk
      <3>1. HasRow(p) => disk[p].body = <<disk[p].note>> /\ disk[p].note # None
        BY <2>4, <2>6 DEF Resumes, Opens
      <3>2. KeyOK(i, ops[i])'
        BY <1>1, <2>1, <2>2, <2>3, <2>6, <3>1 DEF KeyOK, HasRow
      <3>3. AttachmentReadable'
        BY <1>3, <2>2, <2>6 DEF AttachmentReadable, Existing, HasRow, Opens
      <3> QED BY <1>1, <2>1, <3>2, <3>3, BackfillAlone
    <2>7. CASE /\ ops'[i].pc = "replace" /\ ops'[i].p = p /\ ops'[i].n = i
               /\ ops'[i].got = Len(disk[p].body)
               /\ disk[p].file /\ ~Resumes(p) /\ disk' = Noted(p, i)
      <3>1. HasRow(p) => disk[p].body = <<>>
        BY <2>4, <2>7 DEF Resumes, Opens
      <3>2. HasRow(p) => ops'[i].got = 0
        BY <2>7, <3>1
      <3>3. /\ disk'[p].note = i /\ disk'[p].body = disk[p].body
            /\ \A a \in Att : a # p => disk'[a] = disk[a]
        BY <1>0, <2>2, <2>7 DEF Noted
      <3>4. KeyOK(i, ops[i])'
        BY <1>1, <1>4, <2>1, <2>2, <2>3, <2>7, <3>2, <3>3 DEF KeyOK, HasRow
      <3>5. AttachmentReadable'
        <4>1. ASSUME NEW a \in Att, rows'[a].here, disk'[a].file PROVE Opens(a, rows[a].dek)'
          <5>1. CASE a = p
            BY <2>2, <2>3, <3>1, <3>3, <4>1, <5>1 DEF Opens, HasRow, None
          <5>2. CASE a # p
            BY <1>3, <2>2, <3>3, <4>1, <5>2 DEF Opens, HasRow, AttachmentReadable, Existing
          <5> QED BY <5>1, <5>2
        <4> QED BY <4>1 DEF AttachmentReadable, Existing, HasRow
      <3> QED BY <1>1, <2>1, <3>4, <3>5, BackfillAlone
    <2> QED BY <2>1, <2>5, <2>6, <2>7 DEF Goes
  <1>6. CASE ReplaceFile(i)
    <2>1. /\ ops[i].pc = "replace" /\ ops'[i].pc = "row" /\ ops'[i].todo = ops[i].todo
          /\ ops'[i].p = ops[i].p /\ ops'[i].n = ops[i].n
      BY <1>6, ReplaceFileDoes DEF Goes
    <2>2. PICK p \in Att : p = ops[i].p
      BY <1>2, <2>1 DEF BackfillShape
    <2>3. PICK s : s = Append(IF ops[i].got = 0 THEN <<>> ELSE disk[p].body, ops[i].n)
      OBVIOUS
    <2>4. disk' = [disk EXCEPT ![p].file = TRUE, ![p].body = s] /\ UNCHANGED rows
      BY <1>6, <2>2, <2>3 DEF ReplaceFile
    <2>5. /\ disk'[p].body = s /\ disk'[p].note = disk[p].note
          /\ \A a \in Att : a # p => disk'[a] = disk[a]
      BY <1>0, <2>2, <2>4
    <2>6. /\ \A a \in ops[i].todo : HasRow(a) => rows[a].dek = None
          /\ p \notin ops[i].todo
          /\ HasRow(p) => rows[p].dek = None /\ disk[p].note = ops[i].n /\ ops[i].got = 0
                            /\ ops[i].n # None
      BY <1>1, <1>2, <2>1, <2>2 DEF KeyOK
    <2>7. HasRow(p) => disk'[p].body = <<ops[i].n>>
      <3>1. ops[i].n \in Nat
        BY DEF TypeOK, Operation
      <3>2. Append(<<>>, ops[i].n) = <<ops[i].n>>
        BY <3>1
      <3>3. HasRow(p) => s = Append(<<>>, ops[i].n)
        BY <2>3, <2>6
      <3> QED BY <2>5, <3>2, <3>3
    <2>10. UNCHANGED rows /\ ops'[i].p = p
      BY <2>1, <2>2, <2>4
    <2>8. KeyOK(i, ops[i])'
      BY <1>1, <2>1, <2>5, <2>6, <2>7, <2>10 DEF KeyOK, HasRow
    <2>9. AttachmentReadable'
      <3>1. ASSUME NEW a \in Att, rows'[a].here, disk'[a].file PROVE Opens(a, rows[a].dek)'
        <4>1. CASE a = p
          BY <2>4, <2>5, <2>6, <2>7, <3>1, <4>1 DEF Opens, HasRow
        <4>2. CASE a # p
          BY <1>3, <2>4, <2>5, <3>1, <4>2 DEF Opens, HasRow, AttachmentReadable, Existing
        <4> QED BY <4>1, <4>2
      <3> QED BY <3>1 DEF AttachmentReadable, Existing, HasRow
    <2> QED BY <1>1, <2>1, <2>8, <2>9, BackfillAlone
  <1>7. CASE RecordKey(i)
    <2>1. /\ ops[i].pc = "row" /\ ops'[i].pc = "clear" /\ ops'[i].todo = ops[i].todo
          /\ ops'[i].p = ops[i].p /\ ops'[i].n = ops[i].n
      BY <1>7, RecordKeyDoes DEF Goes
    <2>2. PICK p \in Att : p = ops[i].p
      BY <1>2, <2>1 DEF BackfillShape
    <2>3. /\ UNCHANGED disk /\ \A a \in Att : rows'[a].here = rows[a].here
          /\ \A a \in Att : rows'[a].dek = IF a = p /\ HasRow(a) THEN ops[i].n ELSE rows[a].dek
      BY <1>7, <2>2, RecordedKey DEF RecordKey
    <2>4. /\ \A a \in ops[i].todo : HasRow(a) => rows[a].dek = None
          /\ p \notin ops[i].todo /\ ops[i].todo \subseteq Att
          /\ HasRow(p) => disk[p].body = <<ops[i].n>> /\ ops[i].n # None
      BY <1>1, <1>2, <2>1, <2>2 DEF KeyOK, BackfillShape
    <2>5. KeyOK(i, ops[i])'
      BY <1>1, <2>1, <2>2, <2>3, <2>4 DEF KeyOK, HasRow
    <2>6. AttachmentReadable'
      <3>1. ASSUME NEW a \in Att, rows'[a].here, disk'[a].file PROVE Opens(a, rows[a].dek)'
        <4>1. CASE a = p
          BY <2>3, <2>4, <3>1, <4>1 DEF Opens, HasRow
        <4>2. CASE a # p
          BY <1>3, <2>3, <3>1, <4>2 DEF Opens, HasRow, AttachmentReadable, Existing
        <4> QED BY <4>1, <4>2
      <3> QED BY <3>1 DEF AttachmentReadable, Existing, HasRow
    <2> QED BY <1>1, <2>1, <2>5, <2>6, BackfillAlone
  <1>8. CASE ClearNote(i)
    <2>1. ops[i].pc = "clear" /\ ops'[i].pc = "read" /\ ops'[i].todo = ops[i].todo
      BY <1>8, ClearNoteDoes DEF Goes
    <2>2. PICK p \in Att : p = ops[i].p
      BY <1>2, <2>1 DEF BackfillShape
    <2>3. disk' = [disk EXCEPT ![p].note = None] /\ UNCHANGED rows
      BY <1>8, <2>2 DEF ClearNote
    <2>4. /\ disk'[p].body = disk[p].body /\ \A a \in Att : a # p => disk'[a] = disk[a]
      BY <1>0, <2>2, <2>3
    <2>5. /\ \A a \in ops[i].todo : HasRow(a) => rows[a].dek = None
          /\ HasRow(p) => rows[p].dek = ops[i].n /\ disk[p].body = <<ops[i].n>> /\ ops[i].n # None
      BY <1>1, <1>2, <2>1, <2>2 DEF KeyOK
    <2>6. KeyOK(i, ops[i])'
      BY <1>1, <2>1, <2>3, <2>5 DEF KeyOK, HasRow
    <2>7. AttachmentReadable'
      <3>1. ASSUME NEW a \in Att, rows'[a].here, disk'[a].file PROVE Opens(a, rows[a].dek)'
        <4>1. CASE a = p
          BY <2>3, <2>4, <2>5, <3>1, <4>1 DEF Opens, HasRow
        <4>2. CASE a # p
          <5>1. disk[a].file
            BY <2>4, <3>1, <4>2
          <5> QED BY <1>3, <2>3, <2>4, <3>1, <4>2, <5>1 DEF Opens, HasRow, AttachmentReadable,
                     Existing
        <4> QED BY <4>1, <4>2
      <3> QED BY <3>1 DEF AttachmentReadable, Existing, HasRow
    <2> QED BY <1>1, <2>1, <2>7, <2>6, BackfillAlone
  <1> QED BY <1>5, <1>6, <1>7, <1>8

(* Steps of no operation, and interruptions.                               *)
LEMMA OtherKeys ==
  ASSUME TypeOK, Shapes, Keys,
         \/ Settle \/ RecoverPending \/ Tick \/ Crash \/ BackfillStops \/ UNCHANGED vars
  PROVE  Keys'
  <1>1. UNCHANGED rows
    BY DEF Settle, RecoverPending, Tick, Crash, BackfillStops, vars, store
  <1>2. \A a \in Att : disk'[a] = disk[a]
    <2>1. CASE RecoverPending
      <3>1. disk \in [Path -> [file : BOOLEAN, body : Seq(Nat), note : Nat]]
        BY DEF TypeOK
      <3>2. disk' = disk \/ disk' = [disk EXCEPT ![Raw].file = FALSE]
        BY <2>1 DEF RecoverPending
      <3> QED BY <3>1, <3>2 DEF Path
    <2>2. CASE ~RecoverPending
      BY <2>2 DEF Settle, Tick, Crash, BackfillStops, vars, store
    <2> QED BY <2>1, <2>2
  <1>3. \A j \in Slot : StopsOrStays(j)
    <2>1. CASE Crash \/ BackfillStops
      BY <2>1, StoppedDoes DEF Crash, BackfillStops
    <2>2. CASE UNCHANGED ops
      BY <2>2 DEF StopsOrStays
    <2> QED BY <2>1, <2>2 DEF Settle, RecoverPending, Tick, vars
  <1>4. AttachmentReadable'
    BY <1>1, <1>2 DEF Keys, AttachmentReadable, Opens, Existing, HasRow
  <1>5. OneBackfill'
    BY <1>3 DEF Keys, OneBackfill, Live, StopsOrStays
  <1>6. ASSUME NEW j \in Slot PROVE KeyOK(j, ops[j])'
    <2>1. CASE ops'[j] = ops[j]
      BY <1>1, <1>2, <2>1, KeyKept DEF Keys
    <2>2. CASE ops'[j].pc = "end"
      BY <2>2 DEF KeyOK
    <2> QED BY <1>3, <2>1, <2>2 DEF StopsOrStays
  <1> QED BY <1>4, <1>5, <1>6 DEF Keys

(* Every step keeps attachments readable.                                  *)
LEMMA KeysStep ==
  ASSUME Core, Keys, [Next]_vars
  PROVE  Keys'
  <1>1. ASSUME NEW i \in Slot,
               ReadFile(i) \/ ReplaceFile(i) \/ RecordKey(i) \/ ClearNote(i) \/ NextPhase(i)
        PROVE  Keys'
    BY <1>1, BackfillRawKeys, BackfillKeys DEF Core
  <1> QED BY <1>1, BeginKeys, PrepKeys, ServeKeys, CleanupKeys, OtherKeys DEF Core, Next

(* Initially nothing is encrypted.                                         *)
LEMMA InitKeys ==
  ASSUME Init
  PROVE  Keys
  <1>1. \A i \in Slot : ops[i] = Idle
    BY DEF Init
  <1>2. \A a \in Att : rows[a].dek = None
    BY DEF Init
  <1>3. \A a \in Att : disk[a].body = <<>>
    BY DEF Init, Path
  <1>4. AttachmentReadable
    BY <1>2, <1>3 DEF AttachmentReadable, Existing, Opens
  <1> QED BY <1>1, <1>4 DEF Keys, OneBackfill, Live, KeyOK, Idle

-----------------------------------------------------------------------------
(* Bytes stored.                                                           *)

(* More attachments take more bytes.                                       *)
LEMMA MoreBytes ==
  ASSUME NEW m \in Nat, NEW n \in Nat, m <= n
  PROVE  Size * m \in Nat /\ Size * n \in Nat /\ Size * m <= Size * n
  <1>1. PICK k \in Nat : n = m + k
    <2>1. n - m \in Nat /\ n = m + (n - m)
      OBVIOUS
    <2> QED BY <2>1
  <1>2. Size * m \in Nat /\ Size * n \in Nat /\ Size * k \in Nat
    OBVIOUS
  <1>3. Size * n = Size * m + Size * k
    BY <1>1
  <1> QED BY <1>2, <1>3

(* Bytes of two parts.                                                     *)
LEMMA SplitBytes ==
  ASSUME NEW m \in Nat, NEW n \in Nat
  PROVE  Size * (m + n) = Size * m + Size * n
  OBVIOUS

(* Attachments of a smaller set.                                           *)
LEMMA FewerBytes ==
  ASSUME NEW T \in SUBSET Att, NEW S \in SUBSET T
  PROVE  /\ IsFiniteSet(S) /\ IsFiniteSet(T) /\ Cardinality(S) \in Nat /\ Cardinality(T) \in Nat
         /\ Cardinality(S) <= Cardinality(T)
         /\ Bytes(S) \in Nat /\ Bytes(T) \in Nat /\ Bytes(S) <= Bytes(T)
  <1>1. IsFiniteSet(T)
    BY FS_Subset
  <1>2. IsFiniteSet(S) /\ Cardinality(S) <= Cardinality(T)
    BY <1>1, FS_Subset
  <1>3. Cardinality(S) \in Nat /\ Cardinality(T) \in Nat
    BY <1>1, <1>2, FS_CardinalityType
  <1> QED BY <1>1, <1>2, <1>3, MoreBytes DEF Bytes

(* The mail is not fresh again.                                            *)
LEMMA FreshKept ==
  ASSUME NEW i \in Slot, Moves(i), log'.stage = log.stage,
         ops'[i].kind = "prep" /\ ops'[i].pc # "end" => ops[i].kind = "prep" /\ ops[i].pc # "end"
  PROVE  Fresh' => Fresh
  BY DEF Fresh, Live, Moves

(* What a preparation has in hand, and what it has given up.               *)
Fits(o) == o.n + Cardinality(InHand(o)) <= Cardinality(Att)

(* A step that releases nothing.                                           *)
LEMMA AttBytesFrame ==
  ASSUME TypeOK, AttBytes, NEW i \in Slot, Moves(i), Existing' \subseteq Existing,
         user' => user, usage'.att = usage.att, Fresh' => Fresh,
         ops'[i].kind = "prep" /\ ops'[i].pc # "end" => Fits(ops'[i])
  PROVE  AttBytes'
  <1>1. Existing \in SUBSET Att /\ Existing' \in SUBSET Existing
    BY DEF Existing
  <1>2. Bytes(Existing') \in Nat /\ Bytes(Existing) \in Nat /\ Bytes(Existing') <= Bytes(Existing)
    BY <1>1, FewerBytes
  <1>3. usage.att \in Nat
    BY DEF TypeOK
  <1>4. user' => usage'.att >= Elsewhere + Bytes(Existing')
    BY <1>2, <1>3 DEF AttBytes
  <1>5. user' /\ Fresh' => usage'.att >= Elsewhere + Bytes(Att)
    BY DEF AttBytes
  <1>6. \A j \in Live("prep")' : Fits(ops'[j])
    BY DEF AttBytes, Live, Moves, Fits
  <1> QED BY <1>4, <1>5, <1>6 DEF AttBytes, Bytes, Fits

(* Beginnings: the preparation has reserved every attachment.              *)
LEMMA BeginAttBytes ==
  ASSUME TypeOK, AttBytes, NEW i \in Slot,
         \/ BeginPrep(i) \/ Resend(i) \/ BeginDownload(i) \/ BeginView(i) \/ BeginCleanup(i)
         \/ BeginErase(i) \/ BeginBackfill(i)
  PROVE  AttBytes'
  <1>1. UNCHANGED <<rows, user, usage>>
    BY DEF BeginPrep, Resend, BeginDownload, BeginView, BeginCleanup, BeginErase, BeginBackfill,
           store, owner
  <1>2. Existing' = Existing
    BY <1>1 DEF Existing, HasRow
  <1>3. CASE BeginPrep(i)
    <2>1. /\ Moves(i) /\ ops'[i].pc = "begin" /\ ops'[i].done = {} /\ ops'[i].todo = Att
          /\ ops'[i].n = 0
      BY <1>3, BeginPrepDoes DEF Begins
    <2>2. Fresh
      BY <1>3 DEF BeginPrep, Fresh
    <2>3. InHand(ops'[i]) = Att
      BY <2>1 DEF InHand
    <2>4. Cardinality(Att) \in Nat
      BY FS_CardinalityType
    <2>5. Fits(ops'[i])
      BY <2>1, <2>3, <2>4 DEF Fits
    <2> QED BY <1>1, <1>2, <2>1, <2>2, <2>5, AttBytesFrame
  <1>4. CASE ~BeginPrep(i)
    <2>1. Moves(i) /\ ops'[i].kind # "prep"
      BY <1>4, ResendDoes, BeginDownloadDoes, BeginViewDoes, BeginCleanupDoes, BeginEraseDoes,
         BeginBackfillDoes DEF Begins
    <2>2. log \in LogRow
      BY TypeParts
    <2>3. log'.stage = log.stage
      BY <1>4, <2>2 DEF Resend, BeginDownload, BeginView, BeginCleanup, BeginErase, BeginBackfill,
                        store, LogRow
    <2> QED BY <1>1, <1>2, <2>1, <2>3, FreshKept, AttBytesFrame
  <1> QED BY <1>3, <1>4

(* The preparation: what fails is given back when it commits.              *)
LEMMA PrepAttBytes ==
  ASSUME TypeOK, Shapes, Preparation, AttBytes, NEW i \in Slot,
         LockPrep(i) \/ WriteAttachment(i) \/ InsertAttachment(i)
  PROVE  AttBytes'
  <1>1. UNCHANGED <<rows, user, usage, log>>
    BY DEF LockPrep, WriteAttachment, InsertAttachment, store, owner
  <1>2. Existing' = Existing
    BY <1>1 DEF Existing, HasRow
  <1>3. Moves(i) /\ ops[i].kind = "prep" /\ ops[i].pc # "end" /\ ops'[i].kind = "prep"
    BY LockPrepDoes, WriteAttachmentDoes, InsertAttachmentDoes DEF Goes, Ends
  <1>4. PrepShape(ops[i]) /\ Fits(ops[i]) /\ ops[i].n \in Nat
    BY <1>3 DEF Shapes, Shape, AttBytes, Live, Fits, TypeOK, Operation
  <1>5. InHand(ops[i]) \in SUBSET Att
    BY <1>4 DEF InHand, PrepShape
  <1>6. IsFiniteSet(InHand(ops[i])) /\ Cardinality(InHand(ops[i])) \in Nat
        /\ Cardinality(Att) \in Nat
    BY <1>5, FewerBytes
  <1>7. ops'[i].pc # "end" => Fits(ops'[i])
    <2>1. CASE LockPrep(i)
      <3>1. ops'[i].pc # "end" =>
              /\ InHand(ops'[i]) = InHand(ops[i]) /\ ops'[i].n = ops[i].n
        BY <2>1, LockPrepDoes DEF Goes, Ends, InHand
      <3> QED BY <1>4, <3>1 DEF Fits
    <2>2. CASE WriteAttachment(i)
      <3>1. PICK a \in ops[i].todo :
              /\ ops'[i].todo = ops[i].todo \ {a} /\ ops'[i].done = ops[i].done
              /\ \/ Goes(i, "prep", "store", "insert") /\ ops'[i].p = a /\ ops'[i].n = ops[i].n
                 \/ Goes(i, "prep", "store", "store") /\ ops'[i].n <= ops[i].n + 1
        BY <2>2, WriteAttachmentDoes
      <3>2. a \notin ops[i].done /\ a \in InHand(ops[i]) /\ ops'[i].n \in Nat
        BY <1>3, <1>4 DEF PrepShape, InHand, Moves, Operation
      <3>3. CASE ops'[i].pc = "insert" /\ ops'[i].p = a /\ ops'[i].n = ops[i].n
        <4>1. InHand(ops'[i]) = InHand(ops[i])
          BY <3>1, <3>3 DEF InHand, Goes
        <4> QED BY <1>4, <3>3, <4>1 DEF Fits
      <3>4. CASE ops'[i].pc = "store" /\ ops'[i].n <= ops[i].n + 1
        <4>1. InHand(ops'[i]) = InHand(ops[i]) \ {a}
          BY <3>1, <3>2, <3>4 DEF InHand, Goes
        <4>2. Cardinality(InHand(ops'[i])) = Cardinality(InHand(ops[i])) - 1
          BY <1>6, <3>2, <4>1, FS_RemoveElement
        <4> QED BY <1>4, <1>6, <3>2, <3>4, <4>2 DEF Fits
      <3> QED BY <3>1, <3>3, <3>4 DEF Goes
    <2>3. CASE InsertAttachment(i)
      <3>1. /\ ops[i].pc = "insert" /\ ops'[i].pc = "store" /\ ops'[i].todo = ops[i].todo
            /\ ops'[i].n = ops[i].n /\ ops'[i].done \subseteq ops[i].done \cup {ops[i].p}
        BY <2>3, InsertAttachmentDoes DEF Goes
      <3>2. InHand(ops'[i]) \in SUBSET InHand(ops[i])
        BY <3>1 DEF InHand
      <3>3. /\ Cardinality(InHand(ops'[i])) \in Nat
            /\ Cardinality(InHand(ops'[i])) <= Cardinality(InHand(ops[i]))
        BY <1>5, <3>2, FewerBytes
      <3> QED BY <1>4, <1>6, <3>1, <3>3 DEF Fits
    <2> QED BY <2>1, <2>2, <2>3
  <1>8. Fresh' => Fresh
    BY <1>1, <1>3, FreshKept
  <1> QED BY <1>1, <1>2, <1>3, <1>7, <1>8, AttBytesFrame

(* The commit releases the bytes of the attachments that failed and keeps  *)
(* those of the attachments it stored.                                     *)
LEMMA CommitAttBytes ==
  ASSUME TypeOK, Shapes, Preparation, AttBytes, NEW i \in Slot, CommitPrep(i)
  PROVE  AttBytes'
  <1>1. UNCHANGED <<user, log>>
    BY DEF CommitPrep
  <1>2. /\ Moves(i) /\ ops[i].kind = "prep" /\ ops[i].pc = "store" /\ ops'[i].kind = "prep"
        /\ ops'[i].pc = "end" /\ ops[i].todo = {}
    BY CommitPrepDoes DEF Goes
  <1>3. /\ PrepShape(ops[i]) /\ Fits(ops[i]) /\ ops[i].n \in Nat /\ usage.att \in Nat
        /\ usage \in Usage
    BY <1>2, TypeParts DEF Shapes, Shape, AttBytes, Live, Fits, TypeOK, Operation
  <1>4. Fresh
    BY <1>2 DEF Fresh, Live
  <1>5. Existing = {}
    BY <1>4 DEF Preparation, Untouched
  <1>6. ops[i].done \in SUBSET Att /\ InHand(ops[i]) = ops[i].done
    BY <1>2, <1>3 DEF PrepShape, InHand
  <1>7. Fresh' => Fresh
    BY <1>1, <1>2, FreshKept
  <1>8. CASE UNCHANGED <<rows, usage>> /\ Existing' = Existing
    BY <1>1, <1>2, <1>7, <1>8, AttBytesFrame
  <1>9. CASE /\ Existing' = Existing \cup (ops[i].done \cap Att)
             /\ usage' = [usage EXCEPT !.att = Sub(@, Size * ops[i].n)]
    <2>1. Existing' = ops[i].done
      BY <1>5, <1>6, <1>9
    <2>2. /\ Cardinality(ops[i].done) \in Nat /\ Cardinality(Att) \in Nat
          /\ Bytes(ops[i].done) \in Nat /\ Bytes(Att) \in Nat
      BY <1>6, FewerBytes
    <2>3. Size * ops[i].n \in Nat
      BY <1>3
    <2>4. Size * (ops[i].n + Cardinality(ops[i].done)) <= Size * Cardinality(Att)
      BY <1>3, <1>6, <2>2, MoreBytes DEF Fits
    <2>5. Size * ops[i].n + Bytes(ops[i].done) <= Bytes(Att)
      BY <1>3, <2>2, <2>4, SplitBytes DEF Bytes
    <2>6. usage'.att = Sub(usage.att, Size * ops[i].n)
      BY <1>9, <2>3, UsageUpdates
    <2>7. user => usage.att >= Elsewhere + Bytes(Att)
      BY <1>4 DEF AttBytes
    <2>8. user => usage'.att >= Elsewhere + Bytes(ops[i].done)
      <3>1. PICK x \in Nat : x = Size * ops[i].n
        BY <2>3
      <3>2. PICK d \in Nat : d = Bytes(ops[i].done)
        BY <2>2
      <3>3. PICK t \in Nat : t = Bytes(Att)
        BY <2>2
      <3>4. usage'.att \in Nat /\ usage'.att >= usage.att - x
        <4>1. usage.att \in Nat
          BY <1>3
        <4>2. Sub(usage.att, x) \in Nat /\ Sub(usage.att, x) >= usage.att - x
          BY <4>1, SubNat
        <4> QED BY <2>6, <3>1, <4>2
      <3>5. x + d <= t /\ (user => usage.att >= Elsewhere + t)
        BY <2>5, <2>7, <3>1, <3>2, <3>3
      <3> QED BY <1>3, <3>2, <3>4, <3>5
    <2>9. user' => usage'.att >= Elsewhere + Bytes(Existing')
      BY <1>1, <2>1, <2>8
    <2>10. \A j \in Slot : ops'[j].kind = "prep" => j = i
      BY <1>2 DEF Preparation, OnePrep, Moves
    <2>11. Live("prep")' = {}
      BY <1>2, <2>10 DEF Live
    <2>12. log.stage # "queued"
      BY <1>2 DEF Preparation, OnePrep
    <2>13. ~Fresh'
      BY <1>1, <2>11, <2>12 DEF Fresh
    <2> QED BY <2>9, <2>11, <2>13 DEF AttBytes, Bytes
  <1> QED BY <1>8, <1>9, CommittedRows

(* A release comes with the row it is for.                                 *)
LEMMA DeleteAttBytes ==
  ASSUME TypeOK, Shapes, Preparation, AttBytes, NEW i \in Slot, DeleteRow(i)
  PROVE  AttBytes'
  <1>1. UNCHANGED <<user, log>> /\ usage \in Usage /\ usage.att \in Nat
    BY TypeParts DEF DeleteRow, TypeOK
  <1>2. /\ Moves(i) /\ ops[i].kind = "cleanup" /\ ops[i].pc = "attTx" /\ ops'[i].kind = "cleanup"
    BY DeleteRowDoes DEF Goes
  <1>3. ~Fresh
    BY <1>2 DEF Preparation, Untouched, HandsOff
  <1>4. Fresh' => Fresh
    BY <1>1, <1>2, FreshKept
  <1>5. PICK a \in Att : a = ops[i].p
    BY DeletedRow
  <1>6. Existing' = Existing \ {a}
    BY <1>5, DeletedRow
  <1>7. IsFiniteSet(Existing) /\ Cardinality(Existing) \in Nat
    <2>1. Existing \in SUBSET Att
      BY DEF Existing
    <2> QED BY <2>1, FewerBytes
  <1>8. CASE user /\ a \in Existing
    <2>1. usage' = [usage EXCEPT !.att = Sub(@, Size)]
      BY <1>5, <1>8 DEF DeleteRow, ReleasedFor, Existing
    <2>2. usage'.att = Sub(usage.att, Size)
      BY <2>1, UsageUpdates
    <2>3. PICK m \in Nat : m = Cardinality(Existing')
      BY <1>6, <1>7, FS_RemoveElement, FS_CardinalityType
    <2>4. Cardinality(Existing) = m + 1
      <3>1. Cardinality(Existing \ {a}) = Cardinality(Existing) - 1
        BY <1>7, <1>8, FS_RemoveElement
      <3> QED BY <1>6, <1>7, <2>3, <3>1
    <2>5. Size * (m + 1) = Size * m + Size /\ Size * m \in Nat
      BY SplitBytes
    <2>6. usage'.att >= Elsewhere + Bytes(Existing')
      <3>1. usage'.att \in Nat /\ usage'.att >= usage.att - Size
        <4>1. usage.att \in Nat
          BY <1>1
        <4>2. Sub(usage.att, Size) \in Nat /\ Sub(usage.att, Size) >= usage.att - Size
          BY <4>1, SubNat
        <4> QED BY <2>2, <4>2
      <3>2. PICK d \in Nat : d = Size * m
        BY <2>5
      <3>3. Bytes(Existing) = d + Size /\ Bytes(Existing') = d
        BY <2>3, <2>4, <2>5, <3>2 DEF Bytes
      <3>4. usage.att >= Elsewhere + Bytes(Existing)
        BY <1>8 DEF AttBytes
      <3> QED BY <1>1, <3>1, <3>2, <3>3, <3>4
    <2>7. \A j \in Live("prep")' : j \in Live("prep") /\ ops'[j] = ops[j]
      BY <1>2 DEF Live, Moves
    <2> QED BY <1>3, <1>4, <2>6, <2>7 DEF AttBytes, Bytes
  <1>9. CASE ~(user /\ a \in Existing)
    <2>1. user => usage' = [usage EXCEPT !.att = Sub(@, 0)]
      BY <1>5, <1>9 DEF DeleteRow, ReleasedFor, Existing
    <2>2. user => usage'.att = usage.att
      <3>1. [usage EXCEPT !.att = Sub(@, 0)].att = Sub(usage.att, 0)
            /\ Sub(usage.att, 0) = usage.att
        BY <1>1, UsageUpdates, SubNat
      <3> QED BY <2>1, <3>1
    <2>3. ~user => usage' = [usage EXCEPT !.att = @]
      BY DEF DeleteRow
    <2>4. usage'.att = usage.att
      BY <1>1, <2>2, <2>3 DEF Usage
    <2> QED BY <1>1, <1>2, <1>4, <1>6, <2>4, AttBytesFrame
  <1> QED BY <1>8, <1>9

(* The other steps release no attachment bytes.                            *)
LEMMA RestAttBytes ==
  ASSUME TypeOK, Shapes, AttBytes, NEW i \in Slot,
         \/ ClaimDownload(i) \/ OpenDownload(i) \/ EndStream(i) \/ ClaimView(i)
         \/ Erase(i) \/ EraseFile(i)
         \/ Unlink(i) \/ CleanupFails(i) \/ NextPass(i) \/ ClearRaw(i) \/ PurgeLog(i) \/ PurgeLinks(i)
         \/ ReadFile(i) \/ ReplaceFile(i) \/ RecordKey(i) \/ ClearNote(i) \/ NextPhase(i)
  PROVE  AttBytes'
  <1>1. log \in LogRow /\ usage \in Usage
    BY TypeParts
  <1>2. CASE ClaimDownload(i) \/ OpenDownload(i) \/ EndStream(i) \/ ClaimView(i) \/ EraseFile(i)
    <2>1. UNCHANGED <<user, log, rows, usage>>
      BY <1>2 DEF ClaimDownload, OpenDownload, EndStream, ClaimView, EraseFile, store, owner
    <2>2. Existing' = Existing
      BY <2>1 DEF Existing, HasRow
    <2>3. Moves(i) /\ ops'[i].kind \in {"download", "view", "erase"}
      BY <1>2, ClaimDownloadDoes, OpenDownloadDoes, EndStreamDoes, ClaimViewDoes, EraseFileDoes
      DEF Goes, Ends
    <2> QED BY <2>1, <2>2, <2>3, FreshKept, AttBytesFrame
  <1>3. CASE Erase(i)
    <2>1. ~user'
      BY <1>3 DEF Erase
    <2>2. Moves(i) /\ ops'[i].kind = "erase"
      BY <1>3, EraseDoes DEF Goes
    <2>3. \A j \in Live("prep")' : j \in Live("prep") /\ ops'[j] = ops[j]
      BY <2>2 DEF Live, Moves
    <2> QED BY <2>1, <2>3 DEF AttBytes, Bytes
  <1>4. CASE \/ Unlink(i) \/ CleanupFails(i) \/ NextPass(i) \/ ClearRaw(i) \/ PurgeLog(i)
             \/ PurgeLinks(i)
    <2>1. UNCHANGED <<user, rows>>
      BY <1>4 DEF Unlink, CleanupFails, NextPass, ClearRaw, PurgeLog, PurgeLinks, store, owner
    <2>2. log'.stage = log.stage
      BY <1>1, <1>4 DEF Unlink, CleanupFails, NextPass, ClearRaw, PurgeLog, PurgeLinks, store,
         LogRow
    <2>3. usage'.att = usage.att
      <3>1. CASE ClearRaw(i)
        <4>1. UNCHANGED usage \/ usage' = [usage EXCEPT !.raw = Sub(@, 1)]
          BY <3>1 DEF ClearRaw
        <4>2. [usage EXCEPT !.raw = Sub(@, 1)].att = usage.att
          BY UsageUpdates
        <4> QED BY <4>1, <4>2
      <3>2. CASE ~ClearRaw(i)
        BY <1>4, <3>2 DEF Unlink, CleanupFails, NextPass, PurgeLog, PurgeLinks, owner
      <3> QED BY <3>1, <3>2
    <2>4. Existing' = Existing
      BY <2>1 DEF Existing, HasRow
    <2>5. Moves(i) /\ ops'[i].kind = "cleanup"
      BY <1>4, UnlinkDoes, CleanupFailsDoes, NextPassDoes, ClearRawDoes, PurgeLogDoes,
         PurgeLinksDoes DEF Goes
    <2> QED BY <2>1, <2>2, <2>3, <2>4, <2>5, FreshKept, AttBytesFrame
  <1>5. CASE ReadFile(i) \/ ReplaceFile(i) \/ RecordKey(i) \/ ClearNote(i) \/ NextPhase(i)
    <2>1. UNCHANGED <<user, usage>>
      BY <1>5 DEF ReadFile, ReplaceFile, RecordKey, ClearNote, NextPhase, owner
    <2>2. Existing' = Existing /\ log'.stage = log.stage
      <3>1. CASE RecordKey(i)
        BY <3>1, RecordedKey
      <3>2. CASE ~RecordKey(i)
        BY <1>5, <3>2 DEF ReadFile, ReplaceFile, ClearNote, NextPhase, store, Existing, HasRow
      <3> QED BY <3>1, <3>2
    <2>3. Moves(i) /\ ops'[i].kind = "backfill"
      BY <1>5, ReadFileDoes, ReplaceFileDoes, RecordKeyDoes, ClearNoteDoes, NextPhaseDoes DEF Goes
    <2> QED BY <2>1, <2>2, <2>3, FreshKept, AttBytesFrame
  <1> QED BY <1>2, <1>3, <1>4, <1>5

(* Interruptions release nothing.                                          *)
LEMMA OtherAttBytes ==
  ASSUME TypeOK, AttBytes,
         \/ Settle \/ RecoverPending \/ Tick \/ Crash \/ BackfillStops \/ UNCHANGED vars
  PROVE  AttBytes'
  <1>1. log \in LogRow
    BY TypeParts
  <1>2. UNCHANGED <<user, rows, usage>> /\ log'.stage = log.stage
    BY <1>1 DEF Settle, RecoverPending, Tick, Crash, BackfillStops, vars, store, owner, LogRow
  <1>3. \A j \in Slot : StopsOrStays(j)
    <2>1. CASE Crash \/ BackfillStops
      BY <2>1, StoppedDoes DEF Crash, BackfillStops
    <2>2. CASE UNCHANGED ops
      BY <2>2 DEF StopsOrStays
    <2> QED BY <2>1, <2>2 DEF Settle, RecoverPending, Tick, vars
  <1>4. \A j \in Live("prep")' : j \in Live("prep") /\ ops'[j] = ops[j]
    BY <1>3 DEF Live, StopsOrStays
  <1>5. Fresh' => Fresh
    BY <1>2, <1>4 DEF Fresh
  <1>6. Existing' = Existing
    BY <1>2 DEF Existing, HasRow
  <1> QED BY <1>2, <1>4, <1>5, <1>6 DEF AttBytes, Bytes

(* Every step keeps what is stored charged.                                *)
LEMMA AttBytesStep ==
  ASSUME Core, AttBytes, [Next]_vars
  PROVE  AttBytes'
  BY BeginAttBytes, PrepAttBytes, CommitAttBytes, DeleteAttBytes, RestAttBytes, OtherAttBytes
  DEF Core, Next

(* Initially every attachment is charged.                                  *)
LEMMA InitAttBytes ==
  ASSUME Init
  PROVE  AttBytes
  <1>1. \A i \in Slot : ops[i] = Idle
    BY DEF Init
  <1>2. usage.att = Elsewhere + Bytes(Att)
    BY DEF Init
  <1>3. Existing \in SUBSET Att
    BY DEF Existing
  <1>4. Bytes(Existing) \in Nat /\ Bytes(Att) \in Nat /\ Bytes(Existing) <= Bytes(Att)
    BY <1>3, FewerBytes
  <1>5. Live("prep") = {}
    BY <1>1 DEF Live, Idle
  <1> QED BY <1>2, <1>4, <1>5 DEF AttBytes

(* Whether the raw mail is charged.                                        *)
RawCharge == IF log.here /\ log.raw THEN 1 ELSE 0

(* A step that leaves the raw mail's path and charge alone.                *)
LEMMA RawBytesFrame ==
  ASSUME RawBytes, NEW i \in Slot, Moves(i), overlap' = overlap, user' => user,
         usage'.raw = usage.raw, RawCharge' = RawCharge, log'.here => log.here,
         log'.here => log'.raw = log.raw,
         ops'[i].kind = "cleanup" /\ ops'[i].pc # "end" => ops[i].kind = "cleanup"
         /\ ops[i].pc # "end",
         RawInHand(ops'[i]) /\ log'.here => log'.raw \/ RawInHand(ops[i])
  PROVE  RawBytes'
  <1>1. SUFFICES ASSUME ~overlap PROVE RawBytes'
    BY DEF RawBytes
  <1>2. user' => usage'.raw = Elsewhere + RawCharge'
    BY <1>1 DEF RawBytes, RawCharge
  <1>3. \A j, k \in Live("cleanup")' : j = k
    BY <1>1 DEF RawBytes, Live, Moves
  <1>4. \A j \in Slot : RawInHand(ops'[j]) /\ log'.here => log'.raw
    BY <1>1 DEF RawBytes, Moves
  <1> QED BY <1>2, <1>3, <1>4 DEF RawBytes, RawCharge

(* Two cleanups at once are an overlap.                                    *)
LEMMA BeginRawBytes ==
  ASSUME TypeOK, RawBytes, NEW i \in Slot,
         \/ BeginPrep(i) \/ Resend(i) \/ BeginDownload(i) \/ BeginView(i) \/ BeginCleanup(i)
         \/ BeginErase(i) \/ BeginBackfill(i)
  PROVE  RawBytes'
  <1>0. log \in LogRow
    BY TypeParts
  <1>1. UNCHANGED <<user, usage>>
    BY DEF BeginPrep, Resend, BeginDownload, BeginView, BeginCleanup, BeginErase, BeginBackfill,
       owner
  <1>2. log'.here = log.here /\ log'.raw = log.raw
    BY <1>0 DEF BeginPrep, Resend, BeginDownload, BeginView, BeginCleanup, BeginErase,
       BeginBackfill,
                store, LogRow
  <1>3. RawCharge' = RawCharge
    BY <1>2 DEF RawCharge
  <1>4. CASE BeginCleanup(i)
    <2>1. Moves(i) /\ ops'[i].kind = "cleanup" /\ ops'[i].pc = "att" /\ ops[i].kind = "idle"
      BY <1>4, BeginCleanupDoes DEF Begins
    <2>2. ~overlap' => ~overlap /\ Live("cleanup") = {}
      BY <1>4 DEF BeginCleanup
    <2>3. SUFFICES ASSUME ~overlap' PROVE RawBytes'
      BY DEF RawBytes
    <2>4. user' => usage'.raw = Elsewhere + RawCharge'
      BY <1>1, <1>3, <2>2, <2>3 DEF RawBytes, RawCharge
    <2>5. \A j, k \in Live("cleanup")' : j = k
      BY <2>1, <2>2, <2>3 DEF Live, Moves
    <2>6. \A j \in Slot : RawInHand(ops'[j]) /\ log'.here => log'.raw
      BY <1>2, <2>1, <2>2, <2>3 DEF RawBytes, RawInHand, Moves
    <2> QED BY <2>4, <2>5, <2>6 DEF RawBytes, RawCharge
  <1>5. CASE ~BeginCleanup(i)
    <2>1. Moves(i) /\ ops'[i].kind # "cleanup"
      BY <1>5, BeginPrepDoes, ResendDoes, BeginDownloadDoes, BeginViewDoes, BeginEraseDoes,
         BeginBackfillDoes DEF Begins
    <2>2. UNCHANGED overlap
      BY <1>5 DEF BeginPrep, Resend, BeginDownload, BeginView, BeginErase, BeginBackfill, clock
    <2>3. ~RawInHand(ops'[i])
      BY <2>1 DEF RawInHand
    <2> QED BY <1>1, <1>2, <1>3, <2>1, <2>2, <2>3, RawBytesFrame
  <1> QED BY <1>4, <1>5

(* Preparations, downloads, views, erasures and backfills.                 *)
LEMMA RestRawBytes ==
  ASSUME TypeOK, Shapes, RawBytes, NEW i \in Slot,
         \/ LockPrep(i) \/ WriteAttachment(i) \/ InsertAttachment(i) \/ CommitPrep(i)
         \/ ClaimDownload(i) \/ OpenDownload(i) \/ EndStream(i) \/ ClaimView(i) \/ EraseFile(i)
         \/ ReadFile(i) \/ ReplaceFile(i) \/ RecordKey(i) \/ ClearNote(i) \/ NextPhase(i)
  PROVE  RawBytes'
  <1>1. UNCHANGED <<user, overlap>>
    BY DEF LockPrep, WriteAttachment, InsertAttachment, CommitPrep, ClaimDownload, OpenDownload,
           EndStream, ClaimView, EraseFile, ReadFile, ReplaceFile, RecordKey, ClearNote, NextPhase,
           owner, clock
  <1>2. usage'.raw = usage.raw
    <2>1. CASE CommitPrep(i)
      <3>1. UNCHANGED usage \/ usage' = [usage EXCEPT !.att = Sub(@, Size * ops[i].n)]
        BY <2>1, CommittedRows
      <3>2. ops[i].n \in Nat
        BY DEF TypeOK, Operation
      <3>3. Size * ops[i].n \in Nat
        BY <3>2
      <3>4. [usage EXCEPT !.att = Sub(@, Size * ops[i].n)].raw = usage.raw
        BY <3>3, UsageUpdates
      <3> QED BY <3>1, <3>4
    <2>2. CASE ~CommitPrep(i)
      BY <2>2 DEF LockPrep, WriteAttachment, InsertAttachment, ClaimDownload, OpenDownload,
           EndStream, ClaimView, EraseFile, ReadFile, ReplaceFile, RecordKey, ClearNote, NextPhase,
           owner
    <2> QED BY <2>1, <2>2
  <1>3. log'.here = log.here /\ log'.raw = log.raw
    <2>1. CASE RecordKey(i)
      BY <2>1, RecordedKey
    <2>2. CASE ~RecordKey(i)
      BY <2>2 DEF LockPrep, WriteAttachment, InsertAttachment, CommitPrep, ClaimDownload,
           OpenDownload, EndStream, ClaimView, EraseFile, ReadFile, ReplaceFile, ClearNote,
           NextPhase, store
    <2> QED BY <2>1, <2>2
  <1>4. Moves(i) /\ ops'[i].kind # "cleanup"
    <2>1. CASE LockPrep(i) \/ WriteAttachment(i) \/ InsertAttachment(i) \/ CommitPrep(i)
      BY <2>1, LockPrepDoes, WriteAttachmentDoes, InsertAttachmentDoes, CommitPrepDoes DEF Goes,
         Ends
    <2>2. CASE ClaimDownload(i) \/ OpenDownload(i) \/ EndStream(i) \/ ClaimView(i) \/ EraseFile(i)
      BY <2>2, ClaimDownloadDoes, OpenDownloadDoes, EndStreamDoes, ClaimViewDoes, EraseFileDoes
      DEF Goes, Ends
    <2>3. CASE ReadFile(i) \/ ReplaceFile(i) \/ RecordKey(i) \/ ClearNote(i) \/ NextPhase(i)
      BY <2>3, ReadFileDoes, ReplaceFileDoes, RecordKeyDoes, ClearNoteDoes, NextPhaseDoes DEF Goes
    <2> QED BY <2>1, <2>2, <2>3
  <1>5. RawCharge' = RawCharge /\ ~RawInHand(ops'[i])
    BY <1>3, <1>4 DEF RawCharge, RawInHand
  <1> QED BY <1>1, <1>2, <1>3, <1>4, <1>5, RawBytesFrame

(* The erasure takes the log along with the account.                       *)
LEMMA EraseRawBytes ==
  ASSUME TypeOK, RawBytes, NEW i \in Slot, Erase(i)
  PROVE  RawBytes'
  <1>1. Moves(i) /\ ops'[i].kind = "erase"
    BY EraseDoes DEF Goes
  <1>2. log \in LogRow
    BY TypeParts
  <1>3. ~user' /\ ~log'.here /\ overlap' = overlap
    BY <1>2 DEF Erase, LogRow, clock
  <1>4. ~overlap => \A j, k \in Live("cleanup")' : j = k
    BY <1>1 DEF RawBytes, Live, Moves
  <1> QED BY <1>3, <1>4 DEF RawBytes

(* One cleanup at a time clears the path it found set, once.               *)
LEMMA ClearRawBytes ==
  ASSUME TypeOK, Shapes, RawBytes, NEW i \in Slot, ClearRaw(i)
  PROVE  RawBytes'
  <1>1. SUFFICES ASSUME ~overlap PROVE RawBytes'
    BY DEF ClearRaw, clock, RawBytes
  <1>2. /\ Moves(i) /\ ops[i].kind = "cleanup" /\ ops[i].pc = "rawTx" /\ ops'[i].kind = "cleanup"
        /\ ops'[i].pc = "raw" /\ ops'[i].todo = ops[i].todo
    BY ClearRawDoes DEF Goes
  <1>3. ops[i].todo = {}
    BY <1>2 DEF Shapes, Shape, CleanupShape
  <1>4. RawInHand(ops[i]) /\ ~RawInHand(ops'[i])
    BY <1>2, <1>3 DEF RawInHand
  <1>5. log \in LogRow /\ usage \in Usage /\ UNCHANGED user
    BY TypeParts DEF ClearRaw
  <1>6. \A j, k \in Live("cleanup")' : j = k
    BY <1>1, <1>2 DEF RawBytes, Live, Moves
  <1>7. \A j \in Slot : ~RawInHand(ops'[j])
    <2>1. ASSUME NEW j \in Slot, j # i PROVE ~RawInHand(ops'[j])
      <3>1. i \in Live("cleanup") /\ ops'[j] = ops[j]
        BY <1>2, <2>1 DEF Live, Moves
      <3>2. RawInHand(ops[j]) => j \in Live("cleanup")
        BY DEF RawInHand, Live
      <3> QED BY <1>1, <2>1, <3>1, <3>2 DEF RawBytes
    <2> QED BY <1>4, <2>1
  <1>8. user' => usage'.raw = Elsewhere + RawCharge'
    <2>1. CASE log.here
      <3>1. log.raw
        BY <1>1, <1>4, <2>1 DEF RawBytes
      <3>2. ~log'.raw
        BY <1>5, <2>1 DEF ClearRaw, LogRow
      <3>3. usage' = [usage EXCEPT !.raw = Sub(@, 1)]
        BY <2>1 DEF ClearRaw
      <3>4. usage'.raw = Sub(usage.raw, 1)
        BY <3>3, UsageUpdates
      <3>5. user => usage.raw = Elsewhere + 1
        BY <1>1, <2>1, <3>1 DEF RawBytes
      <3>6. Sub(Elsewhere + 1, 1) = Elsewhere
        BY DEF Sub
      <3>7. RawCharge' = 0
        BY <3>2 DEF RawCharge
      <3> QED BY <1>5, <3>4, <3>5, <3>6, <3>7
    <2>2. CASE ~log.here
      <3>1. UNCHANGED <<log, usage>>
        BY <2>2 DEF ClearRaw
      <3> QED BY <1>1, <1>5, <3>1 DEF RawBytes, RawCharge
    <2> QED BY <2>1, <2>2
  <1> QED BY <1>6, <1>7, <1>8 DEF RawBytes, RawCharge

(* The cleanup's other steps.                                              *)
LEMMA CleanupRawBytes ==
  ASSUME TypeOK, Shapes, RawBytes, NEW i \in Slot,
         \/ Unlink(i) \/ DeleteRow(i) \/ CleanupFails(i) \/ NextPass(i) \/ PurgeLog(i) \/ PurgeLinks(i)
  PROVE  RawBytes'
  <1>0. log \in LogRow /\ usage \in Usage
    BY TypeParts
  <1>1. Moves(i) /\ ops[i].kind = "cleanup" /\ ops'[i].kind = "cleanup" /\ ops[i].pc # "end"
    <2>1. CASE Unlink(i) \/ DeleteRow(i) \/ CleanupFails(i)
      BY <2>1, UnlinkDoes, DeleteRowDoes, CleanupFailsDoes DEF Goes
    <2>2. CASE NextPass(i) \/ PurgeLog(i) \/ PurgeLinks(i)
      BY <2>2, NextPassDoes, PurgeLogDoes, PurgeLinksDoes DEF Goes
    <2> QED BY <2>1, <2>2
  <1>2. UNCHANGED <<user, overlap>>
    BY DEF Unlink, DeleteRow, CleanupFails, NextPass, PurgeLog, PurgeLinks, owner, clock
  <1>3. usage'.raw = usage.raw
    <2>1. CASE DeleteRow(i)
      <3>1. PICK x : usage' = [usage EXCEPT !.att = x]
        BY <2>1 DEF DeleteRow
      <3> QED BY <1>0, <3>1 DEF Usage
    <2>2. CASE ~DeleteRow(i)
      BY <2>2 DEF Unlink, CleanupFails, NextPass, PurgeLog, PurgeLinks, owner
    <2> QED BY <2>1, <2>2
  <1>4. log'.raw = log.raw /\ (log'.here => log.here) /\ (log.here /\ ~log'.here => ~log.raw)
    <2>1. CASE PurgeLog(i)
      BY <1>0, <2>1 DEF PurgeLog, LogRow
    <2>2. CASE ~PurgeLog(i)
      BY <2>2 DEF Unlink, DeleteRow, CleanupFails, NextPass, PurgeLinks, store
    <2> QED BY <2>1, <2>2
  <1>5. RawCharge' = RawCharge
    BY <1>4 DEF RawCharge
  <1>6. CleanupShape(ops[i])
    BY <1>1 DEF Shapes, Shape
  <1>7. RawInHand(ops'[i]) => log.raw \/ RawInHand(ops[i])
    <2>1. CASE Unlink(i)
      <3>1. PICK p \in ops[i].todo :
              /\ ops[i].pc \in {"att", "raw"} /\ ops'[i].todo = ops[i].todo \ {p}
              /\ \/ Goes(i, "cleanup", ops[i].pc, IF ops[i].pc = "att" THEN "attTx" ELSE "rawTx")
                 \/ Goes(i, "cleanup", ops[i].pc, ops[i].pc)
        BY <2>1, UnlinkDoes
      <3> QED BY <1>6, <3>1 DEF Goes, RawInHand, CleanupShape
    <2>2. CASE DeleteRow(i) \/ CleanupFails(i) \/ NextPass(i)
      BY <2>2, DeleteRowDoes, CleanupFailsDoes, NextPassDoes DEF Goes, RawInHand
    <2>3. CASE PurgeLog(i) \/ PurgeLinks(i)
      BY <2>3, PurgeLogDoes, PurgeLinksDoes DEF Goes, RawInHand
    <2> QED BY <2>1, <2>2, <2>3
  <1> QED BY <1>1, <1>2, <1>3, <1>4, <1>5, <1>7, RawBytesFrame

(* Steps of no operation, and interruptions.                               *)
LEMMA OtherRawBytes ==
  ASSUME TypeOK, RawBytes,
         \/ Settle \/ RecoverPending \/ Tick \/ Crash \/ BackfillStops \/ UNCHANGED vars
  PROVE  RawBytes'
  <1>1. log \in LogRow
    BY TypeParts
  <1>2. UNCHANGED <<user, usage, overlap>> /\ log'.here = log.here /\ log'.raw = log.raw
    BY <1>1 DEF Settle, RecoverPending, Tick, Crash, BackfillStops, vars, store, owner, clock,
       LogRow
  <1>3. \A j \in Slot : StopsOrStays(j)
    <2>1. CASE Crash \/ BackfillStops
      BY <2>1, StoppedDoes DEF Crash, BackfillStops
    <2>2. CASE UNCHANGED ops
      BY <2>2 DEF StopsOrStays
    <2> QED BY <2>1, <2>2 DEF Settle, RecoverPending, Tick, vars
  <1>4. \A j \in Live("cleanup")' : j \in Live("cleanup")
    BY <1>3 DEF Live, StopsOrStays
  <1>5. \A j \in Slot : RawInHand(ops'[j]) => RawInHand(ops[j])
    BY <1>3 DEF StopsOrStays, RawInHand
  <1> QED BY <1>2, <1>4, <1>5 DEF RawBytes

(* Every step keeps the raw mail's charge exact.                           *)
LEMMA RawBytesStep ==
  ASSUME Core, RawBytes, [Next]_vars
  PROVE  RawBytes'
  BY BeginRawBytes, RestRawBytes, EraseRawBytes, ClearRawBytes, CleanupRawBytes, OtherRawBytes
  DEF Core, Next

(* Initially the raw mail is charged.                                      *)
LEMMA InitRawBytes ==
  ASSUME Init
  PROVE  RawBytes
  <1>1. \A i \in Slot : ops[i] = Idle
    BY DEF Init
  <1>2. usage.raw = Elsewhere + 1 /\ log.here /\ log.raw
    BY DEF Init
  <1> QED BY <1>1, <1>2 DEF RawBytes, Live, RawInHand, Idle

-----------------------------------------------------------------------------
(* Bytes served.                                                           *)

(* Slots are finitely many.                                                *)
LEMMA FewerSlots ==
  ASSUME NEW T \in SUBSET Slot, NEW S \in SUBSET T
  PROVE  /\ IsFiniteSet(S) /\ IsFiniteSet(T) /\ Cardinality(S) \in Nat /\ Cardinality(T) \in Nat
         /\ Cardinality(S) <= Cardinality(T)
         /\ Bytes(S) \in Nat /\ Bytes(T) \in Nat /\ Bytes(S) <= Bytes(T)
  <1>1. IsFiniteSet(Slot)
    BY FS_Interval DEF Slot
  <1>2. IsFiniteSet(T)
    BY <1>1, FS_Subset
  <1>3. IsFiniteSet(S) /\ Cardinality(S) <= Cardinality(T)
    BY <1>2, FS_Subset
  <1>4. Cardinality(S) \in Nat /\ Cardinality(T) \in Nat
    BY <1>2, <1>3, FS_CardinalityType
  <1> QED BY <1>2, <1>3, <1>4, MoreBytes DEF Bytes

(* One slot more.                                                          *)
LEMMA OneMoreSlot ==
  ASSUME NEW T \in SUBSET Slot, NEW i \in Slot, i \notin T
  PROVE  Cardinality(T \cup {i}) = Cardinality(T) + 1 /\ Bytes(T \cup {i}) = Bytes(T) + Size
  <1>1. IsFiniteSet(T) /\ Cardinality(T) \in Nat
    BY FewerSlots
  <1>2. Cardinality(T \cup {i}) = Cardinality(T) + 1
    BY <1>1, FS_AddElement
  <1>3. Size * (Cardinality(T) + 1) = Size * Cardinality(T) + Size
    BY <1>1, SplitBytes
  <1> QED BY <1>2, <1>3 DEF Bytes

(* A step that serves, charges and releases nothing.                       *)
LEMMA EgressFrame ==
  ASSUME TypeOK, EgressBytes, user' => user, served' = served, egress' = egress,
         Opening' \subseteq Opening
  PROVE  EgressBytes'
  <1>1. Opening \in SUBSET Slot /\ Opening' \in SUBSET Opening
    BY DEF Opening
  <1>2. Bytes(Opening') \in Nat /\ Bytes(Opening) \in Nat /\ Bytes(Opening') <= Bytes(Opening)
    BY <1>1, FewerSlots
  <1>3. served \in Int /\ egress \in Nat
    BY DEF TypeOK
  <1>4. user' => served' + Bytes(Opening') <= egress' /\ egress' <= EgressLimit
    BY <1>2, <1>3 DEF EgressBytes
  <1> QED BY <1>4 DEF EgressBytes, Bytes

(* A release leaves what was served and is reserved charged.               *)
LEMMA ReleaseKeeps ==
  ASSUME NEW x \in Nat, NEW k \in Int, egress \in Nat, Release(x), k + x <= egress,
         egress <= EgressLimit
  PROVE  k <= egress' /\ egress' <= EgressLimit
  <1>1. egress' = egress \/ egress' = Sub(egress, x)
    BY DEF Release
  <1>2. Sub(egress, x) \in Nat /\ Sub(egress, x) <= egress /\ Sub(egress, x) >= egress - x
    BY SubNat
  <1>3. CASE egress' = egress
    BY <1>3
  <1>4. CASE egress' = Sub(egress, x)
    BY <1>2, <1>4
  <1> QED BY <1>1, <1>3, <1>4

(* A download reserves its bytes before it opens the file and gives them   *)
(* back when it does not.                                                  *)
LEMMA DownloadEgress ==
  ASSUME TypeOK, EgressBytes, NEW i \in Slot, ClaimDownload(i) \/ OpenDownload(i)
  PROVE  EgressBytes'
  <1>0. UNCHANGED user /\ served \in Int /\ egress \in Nat
    BY DEF TypeOK, ClaimDownload, OpenDownload
  <1>1. CASE ClaimDownload(i)
    <2>1. UNCHANGED served
      BY <1>1 DEF ClaimDownload
    <2>2. CASE Allowed(Size) /\ Unclaimed(LinkOf(i))
      <3>1. egress' = egress + Size /\ egress + Size <= EgressLimit
        BY <1>1, <2>2 DEF ClaimDownload, Allowed
      <3>2. Step(i, [ops[i] EXCEPT !.pc = "open"])
        BY <1>1, <2>2 DEF ClaimDownload
      <3>3. Moves(i) /\ ops[i].pc = "claim"
        BY <1>1, ClaimDownloadDoes DEF Goes, Ends
      <3>4. i \notin Opening /\ Opening \in SUBSET Slot /\ Opening' \subseteq Opening \cup {i}
        BY <3>3 DEF Opening, At, Moves
      <3>5. Bytes(Opening \cup {i}) = Bytes(Opening) + Size
        BY <3>4, OneMoreSlot
      <3>6. Opening' \in SUBSET (Opening \cup {i}) /\ Opening \cup {i} \in SUBSET Slot
        BY <3>4
      <3>7. /\ Bytes(Opening') \in Nat /\ Bytes(Opening) \in Nat
            /\ Bytes(Opening') <= Bytes(Opening \cup {i})
        BY <3>4, <3>6, FewerSlots
      <3>8. user' => served' + Bytes(Opening') <= egress' /\ egress' <= EgressLimit
        BY <1>0, <2>1, <3>1, <3>5, <3>7 DEF EgressBytes
      <3> QED BY <3>8 DEF EgressBytes, Bytes
    <2>3. CASE ~(Allowed(Size) /\ Unclaimed(LinkOf(i)))
      <3>1. Finish(i, 0) /\ UNCHANGED egress
        BY <1>1, <2>3 DEF ClaimDownload
      <3>2. Ends(i, ops[i].kind, ops[i].pc, 0)
        BY <3>1, FinishEnds
      <3>3. Opening' \subseteq Opening
        BY <3>2 DEF Ends, Goes, Moves, Opening, At
      <3> QED BY <1>0, <2>1, <3>1, <3>3, EgressFrame
    <2> QED BY <2>2, <2>3
  <1>2. CASE OpenDownload(i)
    <2>1. /\ Moves(i) /\ ops[i].kind = "download" /\ ops[i].pc = "open"
          /\ ops'[i].pc \in {"stream", "end"}
      BY <1>2, OpenDownloadDoes DEF Goes, Ends
    <2>2. i \notin Opening' /\ Opening' \in SUBSET Slot /\ Opening' \cup {i} = Opening
      BY <2>1 DEF Opening, At, Moves
    <2>3. Bytes(Opening) = Bytes(Opening') + Size /\ Bytes(Opening') \in Nat
      <3>1. Bytes(Opening' \cup {i}) = Bytes(Opening') + Size
        BY <2>2, OneMoreSlot
      <3>2. Bytes(Opening') \in Nat
        BY <2>2, FewerSlots
      <3> QED BY <2>2, <3>1, <3>2
    <2>4. user' => served' + Bytes(Opening') <= egress' /\ egress' <= EgressLimit
      <3>1. CASE served' = served + Size /\ UNCHANGED egress
        BY <1>0, <2>3, <3>1 DEF EgressBytes
      <3>2. CASE Release(Size) /\ UNCHANGED served
        <4>1. SUFFICES ASSUME user PROVE served' + Bytes(Opening') <= egress'
                              /\ egress' <= EgressLimit
          BY <1>0
        <4>2. PICK k \in Int : k = served + Bytes(Opening')
          BY <1>0, <2>3
        <4>3. k + Size <= egress /\ egress <= EgressLimit
          BY <1>0, <2>3, <4>1, <4>2 DEF EgressBytes
        <4> QED BY <1>0, <3>2, <4>2, <4>3, ReleaseKeeps
      <3> QED BY <1>2, <3>1, <3>2 DEF OpenDownload
    <2> QED BY <2>4 DEF EgressBytes, Bytes
  <1> QED BY <1>1, <1>2

(* A stream that is closed early gives back what it did not send.          *)
LEMMA StreamEgress ==
  ASSUME TypeOK, EgressBytes, NEW i \in Slot, EndStream(i)
  PROVE  EgressBytes'
  <1>0. UNCHANGED user /\ served \in Int /\ egress \in Nat /\ ops[i].got \in Nat
    BY DEF TypeOK, EndStream, Operation
  <1>1. PICK k \in {"download", "view"}, sent \in Nat :
           /\ Ends(i, k, "stream", sent) /\ sent <= ops[i].got
           /\ served' = served - (ops[i].got - sent)
           /\ UNCHANGED egress \/ Release(ops[i].got - sent)
    BY EndStreamDoes
  <1>2. Opening' \subseteq Opening /\ Opening' \in SUBSET Slot /\ Opening \in SUBSET Slot
    BY <1>1 DEF Ends, Goes, Moves, Opening, At
  <1>3. Bytes(Opening') \in Nat /\ Bytes(Opening) \in Nat /\ Bytes(Opening') <= Bytes(Opening)
    BY <1>2, FewerSlots
  <1>4. PICK x \in Nat : x = ops[i].got - sent
    BY <1>0, <1>1
  <1>5. PICK t \in Int : t = served' + Bytes(Opening')
    BY <1>0, <1>1, <1>3, <1>4
  <1>6. user => t + x <= egress /\ egress <= EgressLimit
    BY <1>0, <1>1, <1>3, <1>4, <1>5 DEF EgressBytes
  <1>7. user => t <= egress' /\ egress' <= EgressLimit
    <2>1. CASE UNCHANGED egress
      BY <1>0, <1>6, <2>1
    <2>2. CASE Release(x)
      BY <1>0, <1>6, <2>2, ReleaseKeeps
    <2> QED BY <1>1, <1>4, <2>1, <2>2
  <1> QED BY <1>0, <1>5, <1>7 DEF EgressBytes, Bytes

(* A view is charged in the transaction that claims it.                    *)
LEMMA ViewEgress ==
  ASSUME TypeOK, EgressBytes, NEW i \in Slot, ClaimView(i)
  PROVE  EgressBytes'
  <1>0. UNCHANGED user /\ served \in Int /\ egress \in Nat
    BY DEF TypeOK, ClaimView
  <1>1. Moves(i) /\ ops'[i].kind = "view"
    BY ClaimViewDoes DEF Goes, Ends
  <1>2. Opening' \subseteq Opening /\ Opening' \in SUBSET Slot /\ Opening \in SUBSET Slot
    BY <1>1 DEF Moves, Opening, At
  <1>3. Bytes(Opening') \in Nat /\ Bytes(Opening) \in Nat /\ Bytes(Opening') <= Bytes(Opening)
    BY <1>2, FewerSlots
  <1>4. \/ UNCHANGED <<egress, served>>
        \/ /\ egress' = egress + ViewSize /\ served' = served + ViewSize
           /\ egress + ViewSize <= EgressLimit
    BY DEF ClaimView, Allowed
  <1>5. user' => served' + Bytes(Opening') <= egress' /\ egress' <= EgressLimit
    BY <1>0, <1>3, <1>4 DEF EgressBytes
  <1> QED BY <1>5 DEF EgressBytes, Bytes

(* The other steps serve nothing.                                          *)
LEMMA RestEgress ==
  ASSUME TypeOK, EgressBytes, NEW i \in Slot,
         \/ BeginPrep(i) \/ Resend(i) \/ BeginDownload(i) \/ BeginView(i) \/ BeginCleanup(i)
         \/ BeginErase(i) \/ BeginBackfill(i)
         \/ LockPrep(i) \/ WriteAttachment(i) \/ InsertAttachment(i) \/ CommitPrep(i)
         \/ Unlink(i) \/ DeleteRow(i) \/ CleanupFails(i) \/ NextPass(i)
         \/ ClearRaw(i) \/ PurgeLog(i) \/ PurgeLinks(i) \/ EraseFile(i)
         \/ ReadFile(i) \/ ReplaceFile(i) \/ RecordKey(i) \/ ClearNote(i) \/ NextPhase(i)
  PROVE  EgressBytes'
  <1>1. UNCHANGED <<user, egress, served>>
    BY DEF BeginPrep, Resend, BeginDownload, BeginView, BeginCleanup, BeginErase, BeginBackfill,
           LockPrep, WriteAttachment, InsertAttachment, CommitPrep, Unlink, DeleteRow, CleanupFails,
           NextPass, ClearRaw, PurgeLog, PurgeLinks, EraseFile, ReadFile, ReplaceFile, RecordKey,
           ClearNote, NextPhase, owner
  <1>2. Moves(i) /\ (ops'[i].kind = "download" => ops'[i].pc = "claim")
    <2>1. CASE \/ BeginPrep(i) \/ Resend(i) \/ BeginDownload(i) \/ BeginView(i) \/ BeginCleanup(i)
               \/ BeginErase(i) \/ BeginBackfill(i)
      BY <2>1, BeginPrepDoes, ResendDoes, BeginDownloadDoes, BeginViewDoes, BeginCleanupDoes,
         BeginEraseDoes, BeginBackfillDoes DEF Begins
    <2>2. CASE LockPrep(i) \/ WriteAttachment(i) \/ InsertAttachment(i) \/ CommitPrep(i)
      BY <2>2, LockPrepDoes, WriteAttachmentDoes, InsertAttachmentDoes, CommitPrepDoes DEF Goes,
         Ends
    <2>3. CASE Unlink(i) \/ DeleteRow(i) \/ CleanupFails(i) \/ NextPass(i)
      BY <2>3, UnlinkDoes, DeleteRowDoes, CleanupFailsDoes, NextPassDoes DEF Goes
    <2>4. CASE ClearRaw(i) \/ PurgeLog(i) \/ PurgeLinks(i) \/ EraseFile(i)
      BY <2>4, ClearRawDoes, PurgeLogDoes, PurgeLinksDoes, EraseFileDoes DEF Goes, Ends
    <2>5. CASE ReadFile(i) \/ ReplaceFile(i) \/ RecordKey(i) \/ ClearNote(i) \/ NextPhase(i)
      BY <2>5, ReadFileDoes, ReplaceFileDoes, RecordKeyDoes, ClearNoteDoes, NextPhaseDoes DEF Goes
    <2> QED BY <2>1, <2>2, <2>3, <2>4, <2>5
  <1>3. Opening' \subseteq Opening
    BY <1>2 DEF Moves, Opening, At
  <1> QED BY <1>1, <1>3, EgressFrame

(* Interruptions leave reservations charged.                               *)
LEMMA OtherEgress ==
  ASSUME TypeOK, EgressBytes,
         \/ Settle \/ RecoverPending \/ Tick \/ Crash \/ BackfillStops \/ UNCHANGED vars
  PROVE  EgressBytes'
  <1>1. UNCHANGED <<user, egress, served>>
    BY DEF Settle, RecoverPending, Tick, Crash, BackfillStops, vars, owner
  <1>2. \A j \in Slot : StopsOrStays(j)
    <2>1. CASE Crash \/ BackfillStops
      BY <2>1, StoppedDoes DEF Crash, BackfillStops
    <2>2. CASE UNCHANGED ops
      BY <2>2 DEF StopsOrStays
    <2> QED BY <2>1, <2>2 DEF Settle, RecoverPending, Tick, vars
  <1>3. Opening' \subseteq Opening
    BY <1>2 DEF StopsOrStays, Opening, At
  <1> QED BY <1>1, <1>3, EgressFrame

(* Every step keeps what was served charged and within the limit.          *)
LEMMA EgressStep ==
  ASSUME Core, EgressBytes, [Next]_vars
  PROVE  EgressBytes'
  <1>1. ASSUME NEW i \in Slot, Erase(i) PROVE EgressBytes'
    BY <1>1 DEF Erase, EgressBytes
  <1> QED BY <1>1, DownloadEgress, StreamEgress, ViewEgress, RestEgress, OtherEgress DEF Core, Next

(* Initially nothing is served.                                            *)
LEMMA InitEgress ==
  ASSUME Init
  PROVE  EgressBytes
  <1>1. Opening = {}
    BY DEF Init, Opening, At, Idle
  <1>2. Bytes({}) = 0
    BY FS_EmptySet DEF Bytes
  <1> QED BY <1>1, <1>2 DEF Init, EgressBytes

-----------------------------------------------------------------------------
(* Links.                                                                  *)

(* A step that issues no link and unspends none.                           *)
LEMMA LinksFrame ==
  ASSUME Links, NEW i \in Slot, Moves(i), links' \subseteq links, \A l : Spent(l) => Spent(l)',
         HasIssued(ops[i]) => HasIssued(ops'[i]),
         ops'[i].kind = "download" =>
           ops[i].kind = "download" /\ ops'[i].p = ops[i].p /\ ops'[i].n = ops[i].n,
         Taken(ops'[i]) => Taken(ops[i])
  PROVE  Links'
  <1>1. \A j \in Slot : HasIssued(ops[j]) => HasIssued(ops'[j])
    BY DEF Moves
  <1>2. \A n : Issued(n) => Issued(n)'
    BY <1>1 DEF Issued
  <1>3. \A l \in links' : Issued(l[2])'
    BY <1>2 DEF Links
  <1>4. \A j \in Slot : ops'[j].kind = "download" =>
          ops[j].kind = "download" /\ ops'[j].p = ops[j].p /\ ops'[j].n = ops[j].n
    BY DEF Moves
  <1>5. ASSUME NEW j \in Slot, ops'[j].kind = "download" PROVE Issued(ops[j].n)'
    BY <1>2, <1>4, <1>5 DEF Links
  <1>6. ASSUME NEW j \in Slot, Taken(ops'[j])
        PROVE  Taken(ops[j]) /\ LinkOf(j)' = LinkOf(j) /\ Spent(LinkOf(j))'
    <2>1. Taken(ops[j])
      BY <1>6 DEF Moves
    <2>2. LinkOf(j)' = LinkOf(j)
      BY <1>4, <1>6 DEF Taken, LinkOf
    <2>3. PICK l : l = LinkOf(j)
      OBVIOUS
    <2>4. Spent(l)'
      BY <2>1, <2>3 DEF Links
    <2> QED BY <2>1, <2>2, <2>3, <2>4
  <1>7. \A j, k \in Slot : j # k /\ Taken(ops'[j]) /\ Taken(ops'[k]) => LinkOf(j)' # LinkOf(k)'
    BY <1>6 DEF Links
  <1> QED BY <1>3, <1>5, <1>6, <1>7 DEF Links

(* A slot that has issued nothing yet issues its links: nobody has taken   *)
(* one of them before.                                                     *)
LEMMA LinksIssued ==
  ASSUME Links, NEW i \in Slot, Moves(i), NEW S, links' = links \cup (S \X {i}), UNCHANGED used,
         ~HasIssued(ops[i]), HasIssued(ops'[i])
  PROVE  Links'
  <1>1. \A j \in Slot : HasIssued(ops[j]) => HasIssued(ops'[j])
    BY DEF Moves
  <1>2. (\A n : Issued(n) => Issued(n)') /\ Issued(i)' /\ ~Issued(i)
    BY <1>1 DEF Issued, Slot
  <1>3. \A l \in links' : Issued(l[2])'
    BY <1>2 DEF Links
  <1>4. ops'[i].kind # "download"
    BY DEF HasIssued
  <1>5. \A j \in Slot : ops'[j].kind = "download" => ops'[j] = ops[j]
    BY <1>4 DEF Moves
  <1>6. ASSUME NEW j \in Slot, ops'[j].kind = "download" PROVE Issued(ops[j].n)'
    BY <1>2, <1>5, <1>6 DEF Links
  <1>7. ASSUME NEW j \in Slot, Taken(ops'[j])
        PROVE  Taken(ops[j]) /\ LinkOf(j)' = LinkOf(j) /\ Spent(LinkOf(j))'
    <2>1. ops'[j] = ops[j] /\ ops[j].kind = "download"
      BY <1>5, <1>7 DEF Taken
    <2>2. Taken(ops[j]) /\ LinkOf(j)' = LinkOf(j)
      BY <1>7, <2>1 DEF LinkOf
    <2>3. Issued(ops[j].n) /\ Spent(LinkOf(j))
      BY <2>1, <2>2 DEF Links
    <2>4. ops[j].n # i
      BY <1>2, <2>3
    <2>5. LinkOf(j) \notin S \X {i}
      BY <2>4 DEF LinkOf
    <2> QED BY <2>2, <2>3, <2>5 DEF Spent
  <1>8. \A j, k \in Slot : j # k /\ Taken(ops'[j]) /\ Taken(ops'[k]) => LinkOf(j)' # LinkOf(k)'
    BY <1>7 DEF Links
  <1> QED BY <1>3, <1>6, <1>7, <1>8 DEF Links

(* A preparation's or a retry's message goes out.                          *)
LEMMA MessageLinks ==
  ASSUME Links, NEW i \in Slot, Moves(i), NEW S, Issue(i, S), UNCHANGED used,
         ~HasIssued(ops[i]), HasIssued(ops'[i])
  PROVE  Links'
  <1>1. CASE privacy
    <2>1. UNCHANGED links
      BY <1>1 DEF Issue
    <2>2. ops'[i].kind # "download"
      BY DEF HasIssued
    <2> QED BY <2>1, <2>2, LinksFrame DEF Spent, Taken
  <1>2. CASE ~privacy
    <2>1. links' = links \cup (S \X {i})
      BY <1>2 DEF Issue
    <2> QED BY <2>1, LinksIssued
  <1> QED BY <1>1, <1>2

(* Beginnings: a download begins with a link that was issued.              *)
LEMMA BeginLinks ==
  ASSUME TypeOK, Links, NEW i \in Slot,
         \/ BeginPrep(i) \/ Resend(i) \/ BeginDownload(i) \/ BeginView(i) \/ BeginCleanup(i)
         \/ BeginErase(i) \/ BeginBackfill(i)
  PROVE  Links'
  <1>1. UNCHANGED used
    BY DEF BeginPrep, Resend, BeginDownload, BeginView, BeginCleanup, BeginErase, BeginBackfill,
       shares
  <1>2. CASE Resend(i)
    <2>1. Moves(i) /\ ops[i].kind = "idle" /\ ops'[i].kind = "resend"
      BY <1>2, ResendDoes DEF Begins
    <2>2. ~HasIssued(ops[i]) /\ HasIssued(ops'[i])
      BY <2>1 DEF HasIssued
    <2>3. CASE Issue(i, Existing)
      BY <1>1, <2>1, <2>2, <2>3, MessageLinks
    <2>4. CASE UNCHANGED links
      BY <1>1, <2>1, <2>2, <2>4, LinksFrame DEF Spent, Taken
    <2> QED BY <1>2, <2>3, <2>4 DEF Resend
  <1>3. CASE BeginDownload(i)
    <2>1. /\ Moves(i) /\ ops[i].kind = "idle" /\ ops'[i].kind = "download" /\ ops'[i].pc = "claim"
          /\ ops'[i].got = 0
      BY <1>3, BeginDownloadDoes DEF Begins
    <2>2. PICK l \in links : ops'[i].n = l[2]
      BY <1>3, BeginDownloadDoes
    <2>3. UNCHANGED links
      BY <1>3 DEF BeginDownload, shares
    <2>4. \A j \in Slot : HasIssued(ops[j]) => HasIssued(ops'[j])
      BY <2>1 DEF Moves, HasIssued
    <2>5. \A n : Issued(n) => Issued(n)'
      BY <2>4 DEF Issued
    <2>6. \A k \in links' : Issued(k[2])'
      BY <2>3, <2>5 DEF Links
    <2>7. ASSUME NEW j \in Slot, ops'[j].kind = "download" PROVE Issued(ops[j].n)'
      <3>1. CASE j = i
        BY <2>2, <2>5, <3>1 DEF Links
      <3>2. CASE j # i
        BY <2>1, <2>5, <2>7, <3>2 DEF Links, Moves
      <3> QED BY <3>1, <3>2
    <2>8. \A j \in Slot : Taken(ops'[j]) => j # i /\ ops'[j] = ops[j]
      BY <2>1 DEF Moves, Taken
    <2>9. ASSUME NEW j \in Slot, Taken(ops'[j])
          PROVE  Taken(ops[j]) /\ LinkOf(j)' = LinkOf(j) /\ Spent(LinkOf(j))'
      BY <1>1, <2>3, <2>8, <2>9 DEF Links, LinkOf, Spent
    <2>10. \A j, k \in Slot : j # k /\ Taken(ops'[j]) /\ Taken(ops'[k]) => LinkOf(j)' # LinkOf(k)'
      BY <2>9 DEF Links
    <2> QED BY <2>6, <2>7, <2>9, <2>10 DEF Links
  <1>4. CASE ~Resend(i) /\ ~BeginDownload(i)
    <2>1. Moves(i) /\ ops[i].kind = "idle" /\ ops'[i].kind # "download"
      BY <1>4, BeginPrepDoes, BeginViewDoes, BeginCleanupDoes, BeginEraseDoes, BeginBackfillDoes
      DEF Begins
    <2>2. UNCHANGED links
      BY <1>4 DEF BeginPrep, BeginView, BeginCleanup, BeginErase, BeginBackfill, shares
    <2> QED BY <1>1, <2>1, <2>2, LinksFrame DEF Spent, Taken, HasIssued
  <1> QED BY <1>2, <1>3, <1>4

(* A claim takes a link nobody has taken.                                  *)
LEMMA ClaimLinks ==
  ASSUME TypeOK, Links, NEW i \in Slot, ClaimDownload(i)
  PROVE  Links'
  <1>1. UNCHANGED links
    BY DEF ClaimDownload
  <1>2. CASE Allowed(Size) /\ Unclaimed(LinkOf(i))
    <2>1. /\ Moves(i) /\ ops[i].kind = "download" /\ ops[i].pc = "claim"
          /\ ops'[i].kind = "download" /\ ops'[i].p = ops[i].p /\ ops'[i].n = ops[i].n
      BY ClaimDownloadDoes DEF Goes, Ends
    <2>2. used' = used \cup {LinkOf(i)} /\ LinkOf(i) \in links /\ LinkOf(i) \notin used
      BY <1>2 DEF ClaimDownload, Unclaimed
    <2>3. \A j \in Slot : HasIssued(ops[j]) => HasIssued(ops'[j])
      BY <2>1 DEF Moves, HasIssued
    <2>4. \A n : Issued(n) => Issued(n)'
      BY <2>3 DEF Issued
    <2>5. \A k \in links' : Issued(k[2])'
      BY <1>1, <2>4 DEF Links
    <2>6. \A j \in Slot : LinkOf(j)' = LinkOf(j) /\ (j # i => ops'[j] = ops[j])
      BY <2>1 DEF Moves, LinkOf
    <2>7. ASSUME NEW j \in Slot, ops'[j].kind = "download" PROVE Issued(ops[j].n)'
      BY <2>1, <2>4, <2>6, <2>7 DEF Links
    <2>8. ASSUME NEW j \in Slot, Taken(ops'[j]) PROVE Spent(LinkOf(j))'
      <3>1. CASE j = i
        BY <2>2, <2>6, <3>1 DEF Spent
      <3>2. CASE j # i
        BY <1>1, <2>2, <2>6, <2>8, <3>2 DEF Links, Spent
      <3> QED BY <3>1, <3>2
    <2>9. \A j \in Slot : j # i /\ Taken(ops'[j]) => LinkOf(j) # LinkOf(i)
      BY <2>2, <2>6 DEF Links, Spent
    <2>10. \A j, k \in Slot : j # k /\ Taken(ops'[j]) /\ Taken(ops'[k]) => LinkOf(j)' # LinkOf(k)'
      BY <2>6, <2>9 DEF Links
    <2> QED BY <2>5, <2>7, <2>8, <2>10 DEF Links
  <1>3. CASE ~(Allowed(Size) /\ Unclaimed(LinkOf(i)))
    <2>1. Finish(i, 0) /\ UNCHANGED used /\ ops[i].kind = "download"
      BY <1>3 DEF ClaimDownload, At
    <2>2. Ends(i, ops[i].kind, ops[i].pc, 0)
      BY <2>1, FinishEnds
    <2>3. /\ Moves(i) /\ ops'[i].kind = "download" /\ ops'[i].pc = "end" /\ ops'[i].got = 0
          /\ ops'[i].p = ops[i].p /\ ops'[i].n = ops[i].n
      BY <2>1, <2>2 DEF Ends, Goes
    <2>4. ~HasIssued(ops[i]) /\ ~Taken(ops'[i])
      BY <2>1, <2>3 DEF HasIssued, Taken
    <2> QED BY <1>1, <2>1, <2>3, <2>4, LinksFrame DEF Spent
  <1> QED BY <1>2, <1>3

(* Streams and views.                                                      *)
LEMMA ServeLinks ==
  ASSUME TypeOK, Links, NEW i \in Slot, OpenDownload(i) \/ EndStream(i) \/ ClaimView(i)
  PROVE  Links'
  <1>1. UNCHANGED used
    BY DEF OpenDownload, EndStream, ClaimView, shares
  <1>2. CASE OpenDownload(i)
    <2>1. UNCHANGED links
      BY <1>2 DEF OpenDownload, shares
    <2>2. /\ Moves(i) /\ ops[i].kind = "download" /\ ops[i].pc = "open" /\ ops'[i].kind = "download"
          /\ ops'[i].p = ops[i].p /\ ops'[i].n = ops[i].n
      BY <1>2, OpenDownloadDoes DEF Goes, Ends
    <2> QED BY <1>1, <2>1, <2>2, LinksFrame DEF Spent, Taken, HasIssued
  <1>3. CASE EndStream(i)
    <2>1. UNCHANGED links
      BY <1>3 DEF EndStream, shares
    <2>2. /\ Moves(i) /\ ops[i].pc = "stream" /\ ops'[i].pc = "end" /\ ops'[i].kind = ops[i].kind
          /\ ops[i].kind \in {"download", "view"} /\ ops'[i].p = ops[i].p /\ ops'[i].n = ops[i].n
      BY <1>3, EndStreamDoes DEF Goes, Ends
    <2>3. HasIssued(ops[i]) => HasIssued(ops'[i])
      BY <2>2 DEF HasIssued
    <2>4. Taken(ops'[i]) => Taken(ops[i])
      BY <2>2 DEF Taken
    <2> QED BY <1>1, <2>1, <2>2, <2>3, <2>4, LinksFrame DEF Spent
  <1>4. CASE ClaimView(i)
    <2>1. /\ Moves(i) /\ ops[i].kind = "view" /\ ops[i].pc = "claim" /\ ops'[i].kind = "view"
          /\ ops'[i].pc # "claim"
      BY <1>4, ClaimViewDoes DEF Goes, Ends
    <2>2. ~HasIssued(ops[i]) /\ HasIssued(ops'[i])
      BY <2>1 DEF HasIssued
    <2>3. CASE links' = links \cup (ops[i].todo \X {i})
      BY <1>1, <2>1, <2>2, <2>3, LinksIssued
    <2>4. CASE UNCHANGED links
      BY <1>1, <2>1, <2>2, <2>4, LinksFrame DEF Spent, Taken
    <2> QED BY <1>4, <2>3, <2>4 DEF ClaimView
  <1> QED BY <1>2, <1>3, <1>4

(* The preparation's links go out with its commit.                         *)
LEMMA PrepLinks ==
  ASSUME TypeOK, Links, NEW i \in Slot,
         LockPrep(i) \/ WriteAttachment(i) \/ InsertAttachment(i) \/ CommitPrep(i)
  PROVE  Links'
  <1>1. UNCHANGED used
    BY DEF LockPrep, WriteAttachment, InsertAttachment, CommitPrep, shares
  <1>2. Moves(i) /\ ops[i].kind = "prep" /\ ops[i].pc # "end" /\ ops'[i].kind = "prep"
    BY LockPrepDoes, WriteAttachmentDoes, InsertAttachmentDoes, CommitPrepDoes DEF Goes, Ends
  <1>3. ~HasIssued(ops[i]) /\ ~Taken(ops'[i])
    BY <1>2 DEF HasIssued, Taken
  <1>4. CASE UNCHANGED links
    BY <1>1, <1>2, <1>3, <1>4, LinksFrame DEF Spent
  <1>5. CASE CommitPrep(i)
    <2>1. HasIssued(ops'[i])
      BY <1>5, CommitPrepDoes DEF Goes, HasIssued
    <2>2. CASE Issue(i, ops[i].done)
      BY <1>1, <1>2, <1>3, <2>1, <2>2, MessageLinks
    <2> QED BY <1>4, <1>5, <2>2, CommittedRows
  <1> QED BY <1>4, <1>5 DEF LockPrep, WriteAttachment, InsertAttachment, shares

(* A link goes together with the mark that it was used.                    *)
LEMMA RestLinks ==
  ASSUME TypeOK, Links, NEW i \in Slot,
         \/ Unlink(i) \/ DeleteRow(i) \/ CleanupFails(i) \/ NextPass(i)
         \/ ClearRaw(i) \/ PurgeLog(i) \/ PurgeLinks(i) \/ Erase(i) \/ EraseFile(i)
         \/ ReadFile(i) \/ ReplaceFile(i) \/ RecordKey(i) \/ ClearNote(i) \/ NextPhase(i)
  PROVE  Links'
  <1>1. /\ Moves(i) /\ ops[i].kind = ops'[i].kind
        /\ ops[i].kind \in {"cleanup", "erase", "backfill"}
    <2>1. CASE Unlink(i) \/ DeleteRow(i) \/ CleanupFails(i) \/ NextPass(i)
      BY <2>1, UnlinkDoes, DeleteRowDoes, CleanupFailsDoes, NextPassDoes DEF Goes
    <2>2. CASE ClearRaw(i) \/ PurgeLog(i) \/ PurgeLinks(i) \/ Erase(i) \/ EraseFile(i)
      BY <2>2, ClearRawDoes, PurgeLogDoes, PurgeLinksDoes, EraseDoes, EraseFileDoes DEF Goes, Ends
    <2>3. CASE ReadFile(i) \/ ReplaceFile(i) \/ RecordKey(i) \/ ClearNote(i) \/ NextPhase(i)
      BY <2>3, ReadFileDoes, ReplaceFileDoes, RecordKeyDoes, ClearNoteDoes, NextPhaseDoes DEF Goes
    <2> QED BY <2>1, <2>2, <2>3
  <1>2. ~HasIssued(ops[i]) /\ ~Taken(ops'[i])
    BY <1>1 DEF HasIssued, Taken
  <1>3. links' \subseteq links /\ \A l : Spent(l) => Spent(l)'
    <2>1. CASE DeleteRow(i)
      <3>1. PICK a : /\ links' = {l \in links : l[1] # a}
                     /\ used' = {l \in used : l[1] # a}
        BY <2>1 DEF DeleteRow
      <3> QED BY <3>1 DEF Spent
    <2>2. CASE Erase(i) \/ PurgeLinks(i)
      BY <2>2 DEF Erase, PurgeLinks, Spent
    <2>3. CASE ~DeleteRow(i) /\ ~Erase(i) /\ ~PurgeLinks(i)
      <3>1. UNCHANGED <<links, used>>
        BY <2>3 DEF Unlink, CleanupFails, NextPass, ClearRaw, PurgeLog, EraseFile, ReadFile,
                    ReplaceFile, RecordKey, ClearNote, NextPhase, shares
      <3> QED BY <3>1 DEF Spent
    <2> QED BY <2>1, <2>2, <2>3
  <1> QED BY <1>1, <1>2, <1>3, LinksFrame

(* Steps of no operation, and interruptions.                               *)
LEMMA OtherLinks ==
  ASSUME TypeOK, Links,
         \/ Settle \/ RecoverPending \/ Tick \/ Crash \/ BackfillStops \/ UNCHANGED vars
  PROVE  Links'
  <1>1. UNCHANGED <<links, used>>
    BY DEF Settle, RecoverPending, Tick, Crash, BackfillStops, vars, shares
  <1>2. \A j \in Slot : StopsOrStays(j)
    <2>1. CASE Crash \/ BackfillStops
      BY <2>1, StoppedDoes DEF Crash, BackfillStops
    <2>2. CASE UNCHANGED ops
      BY <2>2 DEF StopsOrStays
    <2> QED BY <2>1, <2>2 DEF Settle, RecoverPending, Tick, vars
  <1>3. \A j \in Slot : /\ HasIssued(ops[j]) => HasIssued(ops'[j])
                        /\ Taken(ops'[j]) => Taken(ops[j])
                        /\ ops'[j].kind = ops[j].kind /\ ops'[j].p = ops[j].p
                        /\ ops'[j].n = ops[j].n
    BY <1>2 DEF StopsOrStays, HasIssued, Taken
  <1>4. \A n : Issued(n) => Issued(n)'
    BY <1>3 DEF Issued
  <1>5. \A j \in Slot : LinkOf(j)' = LinkOf(j)
    BY <1>3 DEF LinkOf
  <1>6. \A l \in links' : Issued(l[2])'
    BY <1>1, <1>4 DEF Links
  <1>7. ASSUME NEW j \in Slot, ops'[j].kind = "download" PROVE Issued(ops[j].n)'
    BY <1>3, <1>4, <1>7 DEF Links
  <1>8. ASSUME NEW j \in Slot, Taken(ops'[j]) PROVE Taken(ops[j]) /\ Spent(LinkOf(j))'
    BY <1>1, <1>3, <1>5, <1>8 DEF Links, Spent
  <1>9. \A j, k \in Slot : j # k /\ Taken(ops'[j]) /\ Taken(ops'[k]) => LinkOf(j)' # LinkOf(k)'
    BY <1>5, <1>8 DEF Links
  <1> QED BY <1>6, <1>7, <1>8, <1>9 DEF Links

(* Every step keeps taken links spent.                                     *)
LEMMA LinksStep ==
  ASSUME Core, Links, [Next]_vars
  PROVE  Links'
  BY BeginLinks, ClaimLinks, ServeLinks, PrepLinks, RestLinks, OtherLinks DEF Core, Next

(* Initially no link is taken.                                             *)
LEMMA InitLinks ==
  ASSUME Init
  PROVE  Links
  <1>1. \A i \in Slot : ops[i] = Idle
    BY DEF Init
  <1>2. links \subseteq Att \X {0}
    BY DEF Init
  <1> QED BY <1>1, <1>2 DEF Links, Taken, Issued, Idle

(* Views shown, and the one that may still be shown.                       *)
LEMMA ViewsFrame ==
  ASSUME TypeOK, Views, Shown' \subseteq Shown, issued' = issued, Unviewed' => Unviewed
  PROVE  Views'
  <1>1. Shown \in SUBSET Slot /\ Shown' \in SUBSET Shown
    BY DEF Shown
  <1>2. /\ Cardinality(Shown) \in Nat /\ Cardinality(Shown') \in Nat
        /\ Cardinality(Shown') <= Cardinality(Shown)
    BY <1>1, FewerSlots
  <1>3. issued \in Nat
    BY DEF TypeOK
  <1>4. Cardinality(Shown') + (IF Unviewed' THEN 1 ELSE 0) <= issued'
    BY <1>2, <1>3 DEF Views
  <1> QED BY <1>4 DEF Views

(* A new view link counts for one view, whatever the old one was.          *)
LEMMA MessageViews ==
  ASSUME TypeOK, Views, NEW i \in Slot, NEW S, Issue(i, S), Shown' \subseteq Shown
  PROVE  Views'
  <1>1. CASE privacy
    <2>1. issued' = issued + 1
      BY <1>1 DEF Issue
    <2>2. Shown \in SUBSET Slot /\ Shown' \in SUBSET Shown
      BY DEF Shown
    <2>3. /\ Cardinality(Shown) \in Nat /\ Cardinality(Shown') \in Nat
          /\ Cardinality(Shown') <= Cardinality(Shown)
      BY <2>2, FewerSlots
    <2>4. issued \in Nat
      BY DEF TypeOK
    <2>5. Cardinality(Shown') + (IF Unviewed' THEN 1 ELSE 0) <= issued'
      BY <2>1, <2>3, <2>4 DEF Views
    <2> QED BY <2>5 DEF Views
  <1>2. CASE ~privacy
    BY <1>2, ViewsFrame DEF Issue, Unviewed
  <1> QED BY <1>1, <1>2

(* A view is shown to whoever claims the link first.                       *)
LEMMA ClaimViews ==
  ASSUME TypeOK, Views, NEW i \in Slot, ClaimView(i)
  PROVE  Views'
  <1>1. /\ Moves(i) /\ ops[i].kind = "view" /\ ops'[i].kind = "view"
    BY ClaimViewDoes DEF Goes, Ends
  <1>2. UNCHANGED issued /\ issued \in Nat /\ view \in ViewLink
    BY TypeParts DEF ClaimView
  <1>3. CASE ops[i].todo \subseteq Existing /\ Allowed(ViewSize) /\ Unviewed
    <2>1. view' = [view EXCEPT !.viewed = TRUE]
      BY <1>3 DEF ClaimView
    <2>2. ~Unviewed'
      BY <1>2, <2>1 DEF Unviewed, ViewLink
    <2>3. Shown \in SUBSET Slot /\ Shown' \in SUBSET (Shown \cup {i})
      BY <1>1 DEF Shown, Moves
    <2>4. Cardinality(Shown) \in Nat /\ IsFiniteSet(Shown)
      BY <2>3, FewerSlots
    <2>5. IsFiniteSet(Shown \cup {i}) /\ Cardinality(Shown \cup {i}) <= Cardinality(Shown) + 1
      BY <2>4, FS_AddElement
    <2>6. /\ Cardinality(Shown') \in Nat /\ Cardinality(Shown \cup {i}) \in Nat
          /\ Cardinality(Shown') <= Cardinality(Shown \cup {i})
      BY <2>3, <2>5, FS_Subset, FS_CardinalityType
    <2>7. Cardinality(Shown) + 1 <= issued
      BY <1>3 DEF Views
    <2>8. Cardinality(Shown') <= issued
      BY <1>2, <2>4, <2>5, <2>6, <2>7
    <2>9. Cardinality(Shown') + (IF Unviewed' THEN 1 ELSE 0) <= issued'
      BY <1>2, <2>2, <2>6, <2>8
    <2> QED BY <2>9 DEF Views
  <1>4. CASE ~(ops[i].todo \subseteq Existing /\ Allowed(ViewSize) /\ Unviewed)
    <2>1. Finish(i, 0) /\ UNCHANGED view
      BY <1>4 DEF ClaimView
    <2>2. Ends(i, ops[i].kind, ops[i].pc, 0)
      BY <2>1, FinishEnds
    <2>3. Shown' \subseteq Shown
      BY <2>2 DEF Ends, Goes, Moves, Shown
    <2> QED BY <1>2, <2>1, <2>3, ViewsFrame DEF Unviewed
  <1> QED BY <1>3, <1>4

(* The other steps show nothing.                                           *)
LEMMA RestViews ==
  ASSUME TypeOK, Views, NEW i \in Slot,
         \/ BeginPrep(i) \/ BeginDownload(i) \/ BeginView(i) \/ BeginCleanup(i)
         \/ BeginErase(i) \/ BeginBackfill(i)
         \/ LockPrep(i) \/ WriteAttachment(i) \/ InsertAttachment(i)
         \/ ClaimDownload(i) \/ OpenDownload(i) \/ EndStream(i)
         \/ Unlink(i) \/ DeleteRow(i) \/ CleanupFails(i) \/ NextPass(i)
         \/ ClearRaw(i) \/ PurgeLog(i) \/ PurgeLinks(i) \/ Erase(i) \/ EraseFile(i)
         \/ ReadFile(i) \/ ReplaceFile(i) \/ RecordKey(i) \/ ClearNote(i) \/ NextPhase(i)
  PROVE  Views'
  <1>0. view \in ViewLink
    BY TypeParts
  <1>1. Moves(i) /\ (ops'[i].kind = "view" => ops'[i].n = 0 \/ (ops[i].kind = "view" /\ ops'[i].n = ops[i].n))
    <2>1. CASE \/ BeginPrep(i) \/ BeginDownload(i) \/ BeginView(i) \/ BeginCleanup(i)
               \/ BeginErase(i) \/ BeginBackfill(i)
      BY <2>1, BeginPrepDoes, BeginDownloadDoes, BeginViewDoes, BeginCleanupDoes, BeginEraseDoes,
         BeginBackfillDoes DEF Begins
    <2>2. CASE LockPrep(i) \/ WriteAttachment(i) \/ InsertAttachment(i)
      BY <2>2, LockPrepDoes, WriteAttachmentDoes, InsertAttachmentDoes DEF Goes, Ends
    <2>3. CASE ClaimDownload(i) \/ OpenDownload(i) \/ EndStream(i)
      BY <2>3, ClaimDownloadDoes, OpenDownloadDoes, EndStreamDoes DEF Goes, Ends
    <2>4. CASE Unlink(i) \/ DeleteRow(i) \/ CleanupFails(i) \/ NextPass(i)
      BY <2>4, UnlinkDoes, DeleteRowDoes, CleanupFailsDoes, NextPassDoes DEF Goes
    <2>5. CASE ClearRaw(i) \/ PurgeLog(i) \/ PurgeLinks(i) \/ Erase(i) \/ EraseFile(i)
      BY <2>5, ClearRawDoes, PurgeLogDoes, PurgeLinksDoes, EraseDoes, EraseFileDoes DEF Goes, Ends
    <2>6. CASE ReadFile(i) \/ ReplaceFile(i) \/ RecordKey(i) \/ ClearNote(i) \/ NextPhase(i)
      BY <2>6, ReadFileDoes, ReplaceFileDoes, RecordKeyDoes, ClearNoteDoes, NextPhaseDoes DEF Goes
    <2> QED BY <2>1, <2>2, <2>3, <2>4, <2>5, <2>6
  <1>2. Shown' \subseteq Shown
    BY <1>1 DEF Shown, Moves
  <1>3. UNCHANGED issued
    BY DEF BeginPrep, BeginDownload, BeginView, BeginCleanup, BeginErase, BeginBackfill, LockPrep,
           WriteAttachment, InsertAttachment, ClaimDownload, OpenDownload, EndStream, Unlink,
           DeleteRow, CleanupFails, NextPass, ClearRaw, PurgeLog, PurgeLinks, Erase, EraseFile,
           ReadFile, ReplaceFile, RecordKey, ClearNote, NextPhase, shares
  <1>4. Unviewed' => Unviewed
    <2>1. CASE PurgeLog(i) \/ PurgeLinks(i) \/ Erase(i)
      <3>1. UNCHANGED view \/ view' = [view EXCEPT !.here = FALSE]
        BY <2>1 DEF PurgeLog, PurgeLinks, Erase
      <3> QED BY <1>0, <3>1 DEF Unviewed, ViewLink
    <2>2. CASE ~PurgeLog(i) /\ ~PurgeLinks(i) /\ ~Erase(i)
      <3>1. UNCHANGED view
        BY <2>2 DEF BeginPrep, BeginDownload, BeginView, BeginCleanup, BeginErase, BeginBackfill,
             LockPrep, WriteAttachment, InsertAttachment, ClaimDownload, OpenDownload, EndStream,
             Unlink, DeleteRow, CleanupFails, NextPass, ClearRaw, EraseFile, ReadFile, ReplaceFile,
             RecordKey, ClearNote, NextPhase, shares
      <3> QED BY <3>1 DEF Unviewed
    <2> QED BY <2>1, <2>2
  <1> QED BY <1>2, <1>3, <1>4, ViewsFrame

(* Every step keeps the views within the links issued.                     *)
LEMMA ViewsStep ==
  ASSUME Core, Views, [Next]_vars
  PROVE  Views'
  <1>1. TypeOK
    BY DEF Core
  <1>2. ASSUME NEW i \in Slot, Resend(i) PROVE Views'
    <2>1. Moves(i) /\ ops'[i].kind = "resend"
      BY <1>1, <1>2, ResendDoes DEF Begins
    <2>2. Shown' \subseteq Shown
      BY <2>1 DEF Shown, Moves
    <2>3. Issue(i, Existing) \/ UNCHANGED <<view, issued>>
      BY <1>2 DEF Resend
    <2> QED BY <1>1, <2>2, <2>3, MessageViews, ViewsFrame DEF Unviewed
  <1>3. ASSUME NEW i \in Slot, CommitPrep(i) PROVE Views'
    <2>1. Moves(i) /\ ops'[i].kind = "prep"
      BY <1>1, <1>3, CommitPrepDoes DEF Goes
    <2>2. Shown' \subseteq Shown
      BY <2>1 DEF Shown, Moves
    <2>3. Issue(i, ops[i].done) \/ UNCHANGED <<view, issued>>
      BY <1>1, <1>3, CommittedRows
    <2> QED BY <1>1, <2>2, <2>3, MessageViews, ViewsFrame DEF Unviewed
  <1>4. ASSUME \/ Settle \/ RecoverPending \/ Tick \/ Crash \/ BackfillStops \/ UNCHANGED vars
        PROVE  Views'
    <2>1. UNCHANGED <<view, issued>>
      BY <1>4 DEF Settle, RecoverPending, Tick, Crash, BackfillStops, vars, shares
    <2>2. \A j \in Slot : StopsOrStays(j)
      <3>1. CASE Crash \/ BackfillStops
        BY <1>1, <3>1, StoppedDoes DEF Crash, BackfillStops
      <3>2. CASE UNCHANGED ops
        BY <3>2 DEF StopsOrStays
      <3> QED BY <1>4, <3>1, <3>2 DEF Settle, RecoverPending, Tick, vars
    <2>3. Shown' \subseteq Shown
      BY <2>2 DEF StopsOrStays, Shown
    <2> QED BY <1>1, <2>1, <2>3, ViewsFrame DEF Unviewed
  <1> QED BY <1>1, <1>2, <1>3, <1>4, ClaimViews, RestViews DEF Next

(* Initially nothing is shown, and a link that is there was sent.          *)
LEMMA InitViews ==
  ASSUME Init
  PROVE  Views
  <1>1. Shown = {}
    BY DEF Init, Shown, Idle
  <1>2. Cardinality({}) = 0
    BY FS_EmptySet
  <1>3. issued = (IF view.here THEN 1 ELSE 0)
    BY DEF Init
  <1> QED BY <1>1, <1>2, <1>3 DEF Views, Unviewed

-----------------------------------------------------------------------------
(* Every behaviour.                                                        *)

(* IInv holds initially and every step keeps it: whatever the order of     *)
(* deliveries, downloads, views, cleanups, erasures, backfills, recoveries *)
(* and interruptions.                                                      *)
THEOREM Inductive == Spec => []IInv
  <1>1. Init => IInv
    BY InitCore, InitFiles, InitKeys, InitAttBytes, InitRawBytes, InitEgress, InitLinks, InitViews
    DEF IInv
  <1>2. IInv /\ [Next]_vars => IInv'
    BY CoreStep, FilesStep, KeysStep, AttBytesStep, RawBytesStep, EgressStep, LinksStep, ViewsStep
    DEF IInv
  <1> QED BY <1>1, <1>2, PTL DEF Spec

(* Rows, files, counters and links keep their types.                       *)
THEOREM TypeCorrect == Spec => []TypeOK
  <1>1. IInv => TypeOK
    BY DEF IInv, Core
  <1> QED BY <1>1, Inductive, PTL

(* A file on disk has a row, a pending file or an unfinished operation     *)
(* that answers for it, unless a crash, a rollback, a failed unlink or the *)
(* backfill's rename left it (storage/disk.ts, storage/cleanup.ts,         *)
(* deliver.ts, deleteUser.ts).                                             *)
THEOREM NoStrandedFileHolds == Spec => []NoStrandedFile
  <1>1. IInv => NoStrandedFile
    BY DEF IInv, Files
  <1> QED BY <1>1, Inductive, PTL

(* Attachment bytes are never released twice, by failed attachments and    *)
(* overlapping cleanups, and raw bytes are exact as long as two cleanup    *)
(* runs never overlapped (user_storage_usage).                             *)
THEOREM StorageChargedHolds == Spec => []StorageCharged
  <1>1. IInv => StorageCharged
    BY DEF IInv, AttBytes, RawBytes, StorageCharged
  <1> QED BY <1>1, Inductive, PTL

(* What left through links was charged and the charge stays within the     *)
(* plan's limit (trackReservedEgressUsage, checkEgressLimit).              *)
THEOREM EgressChargedHolds == Spec => []EgressCharged
  <1>1. IInv => EgressCharged
    <2>1. Opening \in SUBSET Slot
      BY DEF Opening
    <2>2. Bytes(Opening) \in Nat
      BY <2>1, FewerSlots
    <2>3. TypeOK /\ EgressBytes => EgressCharged
      <3>1. TypeOK => served \in Int /\ egress \in Nat
        BY DEF TypeOK
      <3> QED BY <2>2, <3>1 DEF EgressBytes, EgressCharged
    <2> QED BY <2>3 DEF IInv, Core
  <1> QED BY <1>1, Inductive, PTL

(* A download link opens its attachment for one request, and a mail is     *)
(* shown at most as often as view links were issued (markLinkDownloaded,   *)
(* markDeliveryViewLinkViewed).                                            *)
THEOREM ServedOnceHolds == Spec => []ServedOnce
  <1>1. IInv => ServedOnce
    <2>1. \A i \in Slot : Served(i) => Taken(ops[i])
      BY DEF Served, Taken
    <2>2. Links => \A i, j \in Slot : i # j /\ Served(i) /\ Served(j) => LinkOf(i) # LinkOf(j)
      BY <2>1 DEF Links
    <2>3. Shown \in SUBSET Slot
      BY DEF Shown
    <2>4. Cardinality(Shown) \in Nat
      BY <2>3, FewerSlots
    <2>5. TypeOK /\ Views => Cardinality(Shown) <= issued
      <3>1. TypeOK => issued \in Nat
        BY DEF TypeOK
      <3> QED BY <2>4, <3>1 DEF Views
    <2> QED BY <2>2, <2>5 DEF IInv, Core, ServedOnce
  <1> QED BY <1>1, Inductive, PTL

(* An attachment opens with the key its row names, or the next backfill    *)
(* can tell which key that is (storageMaintenance.ts, disk.ts).            *)
THEOREM AttachmentReadableHolds == Spec => []AttachmentReadable
  <1>1. IInv => AttachmentReadable
    BY DEF IInv, Keys
  <1> QED BY <1>1, Inductive, PTL

=============================================================================
