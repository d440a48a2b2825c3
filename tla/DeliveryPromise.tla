--------------------------- MODULE DeliveryPromise ---------------------------
(***************************************************************************)
(* What the delivery component promises for one accepted mail, without     *)
(* jobs, workers, claims or crashes.  A mail is open until it is delivered *)
(* or closed as lost.  Copies of it reach the chat only while it is not    *)
(* recorded as delivered and not refunded.  A delivered mail may be opened *)
(* again (chat migration, lost record); a closed one only before its       *)
(* refund.                                                                 *)
(***************************************************************************)
EXTENDS Naturals

CONSTANT Log

VARIABLES
  phase,     \* log -> where the mail stands
  refunded,  \* log -> its quota charge was given back
  copies     \* log -> text messages that reached the chat

promiseVars == <<phase, refunded, copies>>

Init ==
  /\ phase = [l \in Log |-> "absent"]
  /\ refunded = [l \in Log |-> FALSE]
  /\ copies = [l \in Log |-> 0]

Move(l, from, to) ==
  /\ phase[l] \in from
  /\ phase' = [phase EXCEPT ![l] = to]
  /\ UNCHANGED <<refunded, copies>>

Accept(l) == Move(l, {"absent"}, "open")

Deliver(l) == ~refunded[l] /\ copies[l] >= 1 /\ Move(l, {"open", "closed"}, "delivered")

CloseLost(l) == Move(l, {"open"}, "closed")

Reopen(l) == ~refunded[l] /\ Move(l, {"delivered", "closed"}, "open")

Land(l) ==
  /\ phase[l] \in {"open", "closed"}
  /\ ~refunded[l]
  /\ copies'[l] > copies[l]
  /\ copies' = [copies EXCEPT ![l] = copies'[l]]
  /\ UNCHANGED <<phase, refunded>>

Refund(l) ==
  /\ phase[l] = "closed"
  /\ ~refunded[l]
  /\ refunded' = [refunded EXCEPT ![l] = TRUE]
  /\ UNCHANGED <<phase, copies>>

Next ==
  \E l \in Log :
    \/ Accept(l) \/ Deliver(l) \/ CloseLost(l) \/ Reopen(l) \/ Land(l) \/ Refund(l)

Spec == Init /\ [][Next]_promiseVars
=============================================================================
