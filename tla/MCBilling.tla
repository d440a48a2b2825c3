------------------------------ MODULE MCBilling ------------------------------
(* Small instances of Billing for TLC.                                     *)
EXTENDS Billing, TLC

CONSTANTS u1, c1, s1, s2, r1, r2, o1, o2

OneUser == {u1}
OneCustomer == {c1}
Subs == {s1, s2}
Refs == {r1, r2}
Ops == {o1, o2}
Grant(plan, status, paid, kept) ==
  [plan |-> plan, status |-> status, paid |-> paid, kept |-> kept]
Grants ==
  {Grant("free", "free", 0, FALSE), Grant("pro", "active", 1, FALSE),
   Grant("business", "active", 0, TRUE)}
Prices == [s \in Subs |-> "personal"]

BillingSymmetry ==
  Permutations(Customer) \cup Permutations(Sub) \cup Permutations(Ref) \cup Permutations(Op)
=============================================================================
