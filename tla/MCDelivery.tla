----------------------------- MODULE MCDelivery -----------------------------
(* Small instances of Delivery for TLC.                                    *)
EXTENDS Delivery, TLC

CONSTANTS l1, l2, a1

OneLog == {l1}
TwoLogs == {l1, l2}
OneAlias == {a1}
OneLogAlias == [l \in OneLog |-> a1]
TwoLogsAlias == [l \in TwoLogs |-> a1]
LogSymmetry == Permutations(Log)
=============================================================================
