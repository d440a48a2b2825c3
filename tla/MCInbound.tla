------------------------------ MODULE MCInbound ------------------------------
(* Small instances of Inbound for TLC.                                     *)
EXTENDS Inbound, TLC

CONSTANTS p1, p2, p3, m1, m2, a1

OnePath == {p1}
ThreePaths == {p1, p2, p3}
Messages == {m1, m2}
OneAlias == {a1}
AllOneAlias == [p \in Path |-> a1]
(* p2 is a resend of the message of p1; p3 holds another message.          *)
ResentAndOther == [p \in Path |-> IF p = p3 THEN m2 ELSE m1]

(* A mail and its resend, or two mails that compete for the limits.        *)
ResendOrRivals == {{p1, p2}, {p1, p3}}
OneRequest == {{p1}}
=============================================================================
