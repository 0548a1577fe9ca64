--------------------------- MODULE MCAuditTrail ---------------------------
(* A small instance of AuditTrail.  The legacy chain has a row missing     *)
(* between its second and third, and its times are not in id order.        *)
EXTENDS AuditTrail

CONSTANTS e1, e2, l1, l2, l3, l4

OldRow(id, e, at, prev) == [id |-> id, ev |-> e, at |-> at, prev |-> prev, self |-> Hash(prev, e)]
OldRows ==
    << OldRow(1, l1, 1, << >>), OldRow(2, l2, 0, <<l1>>), OldRow(4, l4, 1, <<l1, l2, l3>>) >>
=============================================================================
