---------------------------- MODULE MCOwnership ----------------------------
(* Two institutions; a super administrator, and an account that may be     *)
(* student, administrator elsewhere or regulator; one or two students.     *)
EXTENDS Ownership, TLC

CONSTANTS admin, other, here, there, first, second, prog1, prog2

MCRow(role, inst) == [role |-> role, inst |-> inst, active |-> TRUE]
MCAccounts == {MCRow("super_admin", NoInst), MCRow("student", here), MCRow("institution_admin", there),
               MCRow("regulator", NoInst)}
MCInitAccounts == [u \in Users |-> IF u = admin THEN MCRow("super_admin", NoInst) ELSE MCRow("student", here)]
MCHere(v) == [inst |-> here, prog |-> prog1, user |-> v]
MCInitStudents ==
    {[x \in Students |-> IF x = first THEN MCHere(v) ELSE [inst |-> NoInst, prog |-> prog1, user |-> NoUser]] :
        v \in {NoUser, other}}
    \cup {[x \in Students |-> MCHere(IF x = second THEN other ELSE NoUser)]}
MCRecord(prog, from, status) == [inst |-> here, prog |-> prog, from |-> from, to |-> 2, status |-> status]
MCInitRecords == [k \in Records |-> IF k = 1 THEN [MCRecord(prog1, 1, "accredited") EXCEPT !.to = 1]
                                   ELSE MCRecord(AnyProg, 1, "none")]
MCDecisions == {MCRecord(AnyProg, 1, "accredited"), MCRecord(prog1, 2, "accredited"), MCRecord(prog2, 1, "suspended")}
=============================================================================
