----------------------------- MODULE Ownership -----------------------------
(***************************************************************************)
(* Who owns what: students belong to an institution and perhaps to an      *)
(* account, credentials to a student and the institution that issued them, *)
(* and accreditation records to an institution.  The handlers create, edit,*)
(* reassign and link students, issue credentials under an accreditation,   *)
(* and disclose students and credentials to those they belong to.  Each    *)
(* reads several rows one await after the other and writes one at the end. *)
(*                                                                         *)
(* A credential is named after the request that issues it.  Its life after *)
(* the issuance has stored its proof is CredentialLifecycle's: here only   *)
(* its status column moves.                                                *)
(***************************************************************************)
EXTENDS Integers, FiniteSets

CONSTANTS
    Users, Institutions, Students, Programmes,
    Records,         \* the keys of accreditation records, ordered as their ids are
    Dates,           \* of awards and of accreditation periods
    Requests,        \* each is served once
    Accounts,        \* what the row of an account may hold, see Account
    Decisions,       \* the accreditation records the regulator may enter, see Period
    InitAccounts, InitRecords,   \* tables at the start
    InitStudents,                \* the tables there may be at the start
    NoUser, NoInst, NoStudent, NoRecord, AnyProg,
    MaxEvents        \* how often something else happens to the tables

Global == {"super_admin", "regulator"}
Staff  == {"super_admin", "institution_admin", "issuer", "verifier"}
Roles  == Staff \cup {"regulator", "student"}

Account == [role: Roles, inst: Institutions \cup {NoInst}, active: BOOLEAN]
Student == [inst: Institutions \cup {NoInst}, prog: Programmes, user: Users \cup {NoUser}]
Period  == [inst: Institutions, prog: Programmes \cup {AnyProg}, from: Dates, to: Dates,
            status: {"none", "accredited", "suspended", "revoked"}]

ASSUME OwnershipAssumption ==
    /\ Records \subseteq Nat /\ NoRecord \notin Records /\ Dates \subseteq Nat
    /\ NoUser \notin Users /\ NoInst \notin Institutions /\ NoStudent \notin Students
    /\ AnyProg \notin Programmes /\ Programmes # {}
    /\ Accounts \subseteq Account /\ InitAccounts \in [Users -> Accounts]
    /\ InitStudents \subseteq [Students -> Student] /\ InitRecords \in [Records -> Period]
    /\ Decisions \subseteq {a \in Period : a.from <= a.to /\ a.status # "none"}
    /\ MaxEvents \in Nat
    /\ \A table \in InitStudents : \A s, t \in Students :
          /\ table[s].user = table[t].user => s = t \/ table[s].user = NoUser
          /\ table[s].inst = NoInst => table[s].user = NoUser

VARIABLES
    accounts,        \* the columns role, institution_id and is_active of users
    institutions,    \* the column status
    students,        \* inst is NoInst before the INSERT
    accreditations,  \* status is "none" before the INSERT
    credentials,
    requests,        \* a handler's local state
    answers,         \* history: what was disclosed to whom
    raced,           \* history: the students an issuance and a reassignment met over
    events           \* how many of MaxEvents have happened

tables == <<accounts, institutions, students, accreditations>>
vars == <<tables, credentials, requests, answers, raced, events>>

-----------------------------------------------------------------------------
Insts == Institutions \cup {NoInst}
AnyProgramme == CHOOSE p \in Programmes : TRUE
NotThere == [inst |-> NoInst, prog |-> AnyProgramme, user |-> NoUser]

\* gate is, as history, the student's row the accreditation middleware read.
Credential == [status: {"none", "processing", "active", "failed", "revoked"},
               student: Students \cup {NoStudent}, inst: Insts, prog: Programmes,
               date: Dates \cup {0}, evidence: Records \cup {NoRecord}, gate: Student,
               manifest: BOOLEAN, proof: BOOLEAN]
NoCredential == [status |-> "none", student |-> NoStudent, inst |-> NoInst,
                 prog |-> AnyProgramme, date |-> 0, evidence |-> NoRecord,
                 gate |-> NotThere, manifest |-> FALSE, proof |-> FALSE]

\* actor, role and inst are the account that asks, as requireCurrentUser read it; to
\* is the institution, user and programme a handler will write; read is the row of
\* the student as read; signed is the credential in the making or the one read.
Handler == [pc: {"idle", "done", "student", "accreditation", "issue", "institution",
                 "insert", "manifest", "proof", "chain", "count", "account", "update",
                 "owner", "list"},
            op: {"none", "issue", "create", "edit", "reassign", "link", "view", "pdf", "generate",
                 "mine"},
            actor: Users \cup {NoUser}, role: Roles \cup {"none"}, inst: Insts,
            student: Students \cup {NoStudent}, read: Student,
            to: [inst: Insts, prog: Programmes, user: Users \cup {NoUser}],
            cred: Credential]
Idle == [pc |-> "idle", op |-> "none", actor |-> NoUser, role |-> "none", inst |-> NoInst,
         student |-> NoStudent, read |-> NotThere, to |-> NotThere, cred |-> NoCredential]
Done == [Idle EXCEPT !.pc = "done"]

\* What was disclosed: a student's own credentials, a row, or a list of the rows of an
\* institution (NoInst: of all of them).
Answer == [what: {"own", "row", "list", "open list"}, user: Users, role: Roles, inst: Insts,
           scope: Insts, student: Students \cup {NoStudent}]

TypeOK ==
    /\ accounts \in [Users -> Account]
    /\ institutions \in [Institutions -> BOOLEAN]
    /\ students \in [Students -> Student]
    /\ accreditations \in [Records -> Period]
    /\ credentials \in [Requests -> Credential]
    /\ requests \in [Requests -> Handler]
    /\ answers \subseteq Answer
    /\ raced \subseteq Students
    /\ events \in 0..MaxEvents

Init ==
    /\ accounts = InitAccounts
    /\ institutions = [i \in Institutions |-> TRUE]
    /\ students \in InitStudents
    /\ accreditations = InitRecords
    /\ credentials = [w \in Requests |-> NoCredential]
    /\ requests = [w \in Requests |-> Idle]
    /\ answers = {} /\ raced = {} /\ events = 0

-----------------------------------------------------------------------------
(* The routes: the account is read, judged, and its role looked up.        *)

Authorised(u) ==
    /\ accounts[u].active
    /\ \/ accounts[u].role \in Global \cup {"student"}
       \/ accounts[u].inst # NoInst /\ institutions[accounts[u].inst]

MayAsk(u, op) ==
    /\ Authorised(u)
    /\ accounts[u].role \in
         CASE op \in {"issue", "create", "edit", "generate"} -> {"super_admin", "institution_admin", "issuer"}
           [] op = "reassign" -> {"super_admin"}
           [] op = "link" -> {"super_admin", "institution_admin"}
           [] op \in {"view", "pdf"} -> Staff \cup {"student"}
           [] op = "mine" -> {"student"}

Serve(u, op, s) == [Idle EXCEPT !.op = op, !.actor = u, !.role = accounts[u].role,
                                !.inst = accounts[u].inst, !.student = s]
\* A handler's institution check; a super administrator passes it everywhere.
Within(r, i) == r.role = "super_admin" \/ r.inst = i

Go(w, r) == requests' = [requests EXCEPT ![w] = r]
At(w, pc, op) == requests[w].pc = pc /\ requests[w].op = op
Reads == UNCHANGED <<tables, credentials, answers, events>>
WriteStudent(s, row) ==
    /\ students' = [students EXCEPT ![s] = row]
    /\ UNCHANGED <<accounts, institutions, accreditations, credentials, answers, events>>
WriteCredential(w, c) ==
    /\ credentials' = [credentials EXCEPT ![w] = c]
    /\ UNCHANGED <<tables, answers, events>>
Disclose(r, what, scope, s) ==
    /\ answers' = answers \cup {[what |-> what, user |-> r.actor, role |-> r.role,
                                 inst |-> r.inst, scope |-> scope, student |-> s]}
    /\ UNCHANGED <<tables, credentials, events>>

-----------------------------------------------------------------------------
(* Issuance under an accreditation.                                        *)

Covers(a, i, p, d) ==
    /\ a.status = "accredited" /\ a.inst = i /\ a.prog \in {p, AnyProg}
    /\ a.from <= d /\ d <= a.to

\* ORDER BY: programme records first, the latest, the smallest id.
Precedes(k, l) ==
    LET a == accreditations[k]  b == accreditations[l] IN
    IF (a.prog = AnyProg) # (b.prog = AnyProg) THEN b.prog = AnyProg
    ELSE IF a.from # b.from THEN a.from > b.from ELSE k <= l

First(found) == {k \in found : \A l \in found : Precedes(k, l)}

\* Mutant: the validity period is not looked at.
AnyDateBug(i, p, d) ==
    First({k \in Records : Covers([accreditations[k] EXCEPT !.from = d, !.to = d], i, p, d)})

\* findEffectiveAccreditation: the first of the records that cover the award, if any does.
Effective(i, p, d) == First({k \in Records : Covers(accreditations[k], i, p, d)})

IssueBegin(w, u, s, i, d) ==
    /\ requests[w] = Idle /\ MayAsk(u, "issue")
    /\ Go(w, [Serve(u, "issue", s) EXCEPT
                !.to.inst = i, !.cred.date = d,
                !.pc = IF Within([role |-> accounts[u].role, inst |-> accounts[u].inst], i)
                       THEN "student" ELSE "issue"])
    /\ Reads

\* requireAccreditationAtAwardDate leaves a request it cannot judge to the controller.
GateStudent(w) ==
    LET r == requests[w]  row == students[r.student] IN
    /\ At(w, "student", "issue")
    /\ Go(w, [r EXCEPT !.cred.gate = row,
                       !.pc = IF row.inst = r.to.inst THEN "accreditation" ELSE "issue"])
    /\ Reads

GateAccreditation(w) ==
    LET r == requests[w]
        effective == Effective(r.to.inst, r.cred.gate.prog, r.cred.date)
    IN /\ At(w, "accreditation", "issue")
       /\ \/ effective = {} /\ Go(w, Done)
          \/ \E k \in effective : Go(w, [r EXCEPT !.cred.evidence = k, !.pc = "issue"])
       /\ Reads

\* Mutant: the controller does not compare the student's institution.
ForeignStudentBug(w) ==
    LET r == requests[w]  row == students[r.student] IN
    /\ At(w, "issue", "issue")
    /\ Go(w, IF row.inst = NoInst \/ ~Within(r, r.to.inst) THEN Done
             ELSE [r EXCEPT !.read = row, !.pc = "institution"])
    /\ Reads

\* issueCredential reads the student again.
IssueStudent(w) ==
    LET r == requests[w]  row == students[r.student] IN
    /\ At(w, "issue", "issue")
    /\ Go(w, IF row.inst # r.to.inst \/ ~Within(r, r.to.inst) THEN Done
             ELSE [r EXCEPT !.read = row, !.pc = "institution"])
    /\ Reads

\* Mutant: the programme is the record's, which an institution-wide one does not have.
RecordProgrammeBug(w) ==
    LET r == requests[w] IN
    /\ At(w, "insert", "issue")
    /\ Go(w, [r EXCEPT !.pc = "manifest"])
    /\ WriteCredential(w, [r.cred EXCEPT !.status = "processing", !.student = r.student,
                             !.inst = r.to.inst,
                             !.prog = IF r.cred.evidence = NoRecord THEN r.read.prog
                                      ELSE accreditations[r.cred.evidence].prog])

\* createProcessingCredential, with what the request and the student's row said.
IssueInsert(w) ==
    LET r == requests[w] IN
    /\ At(w, "insert", "issue")
    /\ Go(w, [r EXCEPT !.pc = "manifest"])
    /\ WriteCredential(w, [r.cred EXCEPT !.status = "processing", !.student = r.student,
                                         !.inst = r.to.inst, !.prog = r.read.prog])

IssueManifest(w) ==
    LET r == requests[w] IN
    /\ At(w, "manifest", "issue")
    /\ Go(w, [r EXCEPT !.pc = IF r.cred.evidence # NoRecord THEN "proof" ELSE "chain"])
    /\ WriteCredential(w, [credentials[w] EXCEPT !.manifest = TRUE])

\* Only an issuance with evidence is signed; the others stay legacy-v1.
IssueProof(w) ==
    /\ At(w, "proof", "issue")
    /\ Go(w, [requests[w] EXCEPT !.pc = "chain"])
    /\ WriteCredential(w, [credentials[w] EXCEPT !.proof = TRUE])

\* The rest of the issuance, see CredentialLifecycle.
IssueFinish(w) ==
    /\ At(w, "chain", "issue")
    /\ Go(w, Done)
    /\ WriteCredential(w, [credentials[w] EXCEPT !.status = "active"])

\* An await throws or the process exits.  The catch block of issueCredential marks an
\* inserted row, if it still can.
Abort(w) ==
    /\ requests[w].pc \notin {"idle", "done"}
    /\ Go(w, Done)
    /\ \/ Reads
       \/ /\ credentials[w].status = "processing"
          /\ WriteCredential(w, [credentials[w] EXCEPT !.status = "failed"])

-----------------------------------------------------------------------------
(* The institution row that issuance, creation and reassignment read.      *)

CheckInstitution(w) ==
    LET r == requests[w] IN
    /\ r.pc = "institution"
    /\ Go(w, IF ~institutions[r.to.inst] THEN Done
             ELSE [r EXCEPT !.pc = IF r.op = "reassign" THEN "count" ELSE "insert"])
    /\ Reads

(* Students.                                                               *)

CreateBegin(w, u, s, i, p) ==
    /\ requests[w] = Idle /\ MayAsk(u, "create")
    /\ Within([role |-> accounts[u].role, inst |-> accounts[u].inst], i)
    /\ Go(w, [Serve(u, "create", s) EXCEPT !.to.inst = i, !.to.prog = p, !.pc = "institution"])
    /\ Reads

\* Of two creations of one student, UNIQUE (institution_id, student_number) fails one.
CreateInsert(w) ==
    LET r == requests[w] IN
    /\ At(w, "insert", "create")
    /\ Go(w, Done)
    /\ IF students[r.student].inst # NoInst THEN Reads
       ELSE WriteStudent(r.student, [inst |-> r.to.inst, prog |-> r.to.prog, user |-> NoUser])

\* update, assignInstitution and linkAccount begin by reading the student.
StudentBegin(w, u, op, s, to) ==
    /\ requests[w] = Idle /\ MayAsk(u, op)
    /\ Go(w, [Serve(u, op, s) EXCEPT !.pc = "student", !.to = to])
    /\ Reads

ReadStudent(w) ==
    LET r == requests[w]  row == students[r.student] IN
    /\ r.pc = "student" /\ r.op \in {"edit", "reassign", "link"}
    /\ Go(w, IF \/ row.inst = NoInst \/ ~Within(r, row.inst)
                \/ r.op = "link" /\ row.user # NoUser
             THEN Done
             ELSE [r EXCEPT !.read = row,
                            !.pc = CASE r.op = "edit" -> "update"
                                     [] r.op = "reassign" -> "institution"
                                     [] r.op = "link" -> "account"])
    /\ Reads

EditUpdate(w) ==
    LET s == requests[w].student IN
    /\ At(w, "update", "edit")
    /\ WriteStudent(s, [students[s] EXCEPT !.prog = requests[w].to.prog])
    /\ Go(w, Done)

HasCredentials(s) == \E w \in Requests : credentials[w].student = s

CountCredentials(w) ==
    LET r == requests[w] IN
    /\ At(w, "count", "reassign")
    /\ Go(w, IF HasCredentials(r.student) THEN Done ELSE [r EXCEPT !.pc = "update"])
    /\ Reads

ReassignUpdate(w) ==
    LET s == requests[w].student IN
    /\ At(w, "update", "reassign")
    /\ WriteStudent(s, [students[s] EXCEPT !.inst = requests[w].to.inst])
    /\ Go(w, Done)

LinkAccount(w) ==
    LET r == requests[w]  account == accounts[r.to.user] IN
    /\ At(w, "account", "link")
    /\ Go(w, IF /\ account.role = "student" /\ account.active
                /\ account.inst # NoInst => institutions[account.inst]
                /\ account.inst = r.read.inst
             THEN [r EXCEPT !.pc = "update"] ELSE Done)
    /\ Reads

\* Mutant: UPDATE ... WHERE id = $1 only.
OverwrittenLinkBug(w) ==
    LET r == requests[w]  free == \A t \in Students : students[t].user # r.to.user IN
    /\ At(w, "update", "link")
    /\ IF free THEN WriteStudent(r.student, [students[r.student] EXCEPT !.user = r.to.user])
       ELSE Reads
    /\ Go(w, Done)

\* linkStudentToUser: AND user_id IS NULL, and uq_students_user_id.
LinkUpdate(w) ==
    LET r == requests[w]
        free == /\ students[r.student].user = NoUser
                /\ \A t \in Students : students[t].user # r.to.user
    IN /\ At(w, "update", "link")
       /\ IF free THEN WriteStudent(r.student, [students[r.student] EXCEPT !.user = r.to.user])
          ELSE Reads
       /\ Go(w, Done)

-----------------------------------------------------------------------------
(* Disclosure.                                                             *)

\* A student's row, read and judged in one step.
StudentView(w, u, s) ==
    LET row == students[s]  r == Serve(u, "view", s) IN
    /\ requests[w] = Idle /\ MayAsk(u, "view") /\ accounts[u].role # "student"
    /\ row.inst # NoInst /\ Within(r, row.inst)
    /\ Disclose(r, "row", row.inst, s)
    /\ Go(w, Done)

\* Staff is judged by the credential's institution, a student by one more read.
ShowCredential(w, u, op, c, statuses) ==
    LET r == Serve(u, op, credentials[c].student) IN
    /\ requests[w] = Idle /\ MayAsk(u, op) /\ credentials[c].status # "none"
    /\ IF r.role = "student"
       THEN Go(w, [r EXCEPT !.pc = "owner", !.cred = credentials[c]]) /\ Reads
       ELSE /\ Within(r, credentials[c].inst) /\ credentials[c].status \in statuses
            /\ Disclose(r, "row", credentials[c].inst, r.student)
            /\ Go(w, Done)

Certified == {"active", "revoked"}
GetOneCredential(w, u, c) ==
    ShowCredential(w, u, "view", c, Certified \cup {"processing", "failed"})
GenerateCredentialPdf(w, u, c) == ShowCredential(w, u, "generate", c, Certified)
DownloadCredentialPdf(w, u, c) == ShowCredential(w, u, "pdf", c, Certified)

\* Mutant: any student profile will do.
AnyProfileBug(w) ==
    LET r == requests[w] IN
    /\ r.pc = "owner"
    /\ IF /\ \E s \in Students : students[s].user = r.actor
          /\ r.op = "pdf" => r.cred.status \in Certified
       THEN Disclose(r, "own", r.cred.inst, r.student) ELSE Reads
    /\ Go(w, Done)

\* studentOwnsCredential.
CheckOwner(w) ==
    LET r == requests[w] IN
    /\ r.pc = "owner"
    /\ IF /\ students[r.student].user = r.actor
          /\ r.op = "pdf" => r.cred.status \in Certified
       THEN Disclose(r, "own", r.cred.inst, r.student) ELSE Reads
    /\ Go(w, Done)

\* listMyCredentials: the profile, then its credentials.
MineBegin(w, u) ==
    /\ requests[w] = Idle /\ MayAsk(u, "mine")
    /\ \E s \in Students :
          /\ students[s].user = u
          /\ Go(w, [Serve(u, "mine", s) EXCEPT !.pc = "list"])
    /\ Reads
MineList(w) ==
    /\ At(w, "list", "mine")
    /\ Disclose(requests[w], "own", NoInst, requests[w].student)
    /\ Go(w, Done)

\* A listing that refuses a foreign institution, one that overwrites what was asked.
Listing(w, u, readers, what, scope) ==
    /\ requests[w] = Idle /\ Authorised(u) /\ accounts[u].role \in readers
    /\ Disclose(Serve(u, "view", NoStudent), what, scope, NoStudent)
    /\ Go(w, Done)
Refusing(w, u, readers, open, asked) ==
    IF accounts[u].role \in open THEN Listing(w, u, readers, "open list", asked)
    ELSE /\ asked \in {NoInst, accounts[u].inst}
         /\ Listing(w, u, readers, "list", accounts[u].inst)
Pinning(w, u, readers, asked) ==
    IF accounts[u].role = "super_admin" THEN Listing(w, u, readers, "open list", asked)
    ELSE Listing(w, u, readers, "list", accounts[u].inst)

ListStudents(w, u, asked) == Refusing(w, u, Staff, {"super_admin"}, asked)
ListCredentials(w, u, asked) == Refusing(w, u, Staff, {"super_admin"}, asked)
ListAccreditations(w, u, asked) ==
    Refusing(w, u, Staff \cup {"regulator"}, {"super_admin", "regulator"}, asked)
ListVerificationLogs(w, u, asked) ==
    Refusing(w, u, {"super_admin", "institution_admin"}, {"super_admin"}, asked)
GetAuditLogs(w, u, asked) == Pinning(w, u, {"super_admin", "institution_admin"}, asked)
DashboardSummary(w, u) == Pinning(w, u, Staff, NoInst)
DashboardOperations(w, u) == Pinning(w, u, Staff \ {"verifier"}, NoInst)
ListInstitutions(w, u) == Listing(w, u, Staff \cup {"regulator"}, "open list", NoInst)

-----------------------------------------------------------------------------
(* What else happens to the tables.                                        *)

Event == events < MaxEvents /\ events' = events + 1 /\ UNCHANGED <<requests, answers>>

\* The regulator's create and changeStatus; amendMetadata changes a record's label only.
RecordAccreditation(k, a) ==
    /\ accreditations[k].status = "none"
    /\ accreditations' = [accreditations EXCEPT ![k] = a]
    /\ Event /\ UNCHANGED <<accounts, institutions, students, credentials>>
ChangeAccreditation(k, status) ==
    /\ accreditations[k].status # "none"
    /\ accreditations' = [accreditations EXCEPT ![k].status = status]
    /\ Event /\ UNCHANGED <<accounts, institutions, students, credentials>>

ToggleInstitution(i) ==
    /\ institutions' = [institutions EXCEPT ![i] = ~@]
    /\ Event /\ UNCHANGED <<accounts, students, accreditations, credentials>>

\* userController.js, see UserAccounts.
ChangeAccount(u, a) ==
    /\ accounts' = [accounts EXCEPT ![u] = a]
    /\ Event /\ UNCHANGED <<institutions, students, accreditations, credentials>>

Revoke(w) ==
    /\ credentials[w].status = "active"
    /\ credentials' = [credentials EXCEPT ![w].status = "revoked"]
    /\ Event /\ UNCHANGED tables

-----------------------------------------------------------------------------
Arrive(w) == \E u \in Users :
    \/ \E s \in Students, i \in Institutions, d \in Dates : IssueBegin(w, u, s, i, d)
    \/ \E s \in Students, i \in Institutions, p \in Programmes : CreateBegin(w, u, s, i, p)
    \/ \E s \in Students, p \in Programmes :
          StudentBegin(w, u, "edit", s, [NotThere EXCEPT !.prog = p])
    \/ \E s \in Students, i \in Institutions :
          StudentBegin(w, u, "reassign", s, [NotThere EXCEPT !.inst = i])
    \/ \E s \in Students, v \in Users :
          StudentBegin(w, u, "link", s, [NotThere EXCEPT !.user = v])
    \/ \E s \in Students : StudentView(w, u, s)
    \/ \E c \in Requests :
          \/ GetOneCredential(w, u, c) \/ GenerateCredentialPdf(w, u, c)
          \/ DownloadCredentialPdf(w, u, c)
    \/ MineBegin(w, u)
    \/ \E i \in Insts :
          \/ ListStudents(w, u, i) \/ ListCredentials(w, u, i) \/ ListAccreditations(w, u, i)
          \/ ListVerificationLogs(w, u, i) \/ GetAuditLogs(w, u, i)
    \/ DashboardSummary(w, u) \/ DashboardOperations(w, u) \/ ListInstitutions(w, u)

Step(w) ==
    \/ GateStudent(w) \/ GateAccreditation(w) \/ IssueStudent(w) \/ IssueInsert(w)
    \/ IssueManifest(w) \/ IssueProof(w) \/ IssueFinish(w) \/ Abort(w)
    \/ CheckInstitution(w) \/ CreateInsert(w)
    \/ ReadStudent(w) \/ EditUpdate(w) \/ CountCredentials(w) \/ ReassignUpdate(w)
    \/ LinkAccount(w) \/ LinkUpdate(w)
    \/ CheckOwner(w) \/ MineList(w)

Around ==
    \/ \E k \in Records, a \in Decisions : RecordAccreditation(k, a)
    \/ \E k \in Records, x \in {"accredited", "suspended", "revoked"} : ChangeAccreditation(k, x)
    \/ \E i \in Institutions : ToggleInstitution(i)
    \/ \E u \in Users, a \in Accounts : ChangeAccount(u, a)
    \/ \E w \in Requests : Revoke(w)

\* An issuance holds the student's row while a reassignment holds an empty count.
Racing(s) == \E v, w \in Requests :
    /\ requests[v].op = "issue" /\ requests[v].student = s
    /\ requests[v].pc \in {"institution", "insert"}
    /\ At(w, "update", "reassign") /\ requests[w].student = s

Next ==
    /\ (\E w \in Requests : Arrive(w) \/ Step(w)) \/ Around
    /\ raced' = raced \cup {s \in Students : Racing(s)'}

Spec == Init /\ [][Next]_vars

-----------------------------------------------------------------------------
(* Properties.                                                             *)

\* Whatever was disclosed is still what its reader may see: a student's credentials went
\* to the account that is linked to the student, rows and lists to staff of the
\* institution they belong to.  Only a super administrator, the regulator's accreditation
\* list and the directory of institutions are not bound to an institution.
DisclosedToOwners ==
    \A a \in answers :
        /\ a.what = "own" => a.role = "student" /\ students[a.student].user = a.user
        /\ a.what = "row" => a.role = "super_admin" \/ a.scope = a.inst
        /\ a.what = "list" => a.scope = a.inst /\ a.scope # NoInst

\* A student keeps the account that was linked first, whatever is edited, reassigned or
\* linked at the same time, and two students never share one (studentModel.js:88-96).
LinkedForGood ==
    [][/\ \A s \in Students :
            students[s].user # NoUser => students'[s].user = students[s].user
       /\ \A s, t \in Students :
            students'[s].user # NoUser /\ students'[s].user = students'[t].user => s = t]_vars

\* "Historical credential ownership must remain unchanged": a student whose credential is
\* of another institution was reassigned in between the reads of the issuance and its
\* INSERT, by a reassignment that had counted before (studentController.js:186).
SplitsAreRaces ==
    \A w \in Requests :
        LET c == credentials[w] IN
        c.status # "none" /\ students[c.student].inst # c.inst => c.student \in raced

\* A credential is covered by an accreditation record for its institution, programme and
\* date, unless the student's row changed between the two times one issuance read it
\* (accreditationIssuanceMiddleware.js:71 lets what it cannot judge pass, and the
\* controller reads the row again).
GapsAreRaces ==
    \A w \in Requests :
        LET c == credentials[w] IN
        c.status # "none" /\ c.gate.inst = c.inst /\ c.gate.prog = c.prog =>
            /\ c.evidence # NoRecord
            /\ Covers([accreditations[c.evidence] EXCEPT !.status = "accredited"],
                      c.inst, c.prog, c.date)
=============================================================================
