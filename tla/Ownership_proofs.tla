-------------------------- MODULE Ownership_proofs --------------------------
(* For any tables, dates and requests: what is disclosed goes to its owner,  *)
(* links are for good, and credentials whose student is elsewhere or whose   *)
(* award no accreditation covers come from races only.                       *)
EXTENDS Ownership, TLAPS

USE OwnershipAssumption

-----------------------------------------------------------------------------
(* The inductive invariant.                                                *)

\* A record that was there, whatever its status is by now, for this award.
Covered(k, ac, i, p, d) ==
    /\ k \in Records /\ ac[k].status # "none" /\ ac[k].inst = i /\ ac[k].prog \in {p, AnyProg}
    /\ ac[k].from <= d /\ d <= ac[k].to

Issuing(r)     == r.op = "issue" /\ r.pc \in {"institution", "insert"}
Reassigning(r) == r.op = "reassign" /\ r.pc = "update"
Inserted(r)    == r.op = "issue" /\ r.pc \in {"manifest", "proof", "chain"}

\* What is known of a handler by where it stands.
Shape(r) ==
    /\ r.pc \notin {"idle", "done"} => r.student \in Students /\ r.actor \in Users
    /\ r.op \in {"issue", "create", "reassign"} => r.to.inst \in Institutions
    /\ r.op = "link" => r.to.user \in Users
    /\ r.op = "issue" /\ r.pc = "accreditation" => r.cred.gate.inst = r.to.inst
    /\ r.pc \in {"owner", "list"} => r.role = "student"

\* And with the tables it has read.
Placed(r, st, ac, rc) ==
    /\ r.pc = "list" => st[r.student].user = r.actor
    /\ \/ Issuing(r)
       \/ r.op \in {"edit", "reassign", "link"} /\ r.pc \in {"institution", "count", "account", "update"}
       => st[r.student].inst # NoInst
    /\ Issuing(r) => r.student \in rc \/ st[r.student].inst = r.to.inst
    /\ r.op = "issue" /\ r.pc \in {"issue", "institution", "insert"} /\ r.cred.gate.inst = r.to.inst =>
          Covered(r.cred.evidence, ac, r.to.inst, r.cred.gate.prog, r.cred.date)

\* A credential: its student is of its institution, and its award was covered.
Issued(c, st, ac, rc) ==
    c.status # "none" =>
        /\ c.student \in Students /\ st[c.student].inst # NoInst
        /\ c.student \in rc \/ st[c.student].inst = c.inst
        /\ c.gate.inst = c.inst /\ c.gate.prog = c.prog =>
              Covered(c.evidence, ac, c.inst, c.prog, c.date)

Has(cs, s) == \E v \in Requests : cs[v].status # "none" /\ cs[v].student = s

\* Nobody is linked twice, nor before being there.
Linked(st) == \A s, t \in Students :
    /\ st[s].user = st[t].user => s = t \/ st[s].user = NoUser
    /\ st[s].inst = NoInst => st[s].user = NoUser

Disclosed(a, st) ==
    /\ a.what = "own" => /\ a.role = "student" /\ a.student \in Students
                         /\ st[a.student].user = a.user
    /\ a.what = "row" => a.role = "super_admin" \/ a.scope = a.inst
    /\ a.what = "list" => a.scope = a.inst /\ a.scope # NoInst

\* An issuance that has inserted has a credential; a reassignment that has counted found
\* none, and one that came since has raced with it.
Met(w) ==
    /\ Inserted(requests[w]) => credentials[w].status # "none"
    /\ Reassigning(requests[w]) /\ Has(credentials, requests[w].student) => requests[w].student \in raced

IInv == /\ TypeOK
        /\ Linked(students)
        /\ \A w \in Requests : Shape(requests[w]) /\ Placed(requests[w], students, accreditations, raced)
        /\ \A w \in Requests : Issued(credentials[w], students, accreditations, raced)
        /\ \A w \in Requests : Met(w)
        /\ \A s \in Students : Racing(s) => s \in raced
        /\ \A a \in answers : Disclosed(a, students)

-----------------------------------------------------------------------------
(* How the tables may change.                                              *)

Noted == raced' = raced \cup {s \in Students : Racing(s)'}

\* Students stay, and keep their account.
StudentsStay(st, su) ==
    \A s \in Students : /\ st[s].inst # NoInst => su[s].inst # NoInst
                        /\ st[s].user # NoUser => su[s].user = st[s].user

\* One moves only if nobody relies on where it is, or the race has been noted.
MovesNoted(st, su) ==
    \A s \in Students : su[s].inst # st[s].inst /\ st[s].inst # NoInst =>
        \/ s \in raced
        \/ ~Has(credentials, s) /\ \A v \in Requests : ~(Issuing(requests[v]) /\ requests[v].student = s)

\* Records stay, but for their status.
RecordsStay(ac, ad) ==
    \A k \in Records : ac[k].status # "none" =>
        /\ ad[k].status # "none" /\ ad[k].inst = ac[k].inst /\ ad[k].prog = ac[k].prog
        /\ ad[k].from = ac[k].from /\ ad[k].to = ac[k].to

LEMMA CoveredStays ==
  ASSUME NEW ac, NEW ad, RecordsStay(ac, ad), NEW k, NEW i, NEW p, NEW d, Covered(k, ac, i, p, d)
  PROVE  Covered(k, ad, i, p, d)
  BY DEF RecordsStay, Covered

LEMMA RacedGrows == ASSUME IInv, Noted
  PROVE /\ raced \subseteq raced' /\ raced' \subseteq Students
        /\ \A s \in Students : Racing(s)' => s \in raced'
  BY DEF IInv, TypeOK, Noted

LEMMA PlacedStays ==
  ASSUME NEW st, NEW su, NEW ac, NEW ad, NEW rc, NEW rd, NEW r, Shape(r), Placed(r, st, ac, rc),
         StudentsStay(st, su), RecordsStay(ac, ad), rc \subseteq rd,
         Issuing(r) => su[r.student].inst = st[r.student].inst \/ r.student \in rd
  PROVE  Placed(r, su, ad, rd)
<1>1. CASE r.pc \in {"idle", "done"}
  BY <1>1 DEF Placed, Issuing
<1>2. CASE r.pc \notin {"idle", "done"}
  <2>1. r.student \in Students /\ r.actor \in Users /\ r.actor # NoUser
    BY <1>2 DEF Shape
  <2>2. r.pc = "list" => su[r.student].user = r.actor
    BY <2>1 DEF Placed, StudentsStay
  <2>3. st[r.student].inst # NoInst => su[r.student].inst # NoInst
    BY <2>1 DEF StudentsStay
  <2>4. r.op = "issue" /\ r.pc \in {"issue", "institution", "insert"} /\ r.cred.gate.inst = r.to.inst =>
          Covered(r.cred.evidence, ad, r.to.inst, r.cred.gate.prog, r.cred.date)
    BY CoveredStays DEF Placed
  <2>5. Issuing(r) => r.student \in rd \/ su[r.student].inst = r.to.inst
    BY DEF Placed
  <2> QED
    BY <2>2, <2>3, <2>4, <2>5 DEF Placed
<1> QED
  BY <1>1, <1>2

LEMMA IssuedStays ==
  ASSUME NEW st, NEW su, NEW ac, NEW ad, NEW rc, NEW rd, NEW c, Issued(c, st, ac, rc),
         StudentsStay(st, su), RecordsStay(ac, ad), rc \subseteq rd,
         c.status # "none" => su[c.student].inst = st[c.student].inst \/ c.student \in rd
  PROVE  Issued(c, su, ad, rd)
<1> SUFFICES ASSUME c.status # "none" PROVE Issued(c, su, ad, rd)
  BY DEF Issued
<1>1. c.student \in Students /\ su[c.student].inst # NoInst
  BY DEF Issued, StudentsStay
<1>2. c.student \in rd \/ su[c.student].inst = c.inst
  BY DEF Issued
<1>3. c.gate.inst = c.inst /\ c.gate.prog = c.prog => Covered(c.evidence, ad, c.inst, c.prog, c.date)
  BY CoveredStays DEF Issued
<1> QED
  BY <1>1, <1>2, <1>3 DEF Issued

\* What the tables' changes leave true of handlers, credentials and answers.
LEMMA TablesKeep ==
  ASSUME IInv, Noted, StudentsStay(students, students'), MovesNoted(students, students'),
         RecordsStay(accreditations, accreditations')
  PROVE  /\ \A w \in Requests : Placed(requests[w], students', accreditations', raced')
         /\ \A w \in Requests : Issued(credentials[w], students', accreditations', raced')
         /\ \A a \in answers : Disclosed(a, students')
<1>1. raced \subseteq raced'
  BY RacedGrows
<1>2. ASSUME NEW w \in Requests PROVE Placed(requests[w], students', accreditations', raced')
  <2> DEFINE r == requests[w]
  <2>1. Shape(r) /\ Placed(r, students, accreditations, raced)
    BY DEF IInv
  <2>2. Issuing(r) => students'[r.student].inst = students[r.student].inst \/ r.student \in raced'
    <3> SUFFICES ASSUME Issuing(r), students'[r.student].inst # students[r.student].inst
                 PROVE  r.student \in raced'
      OBVIOUS
    <3>1. r.student \in Students /\ students[r.student].inst # NoInst
      BY <2>1 DEF Issuing, Shape, Placed
    <3> QED
      BY <1>1, <3>1 DEF MovesNoted
  <2> HIDE DEF r
  <2>3. Placed(r, students', accreditations', raced')
    BY <1>1, <2>1, <2>2, PlacedStays
  <2> QED
    BY <2>3 DEF r
<1>3. ASSUME NEW w \in Requests PROVE Issued(credentials[w], students', accreditations', raced')
  <2> DEFINE c == credentials[w]
  <2>1. Issued(c, students, accreditations, raced)
    BY DEF IInv
  <2>2. c.status # "none" => students'[c.student].inst = students[c.student].inst \/ c.student \in raced'
    <3> SUFFICES ASSUME c.status # "none", students'[c.student].inst # students[c.student].inst
                 PROVE  c.student \in raced'
      OBVIOUS
    <3>1. c.student \in Students /\ students[c.student].inst # NoInst /\ Has(credentials, c.student)
      BY <2>1 DEF Issued, Has
    <3> QED
      BY <1>1, <3>1 DEF MovesNoted
  <2> HIDE DEF c
  <2>3. Issued(c, students', accreditations', raced')
    BY <1>1, <2>1, <2>2, IssuedStays
  <2> QED
    BY <2>3 DEF c
<1>4. ASSUME NEW a \in answers PROVE Disclosed(a, students')
  <2>1. a \in Answer /\ Disclosed(a, students)
    BY DEF IInv, TypeOK
  <2>2. a.user \in Users /\ a.student \in Students \cup {NoStudent}
    BY <2>1 DEF Answer
  <2> QED
    BY <2>1, <2>2 DEF Disclosed, StudentsStay
<1> QED
  BY <1>2, <1>3, <1>4

-----------------------------------------------------------------------------
(* How a step keeps the invariant.                                         *)

\* Of a request's step.  Its handler and its credential are where they may be; no other
\* credential changes, and one that appears finds nobody who has counted, or a race.
LEMMA Frame ==
  ASSUME IInv, Noted, NEW w \in Requests, NEW q \in Handler, Go(w, q),
         Shape(q), Placed(q, students', accreditations', raced'),
         UNCHANGED <<accounts, institutions, accreditations, events>>,
         students' \in [Students -> Student], Linked(students'),
         StudentsStay(students, students'), MovesNoted(students, students'),
         NEW c \in Credential, credentials' = [credentials EXCEPT ![w] = c],
         Issued(c, students', accreditations', raced'), Inserted(q) => c.status # "none",
         \/ c.status # "none" /\ c.student \in Students => Has(credentials, c.student)
         \/ Issuing(requests[w]) /\ c.student = requests[w].student,
         Reassigning(q) => ~Has(credentials, q.student) /\ (c.status # "none" => c.student # q.student),
         answers' \subseteq Answer, \A a \in answers' \ answers : Disclosed(a, students')
  PROVE  IInv'
<1>1. requests' = [requests EXCEPT ![w] = q] /\ requests \in [Requests -> Handler]
      /\ credentials \in [Requests -> Credential]
  BY DEF Go, IInv, TypeOK
<1>2. raced \subseteq raced' /\ raced' \subseteq Students /\ \A s \in Students : Racing(s)' => s \in raced'
  BY RacedGrows
<1>3. TypeOK'
  BY <1>1, <1>2 DEF IInv, TypeOK
<1>4. RecordsStay(accreditations, accreditations')
  BY DEF RecordsStay
<1>5. /\ \A v \in Requests : Placed(requests[v], students', accreditations', raced')
      /\ \A v \in Requests : Issued(credentials[v], students', accreditations', raced')
      /\ \A a \in answers : Disclosed(a, students')
  BY <1>4, TablesKeep
<1>6. \A v \in Requests : Shape(requests'[v]) /\ Placed(requests'[v], students', accreditations', raced')
  BY <1>1, <1>5 DEF IInv
<1>7. \A v \in Requests : Issued(credentials'[v], students', accreditations', raced')
  BY <1>1, <1>5
<1>8. ASSUME NEW v \in Requests PROVE Met(v)'
  <2>1. CASE v = w
    <3>1. requests'[v] = q /\ credentials'[v] = c
      BY <1>1, <2>1
    <3>2. Reassigning(q) => ~Has(credentials', q.student)
      BY <1>1 DEF Has
    <3> QED
      BY <3>1, <3>2 DEF Met
  <2>2. CASE v # w
    <3>1. requests'[v] = requests[v] /\ credentials'[v] = credentials[v]
      BY <1>1, <2>2
    <3>2. Met(v)
      BY DEF IInv
    <3>3. ASSUME Reassigning(requests[v]), Has(credentials', requests[v].student)
          PROVE  requests[v].student \in raced'
      <4>1. requests[v].student \in Students
        BY <3>3 DEF IInv, Shape, Reassigning
      <4>2. CASE Has(credentials, requests[v].student)
        BY <1>2, <3>2, <3>3, <4>2 DEF Met
      <4>3. CASE ~Has(credentials, requests[v].student)
        <5>1. c.status # "none" /\ c.student = requests[v].student
          BY <1>1, <3>3, <4>3 DEF Has
        <5>2. Issuing(requests[w]) /\ c.student = requests[w].student
          BY <4>1, <4>3, <5>1
        <5>3. Racing(requests[v].student)
          BY <3>3, <5>1, <5>2 DEF Racing, At, Issuing, Reassigning
        <5> QED
          BY <1>2, <4>1, <5>3 DEF IInv
      <4> QED
        BY <4>2, <4>3
    <3> QED
      BY <3>1, <3>2, <3>3 DEF Met
  <2> QED
    BY <2>1, <2>2
<1>9. \A a \in answers' : Disclosed(a, students')
  BY <1>5
<1> QED
  BY <1>2, <1>3, <1>6, <1>7, <1>8, <1>9 DEF IInv

LEMMA SameStudents == ASSUME NEW st PROVE StudentsStay(st, st) /\ MovesNoted(st, st)
  BY DEF StudentsStay, MovesNoted

\* Nothing but the handler and what is disclosed changes.
LEMMA PutKeeps ==
  ASSUME IInv, Noted, NEW w \in Requests, NEW q \in Handler, Go(w, q),
         Shape(q), Placed(q, students, accreditations, raced'),
         UNCHANGED <<tables, credentials, events>>,
         Inserted(q) => credentials[w].status # "none",
         Reassigning(q) => ~Has(credentials, q.student),
         answers' \subseteq Answer, \A a \in answers' \ answers : Disclosed(a, students)
  PROVE  IInv'
<1> DEFINE c == credentials[w]
<1>1. UNCHANGED <<accounts, institutions, accreditations, events, students>> /\ credentials' = credentials
  BY DEF tables
<1>2. c \in Credential /\ credentials' = [credentials EXCEPT ![w] = c]
  BY <1>1 DEF IInv, TypeOK
<1>3. students' \in [Students -> Student] /\ Linked(students')
  BY <1>1 DEF IInv, TypeOK
<1>4. StudentsStay(students, students') /\ MovesNoted(students, students')
  BY <1>1, SameStudents
<1>5. RecordsStay(accreditations, accreditations')
  BY <1>1 DEF RecordsStay
<1>6. Issued(c, students', accreditations', raced')
  BY <1>4, <1>5, TablesKeep
<1>7. c.status # "none" => Has(credentials, c.student)
  BY DEF Has
<1>8. /\ Inserted(q) => c.status # "none"
      /\ Reassigning(q) => ~Has(credentials, q.student) /\ (c.status # "none" => c.student # q.student)
  BY DEF Has
<1>9. Placed(q, students', accreditations', raced') /\ \A a \in answers' \ answers : Disclosed(a, students')
  BY <1>1
<1> HIDE DEF c
<1> QED
  BY <1>1, <1>2, <1>3, <1>4, <1>6, <1>7, <1>8, <1>9, Frame

LEMMA DoneFits ==
  /\ Done \in Handler /\ Shape(Done) /\ \A st, ac, rc : Placed(Done, st, ac, rc)
  /\ ~Inserted(Done) /\ ~Reassigning(Done) /\ ~Issuing(Done)
<1>1. AnyProgramme \in Programmes
  BY DEF AnyProgramme
<1>2. Done \in Handler /\ Idle \in Handler /\ NotThere \in Student /\ NoCredential \in Credential
  BY <1>1 DEF Done, Idle, Handler, NotThere, Student, NoCredential, Credential, Insts
<1> QED
  BY <1>2 DEF Done, Idle, Shape, Placed, Inserted, Reassigning, Issuing

\* A step that only reads.
LEMMA ReadKeeps ==
  ASSUME IInv, Noted, NEW w \in Requests, NEW q \in Handler, Go(w, q), Reads,
         Shape(q), Placed(q, students, accreditations, raced'),
         Inserted(q) => credentials[w].status # "none",
         Reassigning(q) => ~Has(credentials, q.student)
  PROVE  IInv'
<1>1. answers' = answers /\ answers' \subseteq Answer /\ UNCHANGED <<tables, credentials, events>>
  BY DEF Reads, IInv, TypeOK
<1> QED
  BY <1>1, PutKeeps

LEMMA RefusalKeeps == ASSUME IInv, Noted, NEW w \in Requests, Go(w, Done), Reads PROVE IInv'
  BY DoneFits, ReadKeeps

\* A step that writes a student's row and ends.
LEMMA StudentKeeps ==
  ASSUME IInv, Noted, NEW w \in Requests, Go(w, Done), NEW s \in Students, NEW row \in Student,
         WriteStudent(s, row),
         students[s].inst # NoInst => row.inst # NoInst,
         students[s].user # NoUser => row.user = students[s].user,
         row.inst # students[s].inst /\ students[s].inst # NoInst =>
             \/ s \in raced
             \/ /\ ~Has(credentials, s)
                /\ \A v \in Requests : ~(Issuing(requests[v]) /\ requests[v].student = s),
         row.inst = NoInst => row.user = NoUser,
         row.user # NoUser => \A t \in Students \ {s} : students[t].user # row.user
  PROVE  IInv'
<1>1. /\ students' = [students EXCEPT ![s] = row] /\ students \in [Students -> Student]
      /\ UNCHANGED <<accounts, institutions, accreditations, credentials, answers, events>>
  BY DEF WriteStudent, IInv, TypeOK
<1>2. students' \in [Students -> Student]
  BY <1>1
<1>3. Linked(students')
  BY <1>1 DEF IInv, Linked
<1>4. StudentsStay(students, students') /\ MovesNoted(students, students')
  BY <1>1 DEF StudentsStay, MovesNoted
<1>5. RecordsStay(accreditations, accreditations')
  BY <1>1 DEF RecordsStay
<1> DEFINE c == credentials[w]
<1>6. c \in Credential /\ credentials' = [credentials EXCEPT ![w] = c]
  BY <1>1 DEF IInv, TypeOK
<1>7. Issued(c, students', accreditations', raced')
  BY <1>4, <1>5, TablesKeep
<1>8. c.status # "none" => Has(credentials, c.student)
  BY DEF Has
<1>9. answers' = answers /\ answers' \subseteq Answer
  BY <1>1 DEF IInv, TypeOK
<1> HIDE DEF c
<1> QED
  BY <1>1, <1>2, <1>3, <1>4, <1>6, <1>7, <1>8, <1>9, DoneFits, Frame

\* A step that writes the request's credential.
LEMMA CredentialKeeps ==
  ASSUME IInv, Noted, NEW w \in Requests, NEW q \in Handler, Go(w, q), Shape(q),
         Placed(q, students, accreditations, raced'), ~Reassigning(q),
         NEW c \in Credential, WriteCredential(w, c),
         Issued(c, students, accreditations, raced'), Inserted(q) => c.status # "none",
         \/ c.status # "none" /\ c.student \in Students => Has(credentials, c.student)
         \/ Issuing(requests[w]) /\ c.student = requests[w].student
  PROVE  IInv'
<1>1. /\ credentials' = [credentials EXCEPT ![w] = c] /\ answers' = answers /\ students' = students
      /\ UNCHANGED <<accounts, institutions, accreditations, events>>
  BY DEF WriteCredential, tables
<1>2. students' \in [Students -> Student] /\ Linked(students') /\ answers' \subseteq Answer
  BY <1>1 DEF IInv, TypeOK
<1>3. StudentsStay(students, students') /\ MovesNoted(students, students')
  BY <1>1, SameStudents
<1> QED
  BY <1>1, <1>2, <1>3, Frame

-----------------------------------------------------------------------------
(* Handlers and their types.                                               *)

Places == {"idle", "done", "student", "accreditation", "issue", "institution", "insert",
           "manifest", "proof", "chain", "count", "account", "update", "owner", "list"}
Ops == {"none", "issue", "create", "edit", "reassign", "link", "view", "pdf", "generate", "mine"}
To  == [inst: Insts, prog: Programmes, user: Users \cup {NoUser}]

LEMMA Handling ==
  ASSUME IInv, Noted, NEW w \in Requests
  PROVE  /\ requests[w] \in Handler /\ Shape(requests[w])
         /\ Placed(requests[w], students, accreditations, raced')
         /\ Issued(credentials[w], students, accreditations, raced')
         /\ credentials[w] \in Credential /\ Met(w)
<1>1. raced \subseteq raced'
  BY RacedGrows
<1> QED
  BY <1>1 DEF IInv, TypeOK, Placed, Issued

LEMMA Moved ==
  ASSUME NEW r \in Handler, NEW pc \in Places
  PROVE  LET q == [r EXCEPT !.pc = pc] IN
         /\ q \in Handler /\ q.pc = pc /\ q.op = r.op /\ q.role = r.role /\ q.actor = r.actor
         /\ q.inst = r.inst /\ q.student = r.student /\ q.read = r.read /\ q.to = r.to
         /\ q.cred = r.cred
  BY DEF Handler, Places

LEMMA Constants ==
  /\ AnyProgramme \in Programmes /\ NoInst \in Insts /\ Institutions \subseteq Insts
  /\ NotThere \in Student /\ NotThere \in To /\ NoCredential \in Credential
  /\ NotThere.inst = NoInst /\ NoCredential.gate = NotThere /\ Idle \in Handler
<1>1. AnyProgramme \in Programmes
  BY DEF AnyProgramme
<1> QED
  BY <1>1 DEF NotThere, Student, To, NoCredential, Credential, Insts, Idle, Handler

LEMMA ServeTyped ==
  ASSUME IInv, NEW u \in Users, NEW op \in Ops, NEW s, s \in Students \/ s = NoStudent
  PROVE  LET r == Serve(u, op, s) IN
         /\ r \in Handler /\ r.pc = "idle" /\ r.op = op /\ r.actor = u /\ r.student = s
         /\ r.role = accounts[u].role /\ r.inst = accounts[u].inst
         /\ r.to = NotThere /\ r.cred = NoCredential
<1>1. accounts[u] \in Account
  BY DEF IInv, TypeOK
<1>2. accounts[u].role \in Roles /\ accounts[u].inst \in Insts
  BY <1>1 DEF Account, Insts
<1> DEFINE role == accounts[u].role
           inst == accounts[u].inst
           r == [Idle EXCEPT !.op = op, !.actor = u, !.role = role, !.inst = inst, !.student = s]
<1>3. Serve(u, op, s) = r
  BY DEF Serve
<1>4. role \in Roles /\ inst \in Insts
  BY <1>2
<1> HIDE DEF role, inst
<1>5. r \in Handler
  BY <1>4, Constants DEF Handler, Ops
<1>6. /\ r.pc = "idle" /\ r.op = op /\ r.actor = u /\ r.student = s /\ r.role = role /\ r.inst = inst
      /\ r.to = NotThere /\ r.cred = NoCredential
  BY DEF Idle
<1> QED
  BY <1>3, <1>5, <1>6 DEF role, inst

-----------------------------------------------------------------------------
(* Requests arrive.                                                        *)

LEMMA IssueBeginKeeps ==
  ASSUME IInv, Noted, NEW w \in Requests, NEW u \in Users, NEW s \in Students,
         NEW i \in Institutions, NEW d \in Dates, IssueBegin(w, u, s, i, d)
  PROVE  IInv'
<1> DEFINE r == Serve(u, "issue", s)
           pc == IF Within([role |-> accounts[u].role, inst |-> accounts[u].inst], i)
                 THEN "student" ELSE "issue"
           q == [r EXCEPT !.to.inst = i, !.cred.date = d, !.pc = pc]
<1>1. Go(w, q) /\ Reads
  BY DEF IssueBegin
<1>2. pc \in {"student", "issue"} /\ pc \in Places
  BY DEF Places
<1> HIDE DEF pc
<1>3. /\ r \in Handler /\ r.op = "issue" /\ r.actor = u /\ r.student = s
      /\ r.to = NotThere /\ r.cred = NoCredential
  BY ServeTyped DEF Ops
<1> HIDE DEF r
<1>4. [r.to EXCEPT !.inst = i] \in To /\ [r.cred EXCEPT !.date = d] \in Credential
  BY <1>3, Constants DEF To, Credential
<1>5. [r EXCEPT !.to = [r.to EXCEPT !.inst = i], !.cred = [r.cred EXCEPT !.date = d], !.pc = pc] \in Handler
  BY <1>2, <1>3, <1>4 DEF Handler, To, Places
<1>6. /\ q \in Handler /\ q.pc = pc /\ q.op = "issue" /\ q.actor = u /\ q.student = s
      /\ q.to.inst = i /\ q.cred.gate = NotThere
  BY <1>3, <1>5, Constants DEF Handler, To, Credential
<1> HIDE DEF q
<1>7. Shape(q) /\ Placed(q, students, accreditations, raced') /\ ~Inserted(q) /\ ~Reassigning(q)
  BY <1>2, <1>6, Constants DEF Shape, Placed, Issuing, Inserted, Reassigning
<1> QED
  BY <1>1, <1>6, <1>7, ReadKeeps

LEMMA CreateBeginKeeps ==
  ASSUME IInv, Noted, NEW w \in Requests, NEW u \in Users, NEW s \in Students,
         NEW i \in Institutions, NEW p \in Programmes, CreateBegin(w, u, s, i, p)
  PROVE  IInv'
<1> DEFINE r == Serve(u, "create", s)
           q == [r EXCEPT !.to.inst = i, !.to.prog = p, !.pc = "institution"]
<1>1. Go(w, q) /\ Reads
  BY DEF CreateBegin
<1>3. r \in Handler /\ r.op = "create" /\ r.actor = u /\ r.student = s /\ r.to = NotThere
  BY ServeTyped DEF Ops
<1> HIDE DEF r
<1>4. [r.to EXCEPT !.inst = i, !.prog = p] \in To
  BY <1>3, Constants DEF To
<1>5. [r EXCEPT !.to = [r.to EXCEPT !.inst = i, !.prog = p], !.pc = "institution"] \in Handler
  BY <1>3, <1>4 DEF Handler, To
<1>6. /\ q \in Handler /\ q.pc = "institution" /\ q.op = "create" /\ q.actor = u /\ q.student = s
      /\ q.to.inst = i
  BY <1>3, <1>5, Constants DEF Handler, To
<1> HIDE DEF q
<1>7. Shape(q) /\ Placed(q, students, accreditations, raced') /\ ~Inserted(q) /\ ~Reassigning(q)
  BY <1>6 DEF Shape, Placed, Issuing, Inserted, Reassigning
<1> QED
  BY <1>1, <1>6, <1>7, ReadKeeps

LEMMA StudentBeginKeeps ==
  ASSUME IInv, Noted, NEW w \in Requests, NEW u \in Users, NEW s \in Students,
         NEW op \in {"edit", "reassign", "link"}, NEW to \in To,
         op = "reassign" => to.inst \in Institutions, op = "link" => to.user \in Users,
         StudentBegin(w, u, op, s, to)
  PROVE  IInv'
<1> DEFINE r == Serve(u, op, s)
           q == [r EXCEPT !.pc = "student", !.to = to]
<1>1. Go(w, q) /\ Reads
  BY DEF StudentBegin
<1>2. r \in Handler /\ r.op = op /\ r.actor = u /\ r.student = s
  BY ServeTyped DEF Ops
<1> HIDE DEF r
<1>3. /\ q \in Handler /\ q.pc = "student" /\ q.op = op /\ q.actor = u /\ q.student = s /\ q.to = to
  BY <1>2 DEF Handler, To
<1> HIDE DEF q
<1>4. Shape(q) /\ Placed(q, students, accreditations, raced') /\ ~Inserted(q) /\ ~Reassigning(q)
  BY <1>3 DEF Shape, Placed, Issuing, Inserted, Reassigning
<1> QED
  BY <1>1, <1>3, <1>4, ReadKeeps

LEMMA MineBeginKeeps ==
  ASSUME IInv, Noted, NEW w \in Requests, NEW u \in Users, MineBegin(w, u) PROVE IInv'
<1>1. PICK s \in Students : /\ students[s].user = u
                            /\ Go(w, [Serve(u, "mine", s) EXCEPT !.pc = "list"])
  BY DEF MineBegin
<1>2. Reads /\ accounts[u].role = "student"
  BY DEF MineBegin, MayAsk
<1> DEFINE r == Serve(u, "mine", s)
           q == [r EXCEPT !.pc = "list"]
<1>3. r \in Handler /\ r.op = "mine" /\ r.actor = u /\ r.student = s /\ r.role = "student"
  BY <1>2, ServeTyped DEF Ops
<1>4. Go(w, q)
  BY <1>1
<1> HIDE DEF r
<1>5. q \in Handler /\ q.pc = "list" /\ q.op = "mine" /\ q.actor = u /\ q.student = s /\ q.role = "student"
  BY <1>3, Moved DEF Places
<1> HIDE DEF q
<1>6. Shape(q) /\ Placed(q, students, accreditations, raced') /\ ~Inserted(q) /\ ~Reassigning(q)
  BY <1>1, <1>5 DEF Shape, Placed, Issuing, Inserted, Reassigning
<1> QED
  BY <1>2, <1>4, <1>5, <1>6, ReadKeeps

\* What is disclosed is the last step of a request.
LEMMA DiscloseKeeps ==
  ASSUME IInv, Noted, NEW w \in Requests, Go(w, Done), NEW r \in Handler,
         r.actor \in Users, r.role \in Roles,
         NEW what \in {"own", "row", "list", "open list"}, NEW scope \in Insts,
         NEW s, s \in Students \/ s = NoStudent, Disclose(r, what, scope, s),
         what = "own" => r.role = "student" /\ s \in Students /\ students[s].user = r.actor,
         what = "row" => r.role = "super_admin" \/ scope = r.inst,
         what = "list" => scope = r.inst /\ scope # NoInst
  PROVE  IInv'
<1> DEFINE a == [what |-> what, user |-> r.actor, role |-> r.role, inst |-> r.inst,
                 scope |-> scope, student |-> s]
<1>1. answers' = answers \cup {a} /\ UNCHANGED <<tables, credentials, events>>
  BY DEF Disclose
<1>2. a \in Answer
  BY DEF Answer, Handler
<1>3. Disclosed(a, students)
  BY DEF Disclosed
<1> HIDE DEF a
<1>4. answers' \subseteq Answer /\ \A b \in answers' \ answers : Disclosed(b, students)
  BY <1>1, <1>2, <1>3 DEF IInv, TypeOK
<1> QED
  BY <1>1, <1>4, DoneFits, PutKeeps

LEMMA StudentViewKeeps ==
  ASSUME IInv, Noted, NEW w \in Requests, NEW u \in Users, NEW s \in Students, StudentView(w, u, s)
  PROVE  IInv'
<1> DEFINE r == Serve(u, "view", s)
<1>1. /\ r \in Handler /\ r.actor = u /\ r.role = accounts[u].role /\ r.inst = accounts[u].inst
  BY ServeTyped DEF Ops
<1>2. r.role \in Roles /\ students[s].inst \in Insts
  BY <1>1 DEF IInv, TypeOK, Account, Student, Insts
<1>3. Go(w, Done) /\ Disclose(r, "row", students[s].inst, s) /\ Within(r, students[s].inst)
  BY DEF StudentView
<1> HIDE DEF r
<1> QED
  BY <1>1, <1>2, <1>3, DiscloseKeeps DEF Within

LEMMA ShowCredentialKeeps ==
  ASSUME IInv, Noted, NEW w \in Requests, NEW u \in Users, NEW c \in Requests,
         NEW op \in {"view", "pdf", "generate"}, NEW statuses, ShowCredential(w, u, op, c, statuses)
  PROVE  IInv'
<1> DEFINE r == Serve(u, op, credentials[c].student)
           q == [r EXCEPT !.pc = "owner", !.cred = credentials[c]]
<1>1. credentials[c].student \in Students /\ credentials[c] \in Credential
  BY DEF ShowCredential, IInv, TypeOK, Issued
<1>2. /\ r \in Handler /\ r.op = op /\ r.actor = u /\ r.student = credentials[c].student
      /\ r.role = accounts[u].role /\ r.inst = accounts[u].inst /\ r.role \in Roles
  BY <1>1, ServeTyped DEF Ops, IInv, TypeOK, Account
<1>3. credentials[c].inst \in Insts
  BY <1>1 DEF Credential
<1>4. CASE r.role = "student"
  <2>1. Go(w, q) /\ Reads
    BY <1>4 DEF ShowCredential
  <2> HIDE DEF r
  <2>2. /\ q \in Handler /\ q.pc = "owner" /\ q.op = op /\ q.actor = u /\ q.role = "student"
        /\ q.student = credentials[c].student
    BY <1>1, <1>2, <1>4 DEF Handler
  <2> HIDE DEF q
  <2>3. Shape(q) /\ Placed(q, students, accreditations, raced') /\ ~Inserted(q) /\ ~Reassigning(q)
    BY <1>1, <2>2 DEF Shape, Placed, Issuing, Inserted, Reassigning
  <2> QED
    BY <2>1, <2>2, <2>3, ReadKeeps
<1>5. CASE r.role # "student"
  <2>1. /\ Go(w, Done) /\ Within(r, credentials[c].inst)
        /\ Disclose(r, "row", credentials[c].inst, r.student)
    BY <1>5 DEF ShowCredential
  <2> HIDE DEF r
  <2> QED
    BY <1>1, <1>2, <1>3, <2>1, DiscloseKeeps DEF Within
<1> QED
  BY <1>4, <1>5

LEMMA ReaderTyped ==
  ASSUME IInv, NEW u \in Users
  PROVE  LET r == Serve(u, "view", NoStudent) IN
         /\ r \in Handler /\ r.actor = u /\ r.role = accounts[u].role /\ r.inst = accounts[u].inst
         /\ r.role \in Roles
<1>1. "view" \in Ops
  BY DEF Ops
<1>2. accounts[u].role \in Roles
  BY DEF IInv, TypeOK, Account
<1> QED
  BY <1>1, <1>2, ServeTyped

\* A list is open, or of the reader's institution, which a reader of these roles has.
LEMMA ListingKeeps ==
  ASSUME IInv, Noted, NEW w \in Requests, NEW u \in Users, NEW readers, NEW what \in {"list", "open list"},
         NEW scope \in Insts, Listing(w, u, readers, what, scope),
         what = "list" => scope = accounts[u].inst /\ accounts[u].role \notin Global \cup {"student"}
  PROVE  IInv'
<1> DEFINE r == Serve(u, "view", NoStudent)
<1>1. /\ r \in Handler /\ r.actor = u /\ r.role = accounts[u].role /\ r.inst = accounts[u].inst
      /\ r.role \in Roles
  BY ReaderTyped, Zenon
<1>3. Go(w, Done) /\ Disclose(r, what, scope, NoStudent) /\ Authorised(u)
  BY DEF Listing
<1>4. what = "list" => scope = r.inst /\ scope # NoInst
  BY <1>1, <1>3 DEF Authorised
<1>5. /\ what \in {"own", "row", "list", "open list"}
      /\ what # "own" /\ what # "row"
  OBVIOUS
<1> HIDE DEF r
<1> QED
  BY <1>1, <1>3, <1>4, <1>5, DiscloseKeeps

LEMMA RefusingKeeps ==
  ASSUME IInv, Noted, NEW w \in Requests, NEW u \in Users, NEW readers, NEW open,
         readers \cap (Global \cup {"student"}) \subseteq open, NEW asked \in Insts,
         Refusing(w, u, readers, open, asked)
  PROVE  IInv'
<1>1. accounts[u].inst \in Insts
  BY DEF IInv, TypeOK, Account, Insts
<1>2. CASE accounts[u].role \in open
  BY <1>2, ListingKeeps DEF Refusing
<1>3. CASE accounts[u].role \notin open
  <2>1. Listing(w, u, readers, "list", accounts[u].inst)
    BY <1>3 DEF Refusing
  <2>2. accounts[u].role \notin Global \cup {"student"}
    BY <1>3, <2>1 DEF Listing
  <2> QED
    BY <1>1, <2>1, <2>2, ListingKeeps
<1> QED
  BY <1>2, <1>3

LEMMA PinningKeeps ==
  ASSUME IInv, Noted, NEW w \in Requests, NEW u \in Users, NEW readers,
         readers \cap (Global \cup {"student"}) \subseteq {"super_admin"}, NEW asked \in Insts,
         Pinning(w, u, readers, asked)
  PROVE  IInv'
<1>1. accounts[u].inst \in Insts
  BY DEF IInv, TypeOK, Account, Insts
<1>2. CASE accounts[u].role = "super_admin"
  BY <1>2, ListingKeeps DEF Pinning
<1>3. CASE accounts[u].role # "super_admin"
  <2>1. Listing(w, u, readers, "list", accounts[u].inst)
    BY <1>3 DEF Pinning
  <2>2. accounts[u].role \notin Global \cup {"student"}
    BY <1>3, <2>1 DEF Listing
  <2> QED
    BY <1>1, <2>1, <2>2, ListingKeeps
<1> QED
  BY <1>2, <1>3

LEMMA ListsKeep ==
  ASSUME IInv, Noted, NEW w \in Requests, NEW u \in Users, NEW i \in Insts,
         \/ ListStudents(w, u, i) \/ ListCredentials(w, u, i) \/ ListAccreditations(w, u, i)
         \/ ListVerificationLogs(w, u, i) \/ GetAuditLogs(w, u, i)
         \/ DashboardSummary(w, u) \/ DashboardOperations(w, u) \/ ListInstitutions(w, u)
  PROVE  IInv'
<1>1. Staff \cap (Global \cup {"student"}) \subseteq {"super_admin"}
  BY DEF Staff, Global
<1>2. NoInst \in Insts
  BY DEF Insts
<1>3. CASE ListStudents(w, u, i) \/ ListCredentials(w, u, i)
  BY <1>1, <1>3, RefusingKeeps DEF ListStudents, ListCredentials
<1>4. CASE ListAccreditations(w, u, i)
  <2>1. (Staff \cup {"regulator"}) \cap (Global \cup {"student"}) \subseteq {"super_admin", "regulator"}
    BY DEF Staff, Global
  <2> QED
    BY <1>4, <2>1, RefusingKeeps DEF ListAccreditations
<1>5. CASE ListVerificationLogs(w, u, i) \/ GetAuditLogs(w, u, i)
  <2>1. {"super_admin", "institution_admin"} \cap (Global \cup {"student"}) \subseteq {"super_admin"}
    BY DEF Global
  <2> QED
    BY <1>5, <2>1, RefusingKeeps, PinningKeeps DEF ListVerificationLogs, GetAuditLogs
<1>6. CASE DashboardSummary(w, u)
  BY <1>1, <1>2, <1>6, PinningKeeps DEF DashboardSummary
<1>7. CASE DashboardOperations(w, u)
  <2>1. (Staff \ {"verifier"}) \cap (Global \cup {"student"}) \subseteq {"super_admin"}
    BY <1>1
  <2> QED
    BY <1>2, <1>7, <2>1, PinningKeeps DEF DashboardOperations
<1>8. CASE ListInstitutions(w, u)
  BY <1>2, <1>8, ListingKeeps DEF ListInstitutions
<1> QED
  BY <1>3, <1>4, <1>5, <1>6, <1>7, <1>8

LEMMA ArriveKeeps == ASSUME IInv, Noted, NEW w \in Requests, Arrive(w) PROVE IInv'
<1>1. PICK u \in Users :
    \/ \E s \in Students, i \in Institutions, d \in Dates : IssueBegin(w, u, s, i, d)
    \/ \E s \in Students, i \in Institutions, p \in Programmes : CreateBegin(w, u, s, i, p)
    \/ \E s \in Students, p \in Programmes :
          StudentBegin(w, u, "edit", s, [NotThere EXCEPT !.prog = p])
    \/ \E s \in Students, i \in Institutions :
          StudentBegin(w, u, "reassign", s, [NotThere EXCEPT !.inst = i])
    \/ \E s \in Students, v \in Users :
          StudentBegin(w, u, "link", s, [NotThere EXCEPT !.user = v])
    \/ \E s \in Students : StudentView(w, u, s)
    \/ \E c \in Requests :
          \/ GetOneCredential(w, u, c) \/ GenerateCredentialPdf(w, u, c)
          \/ DownloadCredentialPdf(w, u, c)
    \/ MineBegin(w, u)
    \/ \E i \in Insts :
          \/ ListStudents(w, u, i) \/ ListCredentials(w, u, i) \/ ListAccreditations(w, u, i)
          \/ ListVerificationLogs(w, u, i) \/ GetAuditLogs(w, u, i)
    \/ DashboardSummary(w, u) \/ DashboardOperations(w, u) \/ ListInstitutions(w, u)
  BY DEF Arrive
<1>2. ASSUME NEW s \in Students, NEW i \in Institutions, NEW d \in Dates, IssueBegin(w, u, s, i, d)
      PROVE  IInv'
  BY <1>2, IssueBeginKeeps
<1>3. ASSUME NEW s \in Students, NEW i \in Institutions, NEW p \in Programmes, CreateBegin(w, u, s, i, p)
      PROVE  IInv'
  BY <1>3, CreateBeginKeeps
<1>4. ASSUME NEW s \in Students, NEW p \in Programmes,
             StudentBegin(w, u, "edit", s, [NotThere EXCEPT !.prog = p])
      PROVE  IInv'
  <2>1. [NotThere EXCEPT !.prog = p] \in To
    BY Constants DEF NotThere, To
  <2> QED
    BY <1>4, <2>1, StudentBeginKeeps
<1>5. ASSUME NEW s \in Students, NEW i \in Institutions,
             StudentBegin(w, u, "reassign", s, [NotThere EXCEPT !.inst = i])
      PROVE  IInv'
  <2>1. [NotThere EXCEPT !.inst = i] \in To /\ [NotThere EXCEPT !.inst = i].inst \in Institutions
    BY Constants DEF NotThere, To
  <2> QED
    BY <1>5, <2>1, StudentBeginKeeps
<1>6. ASSUME NEW s \in Students, NEW v \in Users,
             StudentBegin(w, u, "link", s, [NotThere EXCEPT !.user = v])
      PROVE  IInv'
  <2>1. [NotThere EXCEPT !.user = v] \in To /\ [NotThere EXCEPT !.user = v].user \in Users
    BY Constants DEF NotThere, To
  <2> QED
    BY <1>6, <2>1, StudentBeginKeeps
<1>7. ASSUME NEW c \in Requests, \/ GetOneCredential(w, u, c) \/ GenerateCredentialPdf(w, u, c)
                                 \/ DownloadCredentialPdf(w, u, c)
      PROVE  IInv'
  BY <1>7, ShowCredentialKeeps DEF GetOneCredential, GenerateCredentialPdf, DownloadCredentialPdf
<1>8. ASSUME NEW i \in Insts,
          \/ ListStudents(w, u, i) \/ ListCredentials(w, u, i) \/ ListAccreditations(w, u, i)
          \/ ListVerificationLogs(w, u, i) \/ GetAuditLogs(w, u, i)
          \/ DashboardSummary(w, u) \/ DashboardOperations(w, u) \/ ListInstitutions(w, u)
      PROVE  IInv'
  BY <1>8, ListsKeep
<1>9. NoInst \in Insts
  BY DEF Insts
<1> QED
  BY <1>1, <1>2, <1>3, <1>4, <1>5, <1>6, <1>7, <1>8, <1>9, StudentViewKeeps, MineBeginKeeps

-----------------------------------------------------------------------------
(* Requests step.                                                          *)

LEMMA GateStudentKeeps == ASSUME IInv, Noted, NEW w \in Requests, GateStudent(w) PROVE IInv'
<1> DEFINE r == requests[w]
           row == students[r.student]
           pc == IF row.inst = r.to.inst THEN "accreditation" ELSE "issue"
           q == [r EXCEPT !.cred.gate = row, !.pc = pc]
<1>1. r \in Handler /\ Shape(r) /\ r.pc = "student" /\ r.op = "issue" /\ Go(w, q) /\ Reads
  BY Handling DEF GateStudent, At
<1>2. r.student \in Students /\ row \in Student
  BY <1>1 DEF Shape, IInv, TypeOK
<1>3. pc \in Places /\ pc \in {"accreditation", "issue"} /\ (pc = "accreditation" <=> row.inst = r.to.inst)
  BY DEF Places
<1> HIDE DEF pc, row
<1>4. [r.cred EXCEPT !.gate = row] \in Credential
  BY <1>1, <1>2 DEF Handler, Credential
<1>5. [r EXCEPT !.cred = [r.cred EXCEPT !.gate = row], !.pc = pc] \in Handler
  BY <1>1, <1>3, <1>4 DEF Handler, Places
<1>6. /\ q \in Handler /\ q.pc = pc /\ q.op = "issue" /\ q.actor = r.actor /\ q.student = r.student
      /\ q.to = r.to /\ q.cred.gate = row
  BY <1>1, <1>5 DEF Handler, Credential
<1> HIDE DEF q
<1>7. Shape(q) /\ Placed(q, students, accreditations, raced') /\ ~Inserted(q) /\ ~Reassigning(q)
  BY <1>1, <1>3, <1>6 DEF Shape, Placed, Issuing, Inserted, Reassigning
<1> QED
  BY <1>1, <1>6, <1>7, ReadKeeps

LEMMA GateAccreditationKeeps ==
  ASSUME IInv, Noted, NEW w \in Requests, GateAccreditation(w) PROVE IInv'
<1> DEFINE r == requests[w]
           effective == Effective(r.to.inst, r.cred.gate.prog, r.cred.date)
<1>1. /\ r \in Handler /\ Shape(r) /\ r.pc = "accreditation" /\ r.op = "issue" /\ Reads
      /\ \/ Go(w, Done)
         \/ \E k \in effective : Go(w, [r EXCEPT !.cred.evidence = k, !.pc = "issue"])
  BY Handling DEF GateAccreditation, At
<1>2. CASE Go(w, Done)
  BY <1>1, <1>2, RefusalKeeps
<1>3. ASSUME NEW k \in effective, Go(w, [r EXCEPT !.cred.evidence = k, !.pc = "issue"]) PROVE IInv'
  <2> DEFINE q == [r EXCEPT !.cred.evidence = k, !.pc = "issue"]
  <2>1. Covered(k, accreditations, r.to.inst, r.cred.gate.prog, r.cred.date)
    BY DEF Effective, First, Covers, Covered
  <2>2. [r.cred EXCEPT !.evidence = k] \in Credential
    BY <1>1, <2>1 DEF Handler, Credential, Covered
  <2>3. [r EXCEPT !.cred = [r.cred EXCEPT !.evidence = k], !.pc = "issue"] \in Handler
    BY <1>1, <2>2 DEF Handler
  <2>4. /\ q \in Handler /\ q.pc = "issue" /\ q.op = "issue" /\ q.actor = r.actor
        /\ q.student = r.student /\ q.to = r.to /\ q.cred.gate = r.cred.gate
        /\ q.cred.evidence = k /\ q.cred.date = r.cred.date
    BY <1>1, <2>3 DEF Handler, Credential
  <2>5. Go(w, q)
    BY <1>3
  <2> HIDE DEF q
  <2>6. Shape(q) /\ Placed(q, students, accreditations, raced') /\ ~Inserted(q) /\ ~Reassigning(q)
    BY <1>1, <2>1, <2>4 DEF Shape, Placed, Issuing, Inserted, Reassigning
  <2> QED
    BY <1>1, <2>4, <2>5, <2>6, ReadKeeps
<1> QED
  BY <1>1, <1>2, <1>3

LEMMA IssueStudentKeeps == ASSUME IInv, Noted, NEW w \in Requests, IssueStudent(w) PROVE IInv'
<1> DEFINE r == requests[w]
           row == students[r.student]
           q == [r EXCEPT !.read = row, !.pc = "institution"]
<1>1. /\ r \in Handler /\ Shape(r) /\ Placed(r, students, accreditations, raced')
      /\ r.pc = "issue" /\ r.op = "issue" /\ Reads
      /\ Go(w, IF row.inst # r.to.inst \/ ~Within(r, r.to.inst) THEN Done ELSE q)
  BY Handling DEF IssueStudent, At
<1>2. r.student \in Students /\ row \in Student /\ r.to.inst \in Institutions
  BY <1>1 DEF Shape, IInv, TypeOK
<1>3. CASE Go(w, Done)
  BY <1>1, <1>3, RefusalKeeps
<1>4. CASE Go(w, q) /\ row.inst = r.to.inst
  <2>1. row.inst = students[r.student].inst
    OBVIOUS
  <2>0. "institution" \in Places
    BY DEF Places
  <2> HIDE DEF row, r
  <2>2. /\ q \in Handler /\ q.pc = "institution" /\ q.op = "issue" /\ q.actor = r.actor
        /\ q.student = r.student /\ q.to = r.to /\ q.cred = r.cred
    BY <1>1, <1>2, <2>0 DEF Handler, Places
  <2> HIDE DEF q
  <2>3. Shape(q) /\ ~Inserted(q) /\ ~Reassigning(q)
    BY <1>1, <2>2 DEF Shape, Inserted, Reassigning
  <2>4. Placed(q, students, accreditations, raced')
    BY <1>1, <1>2, <1>4, <2>1, <2>2 DEF Placed, Issuing
  <2> QED
    BY <1>1, <1>4, <2>2, <2>3, <2>4, ReadKeeps DEF r
<1> QED
  BY <1>1, <1>3, <1>4

LEMMA IssueInsertKeeps == ASSUME IInv, Noted, NEW w \in Requests, IssueInsert(w) PROVE IInv'
<1> DEFINE r == requests[w]
           q == [r EXCEPT !.pc = "manifest"]
           c == [r.cred EXCEPT !.status = "processing", !.student = r.student,
                               !.inst = r.to.inst, !.prog = r.read.prog]
<1>1. /\ r \in Handler /\ Shape(r) /\ Placed(r, students, accreditations, raced')
      /\ r.pc = "insert" /\ r.op = "issue" /\ Go(w, q) /\ WriteCredential(w, c)
  BY Handling DEF IssueInsert, At
<1>2. r.student \in Students /\ r.to.inst \in Insts /\ r.read.prog \in Programmes /\ r.cred \in Credential
  BY <1>1 DEF Shape, Handler, Student
<1>3. c \in Credential
  BY <1>2 DEF Credential
<1>4. /\ c.status = "processing" /\ c.student = r.student /\ c.inst = r.to.inst
      /\ c.gate = r.cred.gate /\ c.evidence = r.cred.evidence /\ c.date = r.cred.date
  BY <1>2 DEF Credential
<1> HIDE DEF c
<1>5. Issued(c, students, accreditations, raced')
  BY <1>1, <1>2, <1>4 DEF Issued, Placed, Issuing
<1>6. /\ q \in Handler /\ q.pc = "manifest" /\ q.op = "issue" /\ q.actor = r.actor
      /\ q.student = r.student /\ q.to = r.to
  <2>1. "manifest" \in Places
    BY DEF Places
  <2> HIDE DEF r
  <2> QED
    BY <1>1, <2>1, Moved, Zenon
<1> HIDE DEF q
<1>7. Shape(q) /\ Placed(q, students, accreditations, raced') /\ ~Reassigning(q)
  BY <1>1, <1>6 DEF Shape, Placed, Issuing, Reassigning
<1>8. Issuing(requests[w]) /\ c.status # "none" /\ c.student = requests[w].student
  BY <1>1, <1>4 DEF Issuing
<1> QED
  BY <1>1, <1>3, <1>5, <1>6, <1>7, <1>8, CredentialKeeps

\* The request's credential changes in a way that says nothing about whose it is.
LEMMA SameCredentialKeeps ==
  ASSUME IInv, Noted, NEW w \in Requests, NEW q \in Handler, Go(w, q), Shape(q),
         Placed(q, students, accreditations, raced'), ~Reassigning(q),
         NEW c \in Credential, WriteCredential(w, c), credentials[w].status # "none", c.status # "none",
         c.student = credentials[w].student, c.inst = credentials[w].inst, c.prog = credentials[w].prog,
         c.date = credentials[w].date, c.gate = credentials[w].gate, c.evidence = credentials[w].evidence
  PROVE  IInv'
<1>1. Issued(credentials[w], students, accreditations, raced')
  BY Handling
<1>2. Issued(c, students, accreditations, raced')
  BY <1>1 DEF Issued
<1>3. Has(credentials, c.student)
  BY DEF Has
<1> QED
  BY <1>2, <1>3, CredentialKeeps

\* The steps from the INSERT to the end of the issuance.
LEMMA IssueRestKeeps ==
  ASSUME IInv, Noted, NEW w \in Requests, IssueManifest(w) \/ IssueProof(w) \/ IssueFinish(w)
  PROVE  IInv'
<1> DEFINE r == requests[w]
<1>0. credentials[w] \in Credential
  BY Handling
<1>1. PICK pc \in {"proof", "chain", "done"}, c \in Credential :
         /\ \/ pc # "done" /\ Go(w, [r EXCEPT !.pc = pc])
            \/ pc = "done" /\ Go(w, Done)
         /\ WriteCredential(w, c)
         /\ \/ c = [credentials[w] EXCEPT !.manifest = TRUE]
            \/ c = [credentials[w] EXCEPT !.proof = TRUE]
            \/ c = [credentials[w] EXCEPT !.status = "active"]
         /\ Inserted(r)
  <2>1. CASE IssueManifest(w)
    <3>1. [credentials[w] EXCEPT !.manifest = TRUE] \in Credential
      BY <1>0 DEF Credential
    <3> QED
      BY <2>1, <3>1 DEF IssueManifest, At, Inserted
  <2>2. CASE IssueProof(w)
    <3>1. [credentials[w] EXCEPT !.proof = TRUE] \in Credential
      BY <1>0 DEF Credential
    <3> QED
      BY <2>2, <3>1 DEF IssueProof, At, Inserted
  <2>3. CASE IssueFinish(w)
    <3>1. [credentials[w] EXCEPT !.status = "active"] \in Credential
      BY <1>0 DEF Credential
    <3> QED
      BY <2>3, <3>1 DEF IssueFinish, At, Inserted
  <2> QED
    BY <2>1, <2>2, <2>3
<1>2. r \in Handler /\ Shape(r) /\ credentials[w] \in Credential /\ credentials[w].status # "none"
  BY <1>1, Handling DEF Met
<1>3. /\ c \in Credential /\ c.status # "none" /\ c.student = credentials[w].student
      /\ c.inst = credentials[w].inst /\ c.prog = credentials[w].prog /\ c.date = credentials[w].date
      /\ c.gate = credentials[w].gate /\ c.evidence = credentials[w].evidence
  BY <1>1, <1>2 DEF Credential
<1>4. CASE pc = "done"
  BY <1>1, <1>2, <1>3, <1>4, DoneFits, SameCredentialKeeps
<1>5. CASE pc # "done"
  <2> DEFINE q == [r EXCEPT !.pc = pc]
  <2>1. Go(w, q)
    BY <1>1, <1>5
  <2>2. /\ q \in Handler /\ q.pc = pc /\ q.op = "issue" /\ q.actor = r.actor /\ q.student = r.student
        /\ q.to = r.to
    <3>1. pc \in Places /\ r.op = "issue"
      BY <1>1 DEF Places, Inserted
    <3> HIDE DEF r
    <3> QED
      BY <1>2, <3>1, Moved, Zenon
  <2> HIDE DEF q
  <2>3. Shape(q) /\ Placed(q, students, accreditations, raced') /\ ~Reassigning(q)
    BY <1>1, <1>2, <1>5, <2>2 DEF Shape, Placed, Issuing, Reassigning, Inserted
  <2> QED
    BY <1>1, <1>2, <1>3, <2>1, <2>2, <2>3, SameCredentialKeeps
<1> QED
  BY <1>4, <1>5

LEMMA AbortKeeps == ASSUME IInv, Noted, NEW w \in Requests, Abort(w) PROVE IInv'
<1> DEFINE c == [credentials[w] EXCEPT !.status = "failed"]
<1>1. /\ Go(w, Done)
      /\ \/ Reads
         \/ credentials[w].status = "processing" /\ WriteCredential(w, c)
  BY DEF Abort
<1>2. credentials[w] \in Credential
  BY DEF IInv, TypeOK
<1>3. /\ c \in Credential /\ c.status # "none" /\ c.student = credentials[w].student
      /\ c.inst = credentials[w].inst /\ c.prog = credentials[w].prog /\ c.date = credentials[w].date
      /\ c.gate = credentials[w].gate /\ c.evidence = credentials[w].evidence
  BY <1>2 DEF Credential
<1> HIDE DEF c
<1>4. CASE Reads
  BY <1>1, <1>4, RefusalKeeps
<1>5. CASE credentials[w].status = "processing" /\ WriteCredential(w, c)
  BY <1>1, <1>3, <1>5, DoneFits, SameCredentialKeeps
<1> QED
  BY <1>1, <1>4, <1>5

LEMMA CheckInstitutionKeeps == ASSUME IInv, Noted, NEW w \in Requests, CheckInstitution(w) PROVE IInv'
<1> DEFINE r == requests[w]
           pc == IF r.op = "reassign" THEN "count" ELSE "insert"
           q == [r EXCEPT !.pc = pc]
<1>1. /\ r \in Handler /\ Shape(r) /\ Placed(r, students, accreditations, raced')
      /\ r.pc = "institution" /\ Reads /\ Go(w, IF ~institutions[r.to.inst] THEN Done ELSE q)
  BY Handling DEF CheckInstitution
<1>2. pc \in Places /\ pc = IF r.op = "reassign" THEN "count" ELSE "insert"
  BY DEF Places
<1> HIDE DEF pc
<1>3. /\ q \in Handler /\ q.pc = pc /\ q.op = r.op /\ q.actor = r.actor /\ q.student = r.student
      /\ q.to = r.to /\ q.cred = r.cred
  BY <1>1, <1>2, Moved
<1> HIDE DEF q
<1>4. Shape(q) /\ Placed(q, students, accreditations, raced') /\ ~Inserted(q) /\ ~Reassigning(q)
  BY <1>1, <1>2, <1>3 DEF Shape, Placed, Issuing, Inserted, Reassigning
<1>5. CASE Go(w, Done)
  BY <1>1, <1>5, RefusalKeeps
<1>6. CASE Go(w, q)
  BY <1>1, <1>3, <1>4, <1>6, ReadKeeps
<1> QED
  BY <1>1, <1>5, <1>6

LEMMA CreateInsertKeeps == ASSUME IInv, Noted, NEW w \in Requests, CreateInsert(w) PROVE IInv'
<1> DEFINE r == requests[w]
           row == [inst |-> r.to.inst, prog |-> r.to.prog, user |-> NoUser]
<1>1. /\ r \in Handler /\ Shape(r) /\ r.pc = "insert" /\ r.op = "create" /\ Go(w, Done)
      /\ IF students[r.student].inst # NoInst THEN Reads ELSE WriteStudent(r.student, row)
  BY Handling DEF CreateInsert, At
<1>2. r.student \in Students /\ r.to.inst \in Institutions /\ r.to.prog \in Programmes
  BY <1>1 DEF Shape, Handler
<1>3. CASE students[r.student].inst # NoInst
  BY <1>1, <1>3, RefusalKeeps
<1>4. CASE students[r.student].inst = NoInst
  <2>1. row \in Student /\ row.user = NoUser /\ row.inst # NoInst
    BY <1>2 DEF Student
  <2>2. students[r.student].user = NoUser
    BY <1>2, <1>4 DEF IInv, Linked
  <2> HIDE DEF row, r
  <2> QED
    BY <1>1, <1>2, <1>4, <2>1, <2>2, StudentKeeps
<1> QED
  BY <1>3, <1>4

LEMMA ReadStudentKeeps == ASSUME IInv, Noted, NEW w \in Requests, ReadStudent(w) PROVE IInv'
<1> DEFINE r == requests[w]
           row == students[r.student]
           pc == CASE r.op = "edit" -> "update"
                   [] r.op = "reassign" -> "institution"
                   [] r.op = "link" -> "account"
           q == [r EXCEPT !.read = row, !.pc = pc]
<1>1. /\ r \in Handler /\ Shape(r) /\ r.pc = "student" /\ r.op \in {"edit", "reassign", "link"} /\ Reads
      /\ \/ Go(w, Done)
         \/ row.inst # NoInst /\ Go(w, q)
  BY Handling DEF ReadStudent
<1>2. r.student \in Students /\ row \in Student /\ row.inst = students[r.student].inst
  BY <1>1 DEF Shape, IInv, TypeOK
<1>3. pc \in Places /\ pc \in {"update", "institution", "account"} /\ (pc = "update" => r.op = "edit")
  BY <1>1 DEF Places
<1> HIDE DEF pc, row
<1>4. /\ q \in Handler /\ q.pc = pc /\ q.op = r.op /\ q.actor = r.actor /\ q.student = r.student
      /\ q.to = r.to
  <2> HIDE DEF r
  <2> QED
    BY <1>1, <1>2, <1>3 DEF Handler, Places
<1> HIDE DEF q
<1>5. CASE Go(w, Done)
  BY <1>1, <1>5, RefusalKeeps
<1>6. CASE row.inst # NoInst /\ Go(w, q)
  <2>1. Shape(q) /\ Placed(q, students, accreditations, raced') /\ ~Inserted(q) /\ ~Reassigning(q)
    BY <1>1, <1>2, <1>3, <1>4, <1>6 DEF Shape, Placed, Issuing, Inserted, Reassigning
  <2> QED
    BY <1>1, <1>4, <1>6, <2>1, ReadKeeps
<1> QED
  BY <1>1, <1>5, <1>6

LEMMA EditUpdateKeeps == ASSUME IInv, Noted, NEW w \in Requests, EditUpdate(w) PROVE IInv'
<1> DEFINE s == requests[w].student
           row == [students[s] EXCEPT !.prog = requests[w].to.prog]
<1>1. /\ requests[w] \in Handler /\ Shape(requests[w]) /\ requests[w].pc = "update"
      /\ Go(w, Done) /\ WriteStudent(s, row)
  BY Handling DEF EditUpdate, At
<1>2. s \in Students /\ students[s] \in Student /\ requests[w].to.prog \in Programmes
  BY <1>1 DEF Shape, IInv, TypeOK, Handler
<1>3. row \in Student /\ row.inst = students[s].inst /\ row.user = students[s].user
  BY <1>2 DEF Student
<1> HIDE DEF row, s
<1>4. row.inst = NoInst => row.user = NoUser
  BY <1>2, <1>3 DEF IInv, Linked
<1>5. row.user # NoUser => \A t \in Students \ {s} : students[t].user # row.user
  BY <1>2, <1>3 DEF IInv, Linked
<1> QED
  BY <1>1, <1>2, <1>3, <1>4, <1>5, StudentKeeps

LEMMA CountCredentialsKeeps == ASSUME IInv, Noted, NEW w \in Requests, CountCredentials(w) PROVE IInv'
<1> DEFINE r == requests[w]
           q == [r EXCEPT !.pc = "update"]
<1>1. /\ r \in Handler /\ Shape(r) /\ Placed(r, students, accreditations, raced')
      /\ r.pc = "count" /\ r.op = "reassign" /\ Reads
      /\ Go(w, IF HasCredentials(r.student) THEN Done ELSE q)
  BY Handling DEF CountCredentials, At
<1>2. /\ q \in Handler /\ q.pc = "update" /\ q.op = r.op /\ q.actor = r.actor
      /\ q.student = r.student /\ q.to = r.to
  BY <1>1, Moved DEF Places
<1> HIDE DEF q
<1>3. Shape(q) /\ Placed(q, students, accreditations, raced') /\ ~Inserted(q)
  BY <1>1, <1>2 DEF Shape, Placed, Issuing, Inserted
<1>4. CASE HasCredentials(r.student)
  BY <1>1, <1>4, RefusalKeeps
<1>5. CASE ~HasCredentials(r.student)
  <2>1. ~Has(credentials, q.student)
    BY <1>2, <1>5 DEF Has, HasCredentials
  <2> QED
    BY <1>1, <1>2, <1>3, <1>5, <2>1, ReadKeeps
<1> QED
  BY <1>4, <1>5

LEMMA ReassignUpdateKeeps == ASSUME IInv, Noted, NEW w \in Requests, ReassignUpdate(w) PROVE IInv'
<1> DEFINE s == requests[w].student
           row == [students[s] EXCEPT !.inst = requests[w].to.inst]
<1>1. /\ requests[w] \in Handler /\ Shape(requests[w]) /\ Met(w) /\ At(w, "update", "reassign")
      /\ Go(w, Done) /\ WriteStudent(s, row)
  BY Handling DEF ReassignUpdate
<1>2. s \in Students /\ students[s] \in Student /\ requests[w].to.inst \in Institutions
  BY <1>1 DEF Shape, IInv, TypeOK, At
<1>3. row \in Student /\ row.inst = requests[w].to.inst /\ row.user = students[s].user
  BY <1>2 DEF Student
<1>4. Has(credentials, s) => s \in raced
  BY <1>1 DEF Met, At, Reassigning
<1>5. ASSUME NEW v \in Requests, Issuing(requests[v]), requests[v].student = s PROVE s \in raced
  <2>1. Racing(s)
    BY <1>1, <1>5 DEF Racing, Issuing
  <2> QED
    BY <1>2, <2>1 DEF IInv
<1> HIDE DEF row, s
<1>6. row.inst # NoInst
  BY <1>2, <1>3
<1>7. row.user # NoUser => \A t \in Students \ {s} : students[t].user # row.user
  BY <1>2, <1>3 DEF IInv, Linked
<1> QED
  BY <1>1, <1>2, <1>3, <1>4, <1>5, <1>6, <1>7, StudentKeeps

LEMMA LinkAccountKeeps == ASSUME IInv, Noted, NEW w \in Requests, LinkAccount(w) PROVE IInv'
<1> DEFINE r == requests[w]
           q == [r EXCEPT !.pc = "update"]
<1>1. /\ r \in Handler /\ Shape(r) /\ Placed(r, students, accreditations, raced')
      /\ r.pc = "account" /\ r.op = "link" /\ Reads /\ (Go(w, Done) \/ Go(w, q))
  BY Handling DEF LinkAccount, At
<1>2. /\ q \in Handler /\ q.pc = "update" /\ q.op = r.op /\ q.actor = r.actor
      /\ q.student = r.student /\ q.to = r.to
  BY <1>1, Moved DEF Places
<1> HIDE DEF q
<1>3. Shape(q) /\ Placed(q, students, accreditations, raced') /\ ~Inserted(q) /\ ~Reassigning(q)
  BY <1>1, <1>2 DEF Shape, Placed, Issuing, Inserted, Reassigning
<1> QED
  BY <1>1, <1>2, <1>3, RefusalKeeps, ReadKeeps

LEMMA LinkUpdateKeeps == ASSUME IInv, Noted, NEW w \in Requests, LinkUpdate(w) PROVE IInv'
<1> DEFINE r == requests[w]
           row == [students[r.student] EXCEPT !.user = r.to.user]
<1>1. /\ r \in Handler /\ Shape(r) /\ Placed(r, students, accreditations, raced')
      /\ r.pc = "update" /\ r.op = "link" /\ Go(w, Done)
      /\ \/ Reads
         \/ /\ students[r.student].user = NoUser
            /\ \A t \in Students : students[t].user # r.to.user
            /\ WriteStudent(r.student, row)
  BY Handling DEF LinkUpdate, At
<1>2. r.student \in Students /\ students[r.student] \in Student /\ r.to.user \in Users
      /\ students[r.student].inst # NoInst
  BY <1>1 DEF Shape, Placed, IInv, TypeOK
<1>3. row \in Student /\ row.inst = students[r.student].inst /\ row.user = r.to.user
  BY <1>2 DEF Student
<1> HIDE DEF row, r
<1>4. CASE Reads
  BY <1>1, <1>4, RefusalKeeps
<1>5. CASE /\ students[r.student].user = NoUser
           /\ \A t \in Students : students[t].user # r.to.user
           /\ WriteStudent(r.student, row)
  BY <1>1, <1>2, <1>3, <1>5, StudentKeeps
<1> QED
  BY <1>1, <1>4, <1>5

LEMMA OwnKeeps ==
  ASSUME IInv, Noted, NEW w \in Requests, requests[w].pc \in {"owner", "list"}, Go(w, Done),
         NEW scope \in Insts, Disclose(requests[w], "own", scope, requests[w].student),
         students[requests[w].student].user = requests[w].actor
  PROVE  IInv'
<1>1. requests[w] \in Handler /\ Shape(requests[w])
  BY Handling
<1>2. /\ requests[w].student \in Students /\ requests[w].actor \in Users
      /\ requests[w].role = "student" /\ requests[w].role \in Roles
  BY <1>1 DEF Shape, Roles
<1> QED
  BY <1>1, <1>2, DiscloseKeeps

LEMMA CheckOwnerKeeps == ASSUME IInv, Noted, NEW w \in Requests, CheckOwner(w) PROVE IInv'
<1>1. /\ requests[w].pc = "owner" /\ Go(w, Done)
      /\ \/ Reads
         \/ /\ students[requests[w].student].user = requests[w].actor
            /\ Disclose(requests[w], "own", requests[w].cred.inst, requests[w].student)
  BY DEF CheckOwner
<1>2. requests[w].cred.inst \in Insts
  BY Handling DEF Handler, Credential
<1> QED
  BY <1>1, <1>2, RefusalKeeps, OwnKeeps

LEMMA MineListKeeps == ASSUME IInv, Noted, NEW w \in Requests, MineList(w) PROVE IInv'
<1>1. /\ requests[w].pc = "list" /\ Go(w, Done)
      /\ Disclose(requests[w], "own", NoInst, requests[w].student)
  BY DEF MineList, At
<1>2. students[requests[w].student].user = requests[w].actor /\ NoInst \in Insts
  BY <1>1, Handling DEF Placed, Insts
<1> QED
  BY <1>1, <1>2, OwnKeeps

LEMMA StepKeeps == ASSUME IInv, Noted, NEW w \in Requests, Step(w) PROVE IInv'
  BY GateStudentKeeps, GateAccreditationKeeps, IssueStudentKeeps, IssueInsertKeeps, IssueRestKeeps,
     AbortKeeps, CheckInstitutionKeeps, CreateInsertKeeps, ReadStudentKeeps, EditUpdateKeeps,
     CountCredentialsKeeps, ReassignUpdateKeeps, LinkAccountKeeps, LinkUpdateKeeps, CheckOwnerKeeps,
     MineListKeeps DEF Step

-----------------------------------------------------------------------------
(* What else happens, and nothing at all.                                  *)

\* A credential only changes its status, and not whether it is there.
SameButStatus(c, d) ==
    /\ d.status = "none" <=> c.status = "none"
    /\ d.student = c.student /\ d.inst = c.inst /\ d.prog = c.prog /\ d.date = c.date
    /\ d.gate = c.gate /\ d.evidence = c.evidence

LEMMA AroundFrame ==
  ASSUME IInv, Noted, UNCHANGED <<students, requests, answers>>,
         accounts' \in [Users -> Account], institutions' \in [Institutions -> BOOLEAN],
         accreditations' \in [Records -> Period], RecordsStay(accreditations, accreditations'),
         credentials' \in [Requests -> Credential],
         \A w \in Requests : SameButStatus(credentials[w], credentials'[w]),
         events' \in 0..MaxEvents
  PROVE  IInv'
<1>1. raced \subseteq raced' /\ raced' \subseteq Students /\ \A s \in Students : Racing(s)' => s \in raced'
  BY RacedGrows
<1>2. TypeOK' /\ Linked(students')
  BY <1>1 DEF IInv, TypeOK
<1>3. StudentsStay(students, students') /\ MovesNoted(students, students')
  BY SameStudents
<1>4. /\ \A w \in Requests : Placed(requests[w], students', accreditations', raced')
      /\ \A w \in Requests : Issued(credentials[w], students', accreditations', raced')
      /\ \A a \in answers : Disclosed(a, students')
  BY <1>3, TablesKeep
<1>5. \A w \in Requests : Shape(requests'[w]) /\ Placed(requests'[w], students', accreditations', raced')
  BY <1>4 DEF IInv
<1>6. \A w \in Requests : Issued(credentials'[w], students', accreditations', raced')
  BY <1>4 DEF Issued, SameButStatus
<1>7. \A s : Has(credentials', s) => Has(credentials, s)
  BY DEF Has, SameButStatus
<1>8. ASSUME NEW w \in Requests PROVE Met(w)'
  <2>1. Met(w)
    BY DEF IInv
  <2>2. Inserted(requests[w]) => credentials'[w].status # "none"
    BY <2>1 DEF Met, SameButStatus
  <2>3. Reassigning(requests[w]) /\ Has(credentials', requests[w].student)
        => requests[w].student \in raced'
    BY <1>1, <1>7, <2>1 DEF Met
  <2> QED
    BY <2>2, <2>3 DEF Met
<1> QED
  BY <1>1, <1>2, <1>4, <1>5, <1>6, <1>8 DEF IInv

LEMMA Same == /\ \A ac : RecordsStay(ac, ac) /\ \A cs : \A w \in Requests : SameButStatus(cs[w], cs[w])
  BY DEF RecordsStay, SameButStatus

LEMMA AroundKeeps == ASSUME IInv, Noted, Around PROVE IInv'
<1>0. /\ accounts \in [Users -> Account] /\ institutions \in [Institutions -> BOOLEAN]
      /\ accreditations \in [Records -> Period] /\ credentials \in [Requests -> Credential]
      /\ events \in 0..MaxEvents
  BY DEF IInv, TypeOK
<1>1. ASSUME Event PROVE events' \in 0..MaxEvents /\ UNCHANGED <<requests, answers>>
  BY <1>0, <1>1 DEF Event
<1>2. ASSUME NEW k \in Records, NEW a \in Decisions, RecordAccreditation(k, a) PROVE IInv'
  <2>1. /\ accreditations' = [accreditations EXCEPT ![k] = a] /\ accreditations[k].status = "none"
        /\ Event /\ UNCHANGED <<accounts, institutions, students, credentials>>
    BY <1>2 DEF RecordAccreditation
  <2>2. a \in Period
    OBVIOUS
  <2>3. RecordsStay(accreditations, accreditations') /\ accreditations' \in [Records -> Period]
    BY <1>0, <2>1, <2>2 DEF RecordsStay
  <2> QED
    BY <1>0, <1>1, <2>1, <2>3, Same, AroundFrame
<1>3. ASSUME NEW k \in Records, NEW x \in {"accredited", "suspended", "revoked"},
             ChangeAccreditation(k, x)
      PROVE  IInv'
  <2> DEFINE a == [accreditations[k] EXCEPT !.status = x]
  <2>1. /\ accreditations' = [accreditations EXCEPT ![k] = a]
        /\ Event /\ UNCHANGED <<accounts, institutions, students, credentials>>
    BY <1>3 DEF ChangeAccreditation
  <2>2. a \in Period /\ a.status # "none" /\ a.inst = accreditations[k].inst
        /\ a.prog = accreditations[k].prog /\ a.from = accreditations[k].from
        /\ a.to = accreditations[k].to
    BY <1>0 DEF Period
  <2> HIDE DEF a
  <2>3. RecordsStay(accreditations, accreditations') /\ accreditations' \in [Records -> Period]
    BY <1>0, <2>1, <2>2 DEF RecordsStay
  <2> QED
    BY <1>0, <1>1, <2>1, <2>3, Same, AroundFrame
<1>4. ASSUME NEW i \in Institutions, ToggleInstitution(i) PROVE IInv'
  <2>1. /\ institutions' = [institutions EXCEPT ![i] = ~institutions[i]]
        /\ Event /\ UNCHANGED <<accounts, students, accreditations, credentials>>
    BY <1>4 DEF ToggleInstitution
  <2>2. institutions' \in [Institutions -> BOOLEAN]
    BY <1>0, <2>1
  <2> QED
    BY <1>0, <1>1, <2>1, <2>2, Same, AroundFrame
<1>5. ASSUME NEW u \in Users, NEW a \in Accounts, ChangeAccount(u, a) PROVE IInv'
  <2>1. /\ accounts' = [accounts EXCEPT ![u] = a]
        /\ Event /\ UNCHANGED <<institutions, students, accreditations, credentials>>
    BY <1>5 DEF ChangeAccount
  <2>2. accounts' \in [Users -> Account]
    BY <1>0, <2>1
  <2> QED
    BY <1>0, <1>1, <2>1, <2>2, Same, AroundFrame
<1>6. ASSUME NEW w \in Requests, Revoke(w) PROVE IInv'
  <2> DEFINE c == [credentials[w] EXCEPT !.status = "revoked"]
  <2>1. /\ credentials' = [credentials EXCEPT ![w] = c] /\ credentials[w].status = "active" /\ Event
        /\ UNCHANGED <<accounts, institutions, students, accreditations>>
    BY <1>6 DEF Revoke, tables
  <2>2. c \in Credential /\ SameButStatus(credentials[w], c)
    BY <1>0, <2>1 DEF Credential, SameButStatus
  <2> HIDE DEF c
  <2>3. /\ credentials' \in [Requests -> Credential]
        /\ \A v \in Requests : SameButStatus(credentials[v], credentials'[v])
    BY <1>0, <2>1, <2>2, Same
  <2> QED
    BY <1>0, <1>1, <2>1, <2>3, Same, AroundFrame
<1> QED
  BY <1>2, <1>3, <1>4, <1>5, <1>6 DEF Around

LEMMA IdleKeeps == ASSUME IInv, UNCHANGED vars PROVE IInv'
<1>1. /\ students' = students /\ accounts' = accounts /\ institutions' = institutions
      /\ accreditations' = accreditations /\ credentials' = credentials /\ requests' = requests
      /\ answers' = answers /\ raced' = raced /\ events' = events
  BY DEF vars, tables
<1>2. TypeOK'
  BY <1>1 DEF IInv, TypeOK
<1>3. \A w \in Requests : Met(w)'
  BY <1>1 DEF IInv, Met
<1>4. \A s \in Students : Racing(s)' => s \in raced'
  BY <1>1 DEF IInv, Racing, At
<1> QED
  BY <1>1, <1>2, <1>3, <1>4 DEF IInv

LEMMA NextKeeps == ASSUME IInv, Next PROVE IInv'
<1>1. Noted /\ ((\E w \in Requests : Arrive(w) \/ Step(w)) \/ Around)
  BY DEF Next, Noted
<1> QED
  BY <1>1, ArriveKeeps, StepKeeps, AroundKeeps

LEMMA InitHolds == Init => IInv
<1> SUFFICES ASSUME Init PROVE IInv
  OBVIOUS
<1>1. /\ accounts \in [Users -> Account] /\ institutions \in [Institutions -> BOOLEAN]
      /\ students \in [Students -> Student] /\ accreditations \in [Records -> Period]
      /\ answers = {} /\ raced = {} /\ events = 0
  BY DEF Init
<1>2. /\ credentials = [w \in Requests |-> NoCredential] /\ requests = [w \in Requests |-> Idle]
      /\ NoCredential.status = "none" /\ Idle.pc = "idle" /\ Idle.op = "none"
  BY DEF Init, NoCredential, Idle
<1>3. TypeOK
  BY <1>1, <1>2, Constants DEF TypeOK
<1>4. Linked(students)
  BY DEF Init, Linked
<1>5. \A w \in Requests : Shape(requests[w]) /\ Placed(requests[w], students, accreditations, raced)
  BY <1>2 DEF Shape, Placed, Issuing
<1>6. \A w \in Requests : Issued(credentials[w], students, accreditations, raced) /\ Met(w)
  BY <1>2 DEF Issued, Met, Inserted, Reassigning
<1>7. \A s \in Students : ~Racing(s)
  BY <1>2 DEF Racing, At
<1> QED
  BY <1>1, <1>3, <1>4, <1>5, <1>6, <1>7 DEF IInv

-----------------------------------------------------------------------------
(* The theorems.                                                           *)

\* What is disclosed goes to its owner, links last, and credentials out of place come
\* from races: the part of it that every step keeps.
THEOREM IInvHolds == Spec => []IInv
<1>1. IInv /\ [Next]_vars => IInv'
  BY NextKeeps, IdleKeeps
<1> QED
  BY <1>1, InitHolds, PTL DEF Spec

\* The tables, the handlers and the answers are what they should be.
THEOREM TypeCorrect == Spec => []TypeOK
<1>1. IInv => TypeOK
  BY DEF IInv
<1> QED
  BY <1>1, IInvHolds, PTL

\* Whatever was disclosed is still what its reader may see (studentController.js,
\* credentialController.js and the controllers that list).
THEOREM DisclosureIsToOwners == Spec => []DisclosedToOwners
<1>1. IInv => DisclosedToOwners
  BY DEF IInv, Disclosed, DisclosedToOwners
<1> QED
  BY <1>1, IInvHolds, PTL

\* A student of another institution than its credential's was reassigned during the
\* issuance (studentController.js:186): there is no other way.
THEOREM SplitsAreAlwaysRaces == Spec => []SplitsAreRaces
<1>1. IInv => SplitsAreRaces
  BY DEF IInv, Issued, SplitsAreRaces
<1> QED
  BY <1>1, IInvHolds, PTL

\* A credential without an accreditation for its award is one whose student's row changed
\* between the middleware and the controller (accreditationIssuanceMiddleware.js:71).
THEOREM GapsAreAlwaysRaces == Spec => []GapsAreRaces
<1>1. ASSUME IInv PROVE GapsAreRaces
  <2> SUFFICES ASSUME NEW w \in Requests, credentials[w].status # "none",
                      credentials[w].gate.inst = credentials[w].inst,
                      credentials[w].gate.prog = credentials[w].prog
               PROVE  /\ credentials[w].evidence # NoRecord
                      /\ Covers([accreditations[credentials[w].evidence] EXCEPT !.status = "accredited"],
                                credentials[w].inst, credentials[w].prog, credentials[w].date)
    BY DEF GapsAreRaces
  <2> DEFINE c == credentials[w]
             a == accreditations[c.evidence]
  <2>1. Covered(c.evidence, accreditations, c.inst, c.prog, c.date)
    BY <1>1 DEF IInv, Issued
  <2>2. c.evidence \in Records /\ a \in Period
    BY <1>1, <2>1 DEF Covered, IInv, TypeOK
  <2>3. a.inst = c.inst /\ a.prog \in {c.prog, AnyProg} /\ a.from <= c.date /\ c.date <= a.to
    BY <2>1 DEF Covered
  <2> HIDE DEF a, c
  <2>4. /\ [a EXCEPT !.status = "accredited"].status = "accredited"
        /\ [a EXCEPT !.status = "accredited"].inst = a.inst
        /\ [a EXCEPT !.status = "accredited"].prog = a.prog
        /\ [a EXCEPT !.status = "accredited"].from = a.from
        /\ [a EXCEPT !.status = "accredited"].to = a.to
    BY <2>2 DEF Period
  <2>5. Covers([a EXCEPT !.status = "accredited"], c.inst, c.prog, c.date)
    BY <2>3, <2>4 DEF Covers
  <2> QED
    BY <2>2, <2>5 DEF a, c
<1> QED
  BY <1>1, IInvHolds, PTL

\* Who reads, writes no student; who writes one, keeps its account.
LEMMA AccountsStay ==
  ASSUME IInv, Next, NEW s \in Students, students[s].user # NoUser
  PROVE  students'[s].user = students[s].user
<1>1. ASSUME NEW w \in Requests, Arrive(w) PROVE students' = students
  <2>1. (Reads \/ \E r, what, scope, t : Disclose(r, what, scope, t)) => students' = students
    BY DEF Reads, Disclose, tables
  <2>2. \A u, readers, what, scope : Listing(w, u, readers, what, scope) => students' = students
    BY <2>1 DEF Listing
  <2>3. \A u, i : \/ ListStudents(w, u, i) \/ ListCredentials(w, u, i) \/ ListAccreditations(w, u, i)
                  \/ ListVerificationLogs(w, u, i) \/ GetAuditLogs(w, u, i)
                  \/ DashboardSummary(w, u) \/ DashboardOperations(w, u) \/ ListInstitutions(w, u)
                  => students' = students
    BY <2>2 DEF ListStudents, ListCredentials, ListAccreditations, ListVerificationLogs, GetAuditLogs,
                DashboardSummary, DashboardOperations, ListInstitutions, Refusing, Pinning
  <2>4. \A u, op, c, statuses : ShowCredential(w, u, op, c, statuses) => students' = students
    BY <2>1 DEF ShowCredential
  <2>5. \A u, c : GetOneCredential(w, u, c) \/ GenerateCredentialPdf(w, u, c) \/ DownloadCredentialPdf(w, u, c)
                  => students' = students
    BY <2>4 DEF GetOneCredential, GenerateCredentialPdf, DownloadCredentialPdf
  <2>6. /\ \A u, t, i, d : IssueBegin(w, u, t, i, d) => Reads
        /\ \A u, t, i, p : CreateBegin(w, u, t, i, p) => Reads
        /\ \A u, op, t, to : StudentBegin(w, u, op, t, to) => Reads
        /\ \A u : MineBegin(w, u) => Reads
    BY DEF IssueBegin, CreateBegin, StudentBegin, MineBegin
  <2>7. \A u, t : StudentView(w, u, t) => students' = students
    BY <2>1 DEF StudentView
  <2> QED
    BY <1>1, <2>1, <2>3, <2>5, <2>6, <2>7 DEF Arrive
<1>2. ASSUME NEW w \in Requests, Step(w),
             ~CreateInsert(w), ~EditUpdate(w), ~ReassignUpdate(w), ~LinkUpdate(w)
      PROVE  students' = students
  <2>1. (Reads \/ (\E r, what, scope, t : Disclose(r, what, scope, t)) \/ \E c : WriteCredential(w, c))
        => students' = students
    BY DEF Reads, Disclose, WriteCredential, tables
  <2>2. GateStudent(w) \/ GateAccreditation(w) \/ IssueStudent(w) => students' = students
    BY <2>1 DEF GateStudent, GateAccreditation, IssueStudent
  <2>3. IssueInsert(w) \/ IssueManifest(w) \/ IssueProof(w) \/ IssueFinish(w) => students' = students
    BY <2>1 DEF IssueInsert, IssueManifest, IssueProof, IssueFinish
  <2>4. Abort(w) \/ CheckInstitution(w) \/ ReadStudent(w) => students' = students
    BY <2>1 DEF Abort, CheckInstitution, ReadStudent
  <2>5. CountCredentials(w) \/ LinkAccount(w) \/ CheckOwner(w) \/ MineList(w) => students' = students
    BY <2>1 DEF CountCredentials, LinkAccount, CheckOwner, MineList
  <2> QED
    BY <1>2, <2>2, <2>3, <2>4, <2>5 DEF Step
<1>3. students \in [Students -> Student] /\ (students[s].inst = NoInst => students[s].user = NoUser)
  BY DEF IInv, TypeOK, Linked
<1>4. ASSUME NEW t, NEW row, WriteStudent(t, row), t = s => row.user = students[s].user
      PROVE  students'[s].user = students[s].user
  BY <1>3, <1>4 DEF WriteStudent
<1>5. ASSUME NEW w \in Requests, CreateInsert(w) PROVE students'[s].user = students[s].user
  <2>1. CASE Reads
    BY <2>1 DEF Reads, tables
  <2>2. CASE students[requests[w].student].inst = NoInst
    BY <1>3, <1>4, <1>5, <2>2 DEF CreateInsert
  <2> QED
    BY <1>5, <2>1, <2>2 DEF CreateInsert
<1>6. ASSUME NEW w \in Requests, EditUpdate(w) \/ ReassignUpdate(w)
      PROVE  students'[s].user = students[s].user
  <2> DEFINE t == requests[w].student
             x == requests[w].to
  <2>1. \/ WriteStudent(t, [students[t] EXCEPT !.prog = x.prog])
        \/ WriteStudent(t, [students[t] EXCEPT !.inst = x.inst])
    BY <1>6 DEF EditUpdate, ReassignUpdate
  <2> HIDE DEF t, x
  <2>2. /\ t = s => [students[t] EXCEPT !.prog = x.prog].user = students[s].user
        /\ t = s => [students[t] EXCEPT !.inst = x.inst].user = students[s].user
    BY <1>3 DEF Student
  <2> QED
    BY <1>4, <2>1, <2>2
<1>7. ASSUME NEW w \in Requests, LinkUpdate(w) PROVE students'[s].user = students[s].user
  <2>1. CASE Reads
    BY <2>1 DEF Reads, tables
  <2>2. CASE students[requests[w].student].user = NoUser
    BY <1>4, <1>7, <2>2 DEF LinkUpdate, Reads, tables
  <2> QED
    BY <1>7, <2>1, <2>2 DEF LinkUpdate
<1>8. Around => students' = students
  BY DEF Around, RecordAccreditation, ChangeAccreditation, ToggleInstitution, ChangeAccount, Revoke, tables
<1> QED
  BY <1>1, <1>2, <1>5, <1>6, <1>7, <1>8 DEF Next

\* A student keeps its account, which no other student has (studentModel.js:88-96).
THEOREM LinksAreForGood == Spec => LinkedForGood
<1>1. ASSUME IInv, [Next]_vars
      PROVE  [/\ \A s \in Students :
                    students[s].user # NoUser => students'[s].user = students[s].user
              /\ \A s, t \in Students :
                    students'[s].user # NoUser /\ students'[s].user = students'[t].user => s = t]_vars
  <2>1. CASE UNCHANGED vars
    BY <2>1
  <2>2. CASE Next
    <3>1. \A s \in Students : students[s].user # NoUser => students'[s].user = students[s].user
      BY <1>1, <2>2, AccountsStay
    <3>2. Linked(students')
      BY <1>1, <2>2, NextKeeps DEF IInv
    <3> QED
      BY <3>1, <3>2 DEF Linked
  <2> QED
    BY <1>1, <2>1, <2>2
<1> QED
  BY <1>1, IInvHolds, PTL DEF Spec, LinkedForGood
=============================================================================
