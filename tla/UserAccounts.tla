---------------------------- MODULE UserAccounts ----------------------------
(***************************************************************************)
(* The accounts of the portal, the sessions opened on them, and the        *)
(* requests that log in, administer accounts and change passwords.         *)
(*                                                                         *)
(* A handler reads the session's account once, when the request is         *)
(* authorised (requireCurrentUser), then reads its target, perhaps counts  *)
(* the super administrators or reads an institution, and at last updates   *)
(* one row.  Between two awaits any other request may step.  An account    *)
(* stands for its e-mail address; a JWT is the record of its claims; a     *)
(* reset token is named after the request that created it, and the one an  *)
(* account was provisioned with after the account.                         *)
(***************************************************************************)
EXTENDS Integers, FiniteSets

CONSTANTS
    Users,          \* accounts, existing or to be created
    Institutions,
    Passwords,      \* what a person may type
    Requests,       \* each is served once
    AskedRoles,     \* the roles requests ask for
    MaxAttempts,    \* MAX_FAILED_LOGIN_ATTEMPTS
    NoUser, NoInst, NoToken,
    Random          \* the password hash of random bytes, which nobody can type

Global  == {"super_admin", "regulator"}
Managed == {"issuer", "verifier", "student"}
Roles   == Global \cup Managed \cup {"institution_admin"}

ASSUME AccountsAssumption ==
    /\ NoUser \notin Users /\ NoInst \notin Institutions /\ NoToken \notin Requests \cup Users
    /\ Users \cap Requests = {}
    /\ Random \notin Passwords
    /\ AskedRoles \subseteq Roles
    /\ MaxAttempts \in Nat \ {0}

VARIABLES
    users,         \* the table: Users -> Row, with Absent before the INSERT
    institutions,  \* Institutions -> BOOLEAN, the column status
    sessions,      \* the JWTs that were signed
    requests,      \* Requests -> a handler's local state
    changes,       \* history: how often the password of an account was set
    born           \* history: the value of changes when a reset token was set

vars == <<users, institutions, sessions, requests, changes, born>>

-----------------------------------------------------------------------------
Insts  == Institutions \cup {NoInst}
Hashes == Passwords \cup {Random}
Tokens == Requests \cup Users \cup {NoToken}

Row == [role: Roles \cup {"none"}, inst: Insts, active: BOOLEAN, must: BOOLEAN,
        ver: Nat, pw: Hashes, reset: Tokens, timely: BOOLEAN, fails: Nat,
        lock: {"null", "future", "past"}]

\* A row as INSERT leaves it.
NewRow(role, i, pw) ==
    [role |-> role, inst |-> i, active |-> TRUE, must |-> FALSE, ver |-> 0,
     pw |-> pw, reset |-> NoToken, timely |-> FALSE, fails |-> 0, lock |-> "null"]
Absent == NewRow("none", NoInst, Random)

Exists(u) == users[u].role # "none"
ActiveSupers == {u \in Users : users[u].role = "super_admin" /\ users[u].active}

\* The claims of a JWT; pw, the password it was obtained with, is history.
Session == [user: Users, ver: Nat, role: Roles, inst: Insts, pw: Hashes]
Live(s) == s.ver = users[s.user].ver

\* What a handler keeps: where it stands, its operation, the account that asks (as
\* authorised), its target (as read), what it wants to write, and, as history, the
\* active super administrators when it last looked.
Handler == [pc: {"idle", "done", "target", "count", "institution", "email", "insert",
                 "setup", "status", "update", "compare", "forgot", "consume", "recover"},
            op: {"none", "create", "status", "role", "assign", "unlock", "require",
                 "reset", "change_password", "login", "forgot", "complete", "recover"},
            actor: Users \cup {NoUser}, role: Roles \cup {"none"}, inst: Insts,
            target: Users \cup {NoUser},
            was: [role: Roles \cup {"none"}, inst: Insts, pw: Hashes, ver: Nat],
            want: [role: Roles \cup {"none"}, inst: Insts, active: BOOLEAN, pw: Hashes],
            token: Tokens, saw: SUBSET Users]

Unread == [role |-> "none", inst |-> NoInst, pw |-> Random, ver |-> 0]
Nothing == [role |-> "none", inst |-> NoInst, active |-> TRUE, pw |-> Random]
Idle == [pc |-> "idle", op |-> "none", actor |-> NoUser, role |-> "none", inst |-> NoInst,
         target |-> NoUser, was |-> Unread, want |-> Nothing, token |-> NoToken, saw |-> {}]
Done == [Idle EXCEPT !.pc = "done"]

TypeOK ==
    /\ users \in [Users -> Row]
    /\ institutions \in [Institutions -> BOOLEAN]
    /\ sessions \subseteq Session
    /\ requests \in [Requests -> Handler]
    /\ changes \in [Users -> Nat] /\ born \in [Tokens -> Nat]

-----------------------------------------------------------------------------
(* The UPDATEs of userModel.js, each a row from a row.                     *)

SetStatus(r, active) ==
    [r EXCEPT !.active = active, !.ver = IF active THEN r.ver ELSE r.ver + 1]
\* Mutant: the statement forgets token_version.
RoleKeepsSessionsBug(r, role, i) == [r EXCEPT !.role = role, !.inst = i]

SetRole(r, role, i)  == [r EXCEPT !.role = role, !.inst = i, !.ver = r.ver + 1]
SetInstitution(r, i) == [r EXCEPT !.inst = i, !.ver = r.ver + 1]
Unlock(r)            == [r EXCEPT !.fails = 0, !.lock = "null"]
\* Mutant: the version goes down.
LowerVersionBug(r) == [r EXCEPT !.must = TRUE, !.ver = r.ver - 1]

RequireChange(r)     == [r EXCEPT !.must = TRUE, !.ver = r.ver + 1]
SetReset(r, t)       == [r EXCEPT !.reset = t, !.timely = TRUE, !.must = TRUE, !.ver = r.ver + 1]
SetRecovery(r, t)    == [r EXCEPT !.reset = t, !.timely = TRUE]
SetPassword(r, pw)   ==
    [r EXCEPT !.pw = pw, !.must = FALSE, !.reset = NoToken, !.timely = FALSE, !.ver = r.ver + 1]
Consume(r, pw)       == Unlock(SetPassword(r, pw))
Recover(r, pw)       == [Unlock(SetPassword(r, pw)) EXCEPT !.must = TRUE]
LoginSuccess(r)      == [r EXCEPT !.fails = 0, !.lock = "null"]
\* Mutant: > for >=.
OneMoreAttemptBug(r) ==
    [r EXCEPT !.fails = r.fails + 1, !.lock = IF r.fails + 1 > MaxAttempts THEN "future" ELSE r.lock]

LoginFailure(r) ==
    [r EXCEPT !.fails = r.fails + 1, !.lock = IF r.fails + 1 >= MaxAttempts THEN "future" ELSE r.lock]

\* An account is still to be created, or was just provisioned and holds its reset link,
\* or has been set up and is signed in.
Init ==
    /\ \E pw \in Passwords :
         LET SetUp == {NewRow("super_admin", NoInst, pw)} \cup
                      {NewRow(r, i, pw) : r \in {"institution_admin", "issuer"}, i \in Institutions}
             Provisioned(u) ==
                 {SetReset(NewRow("institution_admin", i, Random), u) : i \in Institutions}
         IN /\ users \in [Users -> {Absent} \cup SetUp \cup UNION {Provisioned(u) : u \in Users}]
            /\ \A u \in Users : users[u].reset \in {NoToken, u}
    /\ institutions = [i \in Institutions |-> TRUE]
    /\ sessions = {[user |-> u, ver |-> 0, role |-> users[u].role, inst |-> users[u].inst,
                    pw |-> users[u].pw] : u \in {v \in Users : Exists(v) /\ users[v].pw # Random}}
    /\ requests = [w \in Requests |-> Idle]
    /\ changes = [u \in Users |-> 0] /\ born = [t \in Tokens |-> 0]

Go(w, r) == requests' = [requests EXCEPT ![w] = r]
Write(u, row) == users' = [users EXCEPT ![u] = row]

\* A row's update that sets no password and no reset token.
Plain == UNCHANGED <<institutions, sessions, changes, born>>

-----------------------------------------------------------------------------
(* Sessions and their check.                                               *)

\* requireCurrentUser and authorizeRoles: the session's account is read and judged.
Authorised(s, op) ==
    LET u == users[s.user] IN
    /\ Exists(s.user) /\ u.active
    /\ \/ u.role \in Global \cup {"student"}
       \/ u.inst # NoInst /\ institutions[u.inst]
    /\ Live(s)
    /\ op # "change_password" => ~u.must /\ u.role \in {"super_admin", "institution_admin"}

\* The handler of an authorised request; its actor is what the check read.
Serve(s, op, t, want) ==
    [Idle EXCEPT !.op = op, !.actor = s.user, !.role = users[s.user].role,
                 !.inst = users[s.user].inst, !.target = t, !.want = want]

\* The row found by its e-mail address is judged before the password is compared.
LoginRead(w, u, guess) ==
    /\ requests[w] = Idle
    /\ Exists(u) /\ users[u].active /\ users[u].lock # "future"
    /\ Go(w, [Idle EXCEPT !.pc = "compare", !.op = "login", !.target = u,
                !.was = [role |-> users[u].role, inst |-> users[u].inst,
                         pw |-> users[u].pw, ver |-> users[u].ver],
                !.want = [Nothing EXCEPT !.pw = guess]])
    /\ UNCHANGED users /\ Plain

\* The slow comparison failed: the counter grows in one UPDATE.
LoginReject(w) ==
    LET r == requests[w] IN
    /\ r.pc = "compare" /\ r.want.pw # r.was.pw
    /\ Write(r.target, LoginFailure(users[r.target]))
    /\ Go(w, Done) /\ Plain

\* It succeeded: the counter is reset and a token signed from the row read before.
LoginAccept(w) ==
    LET r == requests[w] IN
    /\ r.pc = "compare" /\ r.want.pw = r.was.pw
    /\ Write(r.target, LoginSuccess(users[r.target]))
    /\ sessions' = sessions \cup {[user |-> r.target, ver |-> r.was.ver, role |-> r.was.role,
                                   inst |-> r.was.inst, pw |-> r.was.pw]}
    /\ Go(w, Done)
    /\ UNCHANGED <<institutions, changes, born>>

-----------------------------------------------------------------------------
(* Administration of accounts.                                             *)

\* create: the checks on the body, and the institution the account will have.
CreateBegin(w, s, u, role, i, active) ==
    LET eff == IF role \in Global THEN NoInst
               ELSE IF users[s.user].role = "institution_admin" THEN users[s.user].inst ELSE i
    IN /\ requests[w] = Idle /\ Authorised(s, "create")
       /\ users[s.user].role = "institution_admin" => role \in Managed
       /\ role \notin Global => eff # NoInst
       /\ Go(w, [Serve(s, "create", u, [role |-> role, inst |-> eff, active |-> active, pw |-> Random])
                   EXCEPT !.pc = IF eff = NoInst THEN "email" ELSE "institution"])
       /\ UNCHANGED users /\ Plain

\* No account has the address yet.
CreateEmail(w) ==
    /\ requests[w].pc = "email"
    /\ Go(w, IF Exists(requests[w].target) THEN Done ELSE [requests[w] EXCEPT !.pc = "insert"])
    /\ UNCHANGED users /\ Plain

\* The INSERT, which the UNIQUE address makes fail when another got there first.
CreateInsert(w) ==
    LET r == requests[w] IN
    /\ r.pc = "insert"
    /\ IF Exists(r.target) THEN Go(w, Done) /\ UNCHANGED users
       ELSE /\ Write(r.target, NewRow(r.want.role, r.want.inst, Random))
            /\ Go(w, [r EXCEPT !.pc = "setup"])
    /\ Plain

CreateSetup(w) ==
    LET r == requests[w] IN
    /\ r.pc = "setup"
    /\ Write(r.target, SetReset(users[r.target], w))
    /\ born' = [born EXCEPT ![w] = changes[r.target]]
    /\ Go(w, IF r.want.active THEN Done ELSE [r EXCEPT !.pc = "status"])
    /\ UNCHANGED <<institutions, sessions, changes>>

CreateStatus(w) ==
    LET r == requests[w] IN
    /\ r.pc = "status"
    /\ Write(r.target, SetStatus(users[r.target], FALSE))
    /\ Go(w, Done) /\ Plain

\* The other operations begin by reading their target.
ManageBegin(w, s, op, u, want) ==
    /\ requests[w] = Idle /\ Authorised(s, op)
    /\ op = "assign" => users[s.user].role = "super_admin" /\ want.inst # NoInst
    /\ Go(w, [Serve(s, op, u, want) EXCEPT !.pc = "target"])
    /\ UNCHANGED users /\ Plain

\* changeRole once nothing forbids it: the institution to be written, or a refusal.
RoleNext(r) ==
    LET i == IF r.role = "super_admin" /\ r.want.inst # NoInst THEN r.want.inst ELSE r.was.inst
    IN CASE r.want.role \in Global -> [r EXCEPT !.pc = "update", !.want.inst = NoInst]
         [] r.want.role \notin Global /\ i = NoInst -> Done
         [] r.want.role \notin Global /\ i # NoInst -> [r EXCEPT !.pc = "institution", !.want.inst = i]

\* Mutant: changeRole does not count.
UncountedDemotionBug(r) == r.was.role = "super_admin" /\ r.op = "status" /\ ~r.want.active

\* changeStatus and changeRole ask how many super administrators would be left.
TakesSuper(r) ==
    /\ r.was.role = "super_admin"
    /\ \/ r.op = "status" /\ ~r.want.active
       \/ r.op = "role" /\ r.want.role # "super_admin"

\* Mutant: changeRole does not look at INSTITUTION_MANAGED_ROLES.
AnyRoleBug(r) ==
    /\ r.role = "super_admin" \/ r.was.inst = r.inst
    /\ r.op = "status" /\ ~r.want.active => r.target # r.actor
    /\ r.op = "role" => r.target # r.actor
    /\ r.op = "assign" => r.was.role \notin Global

\* targetForActor, and the checks on the row it returns.
Permitted(r) ==
    /\ r.role = "super_admin" \/ r.was.inst = r.inst
    /\ r.op = "status" /\ ~r.want.active => r.target # r.actor
    /\ r.op = "role" => /\ r.target # r.actor
                        /\ r.role # "super_admin" => r.want.role \in Managed
    /\ r.op = "assign" => r.was.role \notin Global

ReadTarget(w) ==
    LET u == requests[w].target
        r == [requests[w] EXCEPT
                !.was = [Unread EXCEPT !.role = users[u].role, !.inst = users[u].inst],
                !.saw = ActiveSupers]
    IN /\ requests[w].pc = "target"
       /\ Go(w, IF ~Exists(u) \/ ~Permitted(r) THEN Done
                ELSE IF TakesSuper(r) THEN [r EXCEPT !.pc = "count"]
                ELSE IF r.op = "role" THEN RoleNext(r)
                ELSE [r EXCEPT !.pc = IF r.op = "assign" THEN "institution" ELSE "update"])
       /\ UNCHANGED users /\ Plain

CountSupers(w) ==
    LET r == [requests[w] EXCEPT !.saw = ActiveSupers] IN
    /\ requests[w].pc = "count"
    /\ Go(w, IF Cardinality(ActiveSupers) <= 1 THEN Done
             ELSE IF r.op = "role" THEN RoleNext(r) ELSE [r EXCEPT !.pc = "update"])
    /\ UNCHANGED users /\ Plain

CheckInstitution(w) ==
    LET r == requests[w] IN
    /\ r.pc = "institution"
    /\ Go(w, IF ~institutions[r.want.inst] THEN Done
             ELSE [r EXCEPT !.pc = IF r.op = "create" THEN "email" ELSE "update"])
    /\ UNCHANGED users /\ Plain

\* The handler's one UPDATE; the row is no longer compared with what was read.
Updating(w, op) == requests[w].pc = "update" /\ requests[w].op = op /\ Go(w, Done)

ChangeStatus(w) ==
    /\ Updating(w, "status")
    /\ Write(requests[w].target, SetStatus(users[requests[w].target], requests[w].want.active))
    /\ Plain
ChangeRole(w) ==
    /\ Updating(w, "role")
    /\ Write(requests[w].target,
             SetRole(users[requests[w].target], requests[w].want.role, requests[w].want.inst))
    /\ Plain
AssignInstitution(w) ==
    /\ Updating(w, "assign")
    /\ Write(requests[w].target, SetInstitution(users[requests[w].target], requests[w].want.inst))
    /\ Plain
UnlockAccount(w) ==
    /\ Updating(w, "unlock")
    /\ Write(requests[w].target, Unlock(users[requests[w].target]))
    /\ Plain
RequirePasswordChange(w) ==
    /\ Updating(w, "require")
    /\ Write(requests[w].target, RequireChange(users[requests[w].target]))
    /\ Plain
ResetPassword(w) ==
    /\ Updating(w, "reset")
    /\ Write(requests[w].target, SetReset(users[requests[w].target], w))
    /\ born' = [born EXCEPT ![w] = changes[requests[w].target]]
    /\ UNCHANGED <<institutions, sessions, changes>>

-----------------------------------------------------------------------------
(* Passwords.                                                              *)

NewPassword(u) ==
    /\ changes' = [changes EXCEPT ![u] = @ + 1]
    /\ UNCHANGED <<institutions, sessions, born>>

\* The current password is compared with the row the session check read.
ChangeBegin(w, s, current, new) ==
    /\ requests[w] = Idle /\ Authorised(s, "change_password")
    /\ users[s.user].pw = current /\ new # current
    /\ Go(w, [Serve(s, "change_password", s.user, [Nothing EXCEPT !.pw = new])
                EXCEPT !.pc = "update"])
    /\ UNCHANGED users /\ Plain
ChangePassword(w) ==
    /\ Updating(w, "change_password")
    /\ Write(requests[w].target, SetPassword(users[requests[w].target], requests[w].want.pw))
    /\ NewPassword(requests[w].target)

\* forgotPassword answers the same whether or not the account exists.
ForgotRead(w, u) ==
    /\ requests[w] = Idle /\ Exists(u) /\ users[u].active
    /\ Go(w, [Idle EXCEPT !.pc = "forgot", !.op = "forgot", !.target = u])
    /\ UNCHANGED users /\ Plain
ForgotSet(w) ==
    LET u == requests[w].target IN
    /\ requests[w].pc = "forgot"
    /\ Write(u, SetRecovery(users[u], w))
    /\ born' = [born EXCEPT ![w] = changes[u]]
    /\ Go(w, Done)
    /\ UNCHANGED <<institutions, sessions, changes>>

\* completePasswordReset finds the token's account, hashes, and updates where the
\* token is still the account's and still valid.
Holds(u, t) == users[u].reset = t /\ users[u].timely
CompleteFind(w, u, t, pw) ==
    /\ requests[w] = Idle
    /\ Holds(u, t) /\ users[u].pw # pw
    /\ Go(w, [Idle EXCEPT !.pc = "consume", !.op = "complete", !.target = u, !.token = t,
                          !.want = [Nothing EXCEPT !.pw = pw]])
    /\ UNCHANGED users /\ Plain
\* Mutant: WHERE id = $1 only.
UnguardedConsumeBug(w) ==
    LET r == requests[w] IN
    /\ r.pc = "consume"
    /\ Write(r.target, Consume(users[r.target], r.want.pw)) /\ NewPassword(r.target)
    /\ Go(w, Done)

CompleteConsume(w) ==
    LET r == requests[w] IN
    /\ r.pc = "consume"
    /\ IF Holds(r.target, r.token)
       THEN Write(r.target, Consume(users[r.target], r.want.pw)) /\ NewPassword(r.target)
       ELSE UNCHANGED users /\ Plain
    /\ Go(w, Done)

-----------------------------------------------------------------------------
(* The operator's scripts.                                                 *)

\* createFirstSuperAdmin: one transaction under an advisory lock.
Bootstrap(w, u, pw, allowOverride) ==
    /\ requests[w] = Idle
    /\ ~Exists(u) /\ (ActiveSupers = {} \/ allowOverride)
    /\ Write(u, NewRow("super_admin", NoInst, pw))
    /\ Go(w, Done) /\ Plain

\* resetAdminPassword: the role is judged on the row read before the hash.
RecoverRead(w, u, pw) ==
    /\ requests[w] = Idle /\ users[u].role \in {"super_admin", "institution_admin"}
    /\ Go(w, [Idle EXCEPT !.pc = "recover", !.op = "recover", !.target = u,
                          !.want = [Nothing EXCEPT !.pw = pw]])
    /\ UNCHANGED users /\ Plain
RecoverUpdate(w) ==
    LET r == requests[w] IN
    /\ r.pc = "recover"
    /\ Write(r.target, Recover(users[r.target], r.want.pw))
    /\ NewPassword(r.target)
    /\ Go(w, Done)

-----------------------------------------------------------------------------
(* What happens around the requests.                                       *)

\* An await throws, or the process exits: the handler ends where it stands.
Abort(w) ==
    /\ requests[w].pc \notin {"idle", "done"}
    /\ Go(w, Done)
    /\ UNCHANGED users /\ Plain

\* locked_until passes; the counter stays as it is.
LockEnds(u) ==
    /\ users[u].lock = "future"
    /\ Write(u, [users[u] EXCEPT !.lock = "past"])
    /\ UNCHANGED requests /\ Plain

ResetExpires(u) ==
    /\ users[u].timely
    /\ Write(u, [users[u] EXCEPT !.timely = FALSE])
    /\ UNCHANGED requests /\ Plain

\* The status of an institution changes (institutionController.js).
ToggleInstitution(i) ==
    /\ institutions' = [institutions EXCEPT ![i] = ~@]
    /\ UNCHANGED <<users, sessions, requests, changes, born>>

Arrive(w) ==
    \/ \E s \in sessions, u \in Users :
          \/ \E role \in AskedRoles, i \in Insts, active \in BOOLEAN :
                CreateBegin(w, s, u, role, i, active)
          \/ \E active \in BOOLEAN :
                ManageBegin(w, s, "status", u, [Nothing EXCEPT !.active = active])
          \/ \E role \in AskedRoles, i \in Insts :
                ManageBegin(w, s, "role", u, [Nothing EXCEPT !.role = role, !.inst = i])
          \/ \E i \in Insts : ManageBegin(w, s, "assign", u, [Nothing EXCEPT !.inst = i])
          \/ \E op \in {"unlock", "require", "reset"} : ManageBegin(w, s, op, u, Nothing)
    \/ \E s \in sessions, p, q \in Passwords : ChangeBegin(w, s, p, q)
    \/ \E u \in Users, p \in Passwords : LoginRead(w, u, p)
    \/ \E u \in Users : ForgotRead(w, u)
    \/ \E u \in Users, t \in Requests \cup Users, p \in Passwords : CompleteFind(w, u, t, p)
    \/ \E u \in Users, p \in Passwords, o \in BOOLEAN : Bootstrap(w, u, p, o)
    \/ \E u \in Users, p \in Passwords : RecoverRead(w, u, p)

Step(w) ==
    \/ LoginReject(w) \/ LoginAccept(w)
    \/ CreateEmail(w) \/ CreateInsert(w) \/ CreateSetup(w) \/ CreateStatus(w)
    \/ ReadTarget(w) \/ CountSupers(w) \/ CheckInstitution(w)
    \/ ChangeStatus(w) \/ ChangeRole(w) \/ AssignInstitution(w) \/ UnlockAccount(w)
    \/ RequirePasswordChange(w) \/ ResetPassword(w) \/ ChangePassword(w)
    \/ ForgotSet(w) \/ CompleteConsume(w) \/ RecoverUpdate(w)
    \/ Abort(w)

Next ==
    \/ \E w \in Requests : Arrive(w) \/ Step(w)
    \/ \E u \in Users : LockEnds(u) \/ ResetExpires(u)
    \/ \E i \in Institutions : ToggleInstitution(i)

Spec == Init /\ [][Next]_vars

-----------------------------------------------------------------------------
(* Properties.                                                             *)

\* A session that the version check would still let through tells the truth: its account
\* is active, its role and institution are the claims, and the password it was
\* obtained with is still the password.  Every withdrawal must raise the version, and
\* a login must not sign a new version over what it read before (userModel.js,
\* authController.js:101).
LiveSessionsTellTheTruth ==
    \A s \in sessions : Live(s) =>
        LET u == users[s.user] IN
        u.active /\ u.role = s.role /\ u.inst = s.inst /\ u.pw = s.pw

\* A reset link works only as long as the password it was asked for has not been set by
\* anything else, another use of the link included (userModel.js:164).
ResetsAreFresh ==
    [][\A w \in Requests :
         LET r == requests[w] IN
         r.pc = "consume" /\ requests'[w] # r /\ changes'[r.target] # changes[r.target]
            => changes[r.target] = born[r.token]]_vars

\* No request takes the last active super administrator away by itself: when it happens, the
\* active super administrators are not those the request saw when it last looked
\* (userController.js:494 and 569 refuse it; only a race gets past them), or the account
\* is just being created as an inactive one (userController.js:346).
LastSuperNotTakenAlone ==
    [][ActiveSupers # {} /\ ActiveSupers' = {} =>
         \E w \in Requests : /\ requests'[w] # requests[w]
                             /\ \/ requests[w].pc = "update" /\ requests[w].saw # ActiveSupers
                                \/ requests[w].pc = "status"]_vars

\* Nobody below a super administrator makes an account an administrator or a regulator:
\* it is done for a request of a super administrator or by the bootstrap script.
PromotionComesFromAbove ==
    [][\A u \in Users :
         users'[u].role \in Global \cup {"institution_admin"} /\ users'[u].role # users[u].role =>
            \E w \in Requests : /\ requests'[w] # requests[w]
                                /\ requests[w].role = "super_admin" \/ requests[w] = Idle]_vars

\* Whoever has failed often enough was locked out and not merely counted: the counter
\* and the lock are written by seven statements and never come apart.
FailuresLock == \A u \in Users : users[u].fails >= MaxAttempts => users[u].lock # "null"

=============================================================================
