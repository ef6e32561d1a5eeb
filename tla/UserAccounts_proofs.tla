------------------------- MODULE UserAccounts_proofs -------------------------
(* For any accounts, passwords and requests: sessions tell the truth, locks  *)
(* follow failures, reset links are fresh, and roles come from above.        *)
EXTENDS UserAccounts, FiniteSetTheorems, TLAPS

USE AccountsAssumption

-----------------------------------------------------------------------------
(* The inductive invariant.                                                *)

\* What a live session of a row may rely on stays true, or the version rises.
Upheld(old, new) ==
    \/ new.ver > old.ver
    \/ /\ new.ver = old.ver /\ new.role = old.role /\ new.inst = old.inst /\ new.pw = old.pw
       /\ old.active => new.active
Locked(r) == r.fails >= MaxAttempts => r.lock # "null"

\* A session is of an account, never ahead of it, and truthful while it is live.
SessionOK(s, us) ==
    LET u == us[s.user] IN
    /\ u.role # "none" /\ s.ver <= u.ver
    /\ s.ver = u.ver => u.active /\ u.role = s.role /\ u.inst = s.inst /\ u.pw = s.pw

\* What is known of a handler by where it stands.
Shape(r) ==
    /\ r.pc \notin {"idle", "done"} => r.target \in Users
    /\ r.pc \in {"email", "insert", "setup", "status"} => r.op = "create"
    /\ r.pc \in {"target", "count", "update"} => r.op # "create"
    /\ r.op \in {"create", "role"} => r.want.role \in Roles
    /\ r.op = "create" /\ r.want.role \notin Managed => r.role = "super_admin"
    /\ r.op = "role" /\ r.pc \in {"count", "institution", "update"} /\ r.want.role \notin Managed
          => r.role = "super_admin"
    /\ r.pc = "count" => TakesSuper(r)
    /\ r.pc \in {"institution", "update"} =>
          /\ TakesSuper(r) => ~(Cardinality(r.saw) <= 1)
          /\ r.op # "create" /\ r.op # "change_password" /\ r.target \in r.saw
                => r.was.role = "super_admin"
    /\ r.pc = "consume" => r.token \in Requests \cup Users

\* The account it is about exists, and what a login has read is a truth that was.
Placed(r, us) ==
    LET u == us[r.target] IN
    /\ \/ r.pc \in {"setup", "status", "update", "count", "compare", "forgot", "consume", "recover"}
       \/ r.pc = "institution" /\ r.op # "create"
       => u.role # "none"
    /\ r.pc = "compare" =>
          /\ r.was.role \in Roles /\ r.was.ver <= u.ver
          /\ r.was.ver = u.ver => /\ u.active /\ u.role = r.was.role
                                  /\ u.inst = r.was.inst /\ u.pw = r.was.pw

\* A token is on an account that exists, since its password was last set, and no token is
\* there before its request has written it.
Fresh == \A u \in Users : users[u].reset # NoToken =>
             users[u].role # "none" /\ changes[u] = born[users[u].reset]
Unset == \A w \in Requests : requests[w].pc \notin {"done", "status"} =>
             \A u \in Users : users[u].reset # w

IInv == /\ TypeOK /\ FailuresLock
        /\ \A s \in sessions : SessionOK(s, users)
        /\ \A w \in Requests : Shape(requests[w]) /\ Placed(requests[w], users)
        /\ Fresh /\ Unset

-----------------------------------------------------------------------------
(* The UPDATEs.                                                            *)

\* An UPDATE that may be made of an account that exists.
Sound(old, new) == new \in Row /\ new.role # "none" /\ Upheld(old, new) /\ Locked(new)
Standing(old, new) == new.role = old.role /\ new.active = old.active

LEMMA StatusSound ==
  ASSUME NEW r \in Row, Locked(r), r.role # "none", NEW active \in BOOLEAN
  PROVE  Sound(r, SetStatus(r, active)) /\ SetStatus(r, active).reset = r.reset
<1> DEFINE v == IF active THEN r.ver ELSE r.ver + 1
<1>1. v \in Nat
  BY DEF Row
<1>2. SetStatus(r, active) = [r EXCEPT !.active = active, !.ver = v]
  BY DEF SetStatus
<1> HIDE DEF v
<1>3. SetStatus(r, active) \in Row
  BY <1>1, <1>2 DEF Row
<1> QED
  BY <1>3 DEF Sound, Upheld, Locked, SetStatus, Row

LEMMA RoleSound ==
  ASSUME NEW r \in Row, Locked(r), NEW role \in Roles, NEW i \in Insts
  PROVE  Sound(r, SetRole(r, role, i)) /\ SetRole(r, role, i).reset = r.reset
<1> DEFINE v == r.ver + 1
<1>1. v \in Nat
  BY DEF Row
<1>2. SetRole(r, role, i) = [r EXCEPT !.role = role, !.inst = i, !.ver = v]
  BY DEF SetRole
<1> HIDE DEF v
<1>3. SetRole(r, role, i) \in Row
  BY <1>1, <1>2 DEF Row
<1>4. role # "none"
  BY DEF Roles, Global, Managed
<1> QED
  BY <1>3, <1>4 DEF Sound, Upheld, Locked, SetRole, Row

LEMMA InstitutionSound ==
  ASSUME NEW r \in Row, Locked(r), r.role # "none", NEW i \in Insts
  PROVE  /\ Sound(r, SetInstitution(r, i)) /\ SetInstitution(r, i).reset = r.reset
         /\ Standing(r, SetInstitution(r, i))
<1> DEFINE v == r.ver + 1
<1>1. v \in Nat
  BY DEF Row
<1>2. SetInstitution(r, i) = [r EXCEPT !.inst = i, !.ver = v]
  BY DEF SetInstitution
<1> HIDE DEF v
<1>3. SetInstitution(r, i) \in Row
  BY <1>1, <1>2 DEF Row
<1> QED
  BY <1>3 DEF Sound, Upheld, Locked, SetInstitution, Row, Standing

LEMMA UnlockSound ==
  ASSUME NEW r \in Row, r.role # "none"
  PROVE  /\ Sound(r, Unlock(r)) /\ Unlock(r).reset = r.reset /\ Standing(r, Unlock(r))
         /\ LoginSuccess(r) = Unlock(r)
<1>1. Unlock(r) \in Row
  BY DEF Unlock, Row
<1> QED
  BY <1>1 DEF Sound, Upheld, Locked, Unlock, LoginSuccess, Row, Standing

LEMMA RequireSound ==
  ASSUME NEW r \in Row, Locked(r), r.role # "none"
  PROVE  /\ Sound(r, RequireChange(r)) /\ RequireChange(r).reset = r.reset
         /\ Standing(r, RequireChange(r))
<1> DEFINE v == r.ver + 1
<1>1. v \in Nat
  BY DEF Row
<1>2. RequireChange(r) = [r EXCEPT !.must = TRUE, !.ver = v]
  BY DEF RequireChange
<1> HIDE DEF v
<1>3. RequireChange(r) \in Row
  BY <1>1, <1>2 DEF Row
<1> QED
  BY <1>3 DEF Sound, Upheld, Locked, RequireChange, Row, Standing

LEMMA ResetSound ==
  ASSUME NEW r \in Row, Locked(r), r.role # "none", NEW t \in Tokens
  PROVE  /\ Sound(r, SetReset(r, t)) /\ SetReset(r, t).reset = t /\ Standing(r, SetReset(r, t))
         /\ Sound(r, SetRecovery(r, t)) /\ SetRecovery(r, t).reset = t
         /\ Standing(r, SetRecovery(r, t))
<1> DEFINE v == r.ver + 1
<1>1. v \in Nat
  BY DEF Row
<1>2. SetReset(r, t) = [r EXCEPT !.reset = t, !.timely = TRUE, !.must = TRUE, !.ver = v]
  BY DEF SetReset
<1> HIDE DEF v
<1>3. SetReset(r, t) \in Row /\ SetRecovery(r, t) \in Row
  BY <1>1, <1>2 DEF Row, SetRecovery
<1> QED
  BY <1>3 DEF Sound, Upheld, Locked, SetReset, SetRecovery, Row, Standing

LEMMA FailureSound ==
  ASSUME NEW r \in Row, r.role # "none"
  PROVE  /\ Sound(r, LoginFailure(r)) /\ LoginFailure(r).reset = r.reset
         /\ Standing(r, LoginFailure(r))
<1> DEFINE n == r.fails + 1
           l == IF r.fails + 1 >= MaxAttempts THEN "future" ELSE r.lock
<1>1. n \in Nat /\ l \in {"null", "future", "past"}
  BY DEF Row
<1>2. LoginFailure(r) = [r EXCEPT !.fails = n, !.lock = l]
  BY DEF LoginFailure
<1> HIDE DEF n, l
<1>3. LoginFailure(r) \in Row
  BY <1>1, <1>2 DEF Row
<1> QED
  BY <1>3 DEF Sound, Upheld, Locked, LoginFailure, Row, Standing

LEMMA PasswordSound ==
  ASSUME NEW r \in Row, Locked(r), r.role # "none", NEW pw \in Hashes
  PROVE  \A new \in {SetPassword(r, pw), Consume(r, pw), Recover(r, pw)} :
             Sound(r, new) /\ new.reset = NoToken /\ Standing(r, new)
<1> DEFINE v == r.ver + 1
<1>1. v \in Nat /\ NoToken \in Tokens
  BY DEF Row, Tokens
<1>2. SetPassword(r, pw) = [r EXCEPT !.pw = pw, !.must = FALSE, !.reset = NoToken,
                                     !.timely = FALSE, !.ver = v]
  BY DEF SetPassword
<1> HIDE DEF v
<1>3. SetPassword(r, pw) \in Row
  BY <1>1, <1>2 DEF Row
<1>4. Consume(r, pw) \in Row /\ Recover(r, pw) \in Row
  BY <1>3 DEF Consume, Recover, Unlock, Row
<1>5. Sound(r, SetPassword(r, pw)) /\ SetPassword(r, pw).reset = NoToken
      /\ Standing(r, SetPassword(r, pw))
  BY <1>3 DEF Sound, Upheld, Locked, SetPassword, Row, Standing
<1>6. Sound(r, Consume(r, pw)) /\ Consume(r, pw).reset = NoToken /\ Standing(r, Consume(r, pw))
  BY <1>4 DEF Sound, Upheld, Locked, SetPassword, Unlock, Consume, Row, Standing
<1>7. Sound(r, Recover(r, pw)) /\ Recover(r, pw).reset = NoToken /\ Standing(r, Recover(r, pw))
  BY <1>4 DEF Sound, Upheld, Locked, SetPassword, Unlock, Recover, Row, Standing
<1> QED
  BY <1>5, <1>6, <1>7

LEMMA NewRowOK ==
  ASSUME NEW role \in Roles \cup {"none"}, NEW i \in Insts, NEW pw \in Hashes
  PROVE  /\ NewRow(role, i, pw) \in Row /\ Locked(NewRow(role, i, pw))
         /\ NewRow(role, i, pw).reset = NoToken /\ NewRow(role, i, pw).role = role
         /\ NewRow(role, i, pw).active /\ NewRow(role, i, pw).pw = pw
         /\ NewRow(role, i, pw).inst = i /\ NewRow(role, i, pw).ver = 0
  BY DEF NewRow, Row, Locked, Tokens

-----------------------------------------------------------------------------
(* What a step does to the table, and what it leaves true.                 *)

\* Accounts stay, and what was true of them stays true or the version has risen.
Grows(us, vs) == \A u \in Users : us[u].role # "none" =>
                     vs[u].role # "none" /\ Upheld(us[u], vs[u])

LEMMA SessionKept ==
  ASSUME NEW us \in [Users -> Row], NEW vs \in [Users -> Row], Grows(us, vs),
         NEW s \in Session, SessionOK(s, us)
  PROVE  SessionOK(s, vs)
<1>1. s.user \in Users /\ s.ver \in Nat
  BY DEF Session
<1>2. us[s.user].ver \in Nat /\ vs[s.user].ver \in Nat
  BY <1>1 DEF Row
<1> QED
  BY <1>1, <1>2 DEF Grows, SessionOK, Upheld

LEMMA PlacedKept ==
  ASSUME NEW us \in [Users -> Row], NEW vs \in [Users -> Row], Grows(us, vs),
         NEW r \in Handler, Shape(r), Placed(r, us)
  PROVE  Placed(r, vs)
<1>1. CASE r.pc \in {"idle", "done"}
  BY <1>1 DEF Placed
<1>2. CASE r.pc \notin {"idle", "done"}
  <2>1. r.target \in Users
    BY <1>2 DEF Shape
  <2>2. us[r.target].ver \in Nat /\ vs[r.target].ver \in Nat /\ r.was.ver \in Nat
    BY <2>1 DEF Row, Handler
  <2> QED
    BY <2>1, <2>2 DEF Grows, Placed, Upheld
<1> QED
  BY <1>1, <1>2

LEMMA SameGrows == ASSUME NEW us PROVE Grows(us, us)
  BY DEF Grows, Upheld

\* Of every step: the invariant is kept if the handler is where it may be, the table has
\* grown, new sessions are true and tokens are in order.
LEMMA Frame ==
  ASSUME IInv, NEW w \in Requests, NEW q \in Handler, Go(w, q), Shape(q), Placed(q, users'),
         users' \in [Users -> Row], FailuresLock', Grows(users, users'),
         UNCHANGED institutions,
         sessions' \subseteq Session, \A s \in sessions' \ sessions : SessionOK(s, users'),
         changes' \in [Users -> Nat], born' \in [Tokens -> Nat], Fresh', Unset'
  PROVE  IInv'
<1>1. requests' = [requests EXCEPT ![w] = q] /\ requests \in [Requests -> Handler]
  BY DEF Go, IInv, TypeOK
<1>2. TypeOK'
  BY <1>1 DEF IInv, TypeOK
<1>3. \A s \in sessions' : SessionOK(s, users')
  BY SessionKept DEF IInv, TypeOK
<1>4. ASSUME NEW v \in Requests PROVE Shape(requests'[v]) /\ Placed(requests'[v], users')
  <2>1. CASE v = w
    BY <1>1, <2>1
  <2>2. CASE v # w
    <3>1. requests'[v] = requests[v] /\ requests[v] \in Handler
      BY <1>1, <2>2
    <3>2. Shape(requests[v]) /\ Placed(requests[v], users)
      BY DEF IInv
    <3>3. Placed(requests[v], users')
      BY <3>1, <3>2, PlacedKept DEF IInv, TypeOK
    <3> QED
      BY <3>1, <3>2, <3>3
  <2> QED
    BY <2>1, <2>2
<1> QED
  BY <1>2, <1>3, <1>4 DEF IInv

\* A handler's token is unset until it writes it.
Forward(w, q) == q.pc \in {"done", "status"} \/ requests[w].pc \notin {"done", "status"}

\* One row is written, and gets no token.
LEMMA RowKeeps ==
  ASSUME IInv, NEW w \in Requests, NEW q \in Handler, Go(w, q), Shape(q), Placed(q, users'),
         Forward(w, q), NEW u \in Users, NEW row \in Row, Write(u, row),
         Locked(row), Exists(u) => Sound(users[u], row),
         row.reset \in {users[u].reset, NoToken},
         UNCHANGED <<institutions, changes, born>>,
         sessions' \subseteq Session, \A s \in sessions' \ sessions : SessionOK(s, users')
  PROVE  IInv'
<1>1. users' = [users EXCEPT ![u] = row] /\ users \in [Users -> Row]
  BY DEF Write, IInv, TypeOK
<1>2. users' \in [Users -> Row]
  BY <1>1
<1>3. Grows(users, users')
  BY <1>1 DEF Grows, Upheld, Sound, Exists
<1>4. FailuresLock'
  BY <1>1 DEF IInv, FailuresLock, Locked
<1>5. \A v \in Users : users'[v].reset \in {users[v].reset, NoToken}
  BY <1>1
<1>6. Fresh'
  BY <1>3, <1>5 DEF IInv, Fresh, Grows
<1>7. requests' = [requests EXCEPT ![w] = q] /\ requests \in [Requests -> Handler]
  BY DEF Go, IInv, TypeOK
<1>8. Unset'
  BY <1>5, <1>7 DEF IInv, Unset, Forward
<1>9. changes' \in [Users -> Nat] /\ born' \in [Tokens -> Nat]
  BY DEF IInv, TypeOK
<1> QED
  BY <1>2, <1>3, <1>4, <1>6, <1>8, <1>9, Frame

\* Nothing but the handler changes.
LEMMA PutKeeps ==
  ASSUME IInv, NEW w \in Requests, NEW q \in Handler, Go(w, q), Shape(q), Placed(q, users),
         Forward(w, q), UNCHANGED users, Plain
  PROVE  IInv'
<1>1. Unset'
  <2>1. requests' = [requests EXCEPT ![w] = q] /\ requests \in [Requests -> Handler]
    BY DEF Go, IInv, TypeOK
  <2> QED
    BY <2>1 DEF IInv, Unset, Forward
<1>2. FailuresLock' /\ Fresh'
  BY DEF IInv, FailuresLock, Fresh, Plain
<1>3. /\ changes' \in [Users -> Nat] /\ born' \in [Tokens -> Nat] /\ users' \in [Users -> Row]
      /\ sessions' \subseteq Session /\ sessions' = sessions /\ UNCHANGED institutions
  BY DEF IInv, TypeOK, Plain
<1>4. Grows(users, users') /\ Placed(q, users')
  BY SameGrows
<1> QED
  BY <1>1, <1>2, <1>3, <1>4, Frame

LEMMA DoneFits ==
  /\ Done \in Handler /\ Shape(Done) /\ \A us : Placed(Done, us)
  /\ \A w : Forward(w, Done)
<1>1. Done \in Handler
  BY DEF Done, Idle, Handler, Unread, Nothing, Insts, Hashes, Tokens
<1> QED
  BY <1>1 DEF Done, Idle, Shape, Placed, Forward

\* An UPDATE of an account that exists ends the request.
LEMMA WriteKeeps ==
  ASSUME IInv, NEW w \in Requests, Go(w, Done), NEW u \in Users, NEW row, Write(u, row),
         Sound(users[u], row), row.reset = users[u].reset, Plain
  PROVE  IInv'
<1>1. row \in Row /\ Locked(row)
  BY DEF Sound
<1>2. sessions' = sessions /\ sessions' \subseteq Session /\ UNCHANGED <<institutions, changes, born>>
  BY DEF Plain, IInv, TypeOK
<1> QED
  BY <1>1, <1>2, DoneFits, RowKeeps

\* An UPDATE that gives an account the token of the request.
LEMMA TokenKeeps ==
  ASSUME IInv, NEW w \in Requests, NEW q \in Handler, Go(w, q), Shape(q), Placed(q, users'),
         q.pc \in {"done", "status"}, requests[w].pc \notin {"done", "status"},
         NEW u \in Users, NEW row, Write(u, row),
         Sound(users[u], row), row.reset = w, born' = [born EXCEPT ![w] = changes[u]],
         UNCHANGED <<institutions, sessions, changes>>
  PROVE  IInv'
<1>1. users' = [users EXCEPT ![u] = row] /\ users \in [Users -> Row] /\ row \in Row
  BY DEF Write, IInv, TypeOK, Sound
<1>2. users' \in [Users -> Row] /\ Grows(users, users')
  BY <1>1 DEF Grows, Upheld, Sound
<1>3. FailuresLock'
  BY <1>1 DEF IInv, FailuresLock, Locked, Sound
<1>4. w \in Tokens /\ born \in [Tokens -> Nat] /\ changes \in [Users -> Nat]
  BY DEF Tokens, IInv, TypeOK
<1>5. Fresh'
  <2>1. ASSUME NEW v \in Users, users'[v].reset # NoToken
        PROVE  users'[v].role # "none" /\ changes'[v] = born'[users'[v].reset]
    <3>1. CASE v = u
      BY <1>1, <1>4, <3>1 DEF Sound
    <3>2. CASE v # u
      <4>1. users'[v] = users[v] /\ users[v].reset # w
        BY <1>1, <3>2 DEF IInv, Unset
      <4>2. users[v].reset \in Tokens
        BY <1>1 DEF Row
      <4> QED
        BY <1>4, <2>1, <4>1, <4>2 DEF IInv, Fresh
    <3> QED
      BY <3>1, <3>2
  <2> QED
    BY <2>1 DEF Fresh
<1>6. Unset'
  <2>1. requests' = [requests EXCEPT ![w] = q] /\ requests \in [Requests -> Handler]
    BY DEF Go, IInv, TypeOK
  <2> QED
    BY <1>1, <2>1 DEF IInv, Unset
<1>7. sessions' \subseteq Session /\ changes' \in [Users -> Nat] /\ born' \in [Tokens -> Nat]
  BY <1>4 DEF IInv, TypeOK
<1> QED
  BY <1>2, <1>3, <1>5, <1>6, <1>7, Frame

\* An UPDATE that sets a password takes the token away.
LEMMA PasswordKeeps ==
  ASSUME IInv, NEW w \in Requests, Go(w, Done), NEW u \in Users, NEW row, Write(u, row),
         Sound(users[u], row), row.reset = NoToken, NewPassword(u)
  PROVE  IInv'
<1>1. users' = [users EXCEPT ![u] = row] /\ users \in [Users -> Row] /\ row \in Row
  BY DEF Write, IInv, TypeOK, Sound
<1>2. users' \in [Users -> Row] /\ Grows(users, users')
  BY <1>1 DEF Grows, Upheld, Sound
<1>3. FailuresLock'
  BY <1>1 DEF IInv, FailuresLock, Locked, Sound
<1>4. changes' \in [Users -> Nat] /\ born' \in [Tokens -> Nat] /\ sessions' \subseteq Session
      /\ sessions' = sessions /\ UNCHANGED institutions
  BY DEF NewPassword, IInv, TypeOK
<1>5. Fresh'
  <2>1. ASSUME NEW v \in Users, v # u, users'[v].reset # NoToken
        PROVE  users'[v].role # "none" /\ changes'[v] = born'[users'[v].reset]
    BY <1>1, <2>1 DEF IInv, TypeOK, Fresh, NewPassword
  <2> QED
    BY <1>1, <2>1 DEF Fresh
<1>6. Unset'
  <2>1. requests' = [requests EXCEPT ![w] = Done] /\ requests \in [Requests -> Handler]
    BY DEF Go, IInv, TypeOK
  <2>2. \A v \in Users : users'[v].reset \in {users[v].reset, NoToken}
    BY <1>1
  <2> QED
    BY <2>1, <2>2 DEF IInv, Unset, Done, Idle
<1> QED
  BY <1>2, <1>3, <1>4, <1>5, <1>6, DoneFits, Frame

-----------------------------------------------------------------------------
(* A request arrives.                                                      *)

Was  == [role: Roles \cup {"none"}, inst: Insts, pw: Hashes, ver: Nat]
Want == [role: Roles \cup {"none"}, inst: Insts, active: BOOLEAN, pw: Hashes]
Places == {"idle", "done", "target", "count", "institution", "email", "insert",
           "setup", "status", "update", "compare", "forgot", "consume", "recover"}
Ops == {"none", "create", "status", "role", "assign", "unlock", "require",
        "reset", "change_password", "login", "forgot", "complete", "recover"}

\* What a handler moves to: elsewhere, or with another institution to write.
LEMMA Moved ==
  ASSUME NEW r \in Handler, NEW pc \in Places
  PROVE  LET q == [r EXCEPT !.pc = pc] IN
         /\ q \in Handler /\ q.pc = pc /\ q.op = r.op /\ q.role = r.role /\ q.target = r.target
         /\ q.was = r.was /\ q.want = r.want /\ q.token = r.token /\ q.saw = r.saw
  BY DEF Handler, Places

LEMMA IdleTyped == Idle \in Handler /\ Nothing \in Want /\ Unread \in Was
  BY DEF Idle, Handler, Nothing, Want, Unread, Was, Insts, Hashes, Tokens

LEMMA ServeTyped ==
  ASSUME IInv, NEW s \in sessions, NEW op \in Ops, NEW u \in Users, NEW want \in Want
  PROVE  LET q == Serve(s, op, u, want) IN
         /\ q \in Handler /\ q.op = op /\ q.role = users[s.user].role /\ q.target = u
         /\ q.want = want /\ q.saw = {} /\ s.user \in Users
<1>1. s.user \in Users /\ users[s.user] \in Row
  BY DEF IInv, TypeOK, Session
<1>2. users[s.user].role \in Roles \cup {"none"} /\ users[s.user].inst \in Insts
  BY <1>1 DEF Row
<1>3. Serve(s, op, u, want) \in Handler
  BY <1>1, <1>2, IdleTyped DEF Serve, Idle, Handler, Ops, Want
<1> QED
  BY <1>1, <1>3 DEF Serve, Idle

LEMMA LoginReadKeeps ==
  ASSUME IInv, NEW w \in Requests, NEW u \in Users, NEW p \in Passwords, LoginRead(w, u, p)
  PROVE  IInv'
<1> DEFINE was == [role |-> users[u].role, inst |-> users[u].inst,
                   pw |-> users[u].pw, ver |-> users[u].ver]
           want == [Nothing EXCEPT !.pw = p]
           q == [Idle EXCEPT !.pc = "compare", !.op = "login", !.target = u,
                             !.was = was, !.want = want]
<1>1. users[u] \in Row
  BY DEF IInv, TypeOK
<1>2. was \in Was /\ want \in Want
  BY <1>1, IdleTyped DEF Was, Want, Row, Hashes
<1>3. q \in Handler
  BY <1>2, IdleTyped DEF Idle, Handler, Was, Want
<1>4. q.pc = "compare" /\ q.target = u /\ q.op = "login" /\ q.was = was
  BY DEF Idle
<1>5. Go(w, q) /\ UNCHANGED users /\ Plain /\ Exists(u) /\ users[u].active /\ requests[w] = Idle
  BY DEF LoginRead
<1>6. Placed(q, users)
  <2>1. users[u].role \in Roles /\ users[u].ver \in Nat
    BY <1>1, <1>5 DEF Row, Exists
  <2> QED
    BY <1>4, <1>5, <2>1 DEF Placed, Exists
<1>7. Forward(w, q)
  BY <1>5 DEF Forward, Idle
<1> HIDE DEF q
<1>8. Shape(q)
  BY <1>4 DEF Shape
<1> QED
  BY <1>3, <1>5, <1>6, <1>7, <1>8, PutKeeps

LEMMA CreateBeginKeeps ==
  ASSUME IInv, NEW w \in Requests, NEW s \in sessions, NEW u \in Users, NEW role \in AskedRoles,
         NEW i \in Insts, NEW active \in BOOLEAN, CreateBegin(w, s, u, role, i, active)
  PROVE  IInv'
<1> DEFINE eff == IF role \in Global THEN NoInst
                  ELSE IF users[s.user].role = "institution_admin" THEN users[s.user].inst ELSE i
           want == [role |-> role, inst |-> eff, active |-> active, pw |-> Random]
           r == Serve(s, "create", u, want)
           pc == IF eff = NoInst THEN "email" ELSE "institution"
           q == [r EXCEPT !.pc = pc]
<1>1. users[s.user] \in Row /\ role \in Roles
  BY DEF IInv, TypeOK, Session
<1>2. eff \in Insts
  BY <1>1 DEF Insts, Row
<1> HIDE DEF eff
<1>3. want \in Want
  BY <1>1, <1>2 DEF Want, Hashes
<1>4. want.role = role
  OBVIOUS
<1> HIDE DEF want
<1>5. r \in Handler /\ r.op = "create" /\ r.role = users[s.user].role /\ r.target = u /\ r.want = want
  BY <1>3, ServeTyped DEF Ops
<1> HIDE DEF r
<1>6. pc \in {"email", "institution"} /\ pc \in Places
  BY DEF Places
<1>7. Go(w, q) /\ UNCHANGED users /\ Plain /\ requests[w] = Idle /\ Authorised(s, "create")
      /\ (users[s.user].role = "institution_admin" => role \in Managed)
  BY DEF CreateBegin, r, want, eff
<1> HIDE DEF pc
<1>8. /\ q \in Handler /\ q.pc = pc /\ q.op = "create" /\ q.role = users[s.user].role
      /\ q.target = u /\ q.want = want /\ q.saw = r.saw /\ q.was = r.was
  BY <1>5, <1>6, Moved
<1> HIDE DEF q
<1>9. role \notin Managed => users[s.user].role = "super_admin"
  BY <1>7 DEF Authorised
<1>10. ~TakesSuper(q)
  BY <1>8 DEF TakesSuper
<1>11. Shape(q)
  BY <1>1, <1>4, <1>6, <1>8, <1>9, <1>10 DEF Shape
<1>12. Placed(q, users) /\ Forward(w, q)
  BY <1>6, <1>7, <1>8 DEF Placed, Forward, Idle
<1> QED
  BY <1>7, <1>8, <1>11, <1>12, PutKeeps

\* The operations that read their target first, whatever they want to write.
LEMMA ManageBeginKeeps ==
  ASSUME IInv, NEW w \in Requests, NEW s \in sessions, NEW u \in Users,
         NEW op \in {"status", "role", "assign", "unlock", "require", "reset"}, NEW want \in Want,
         op = "role" => want.role \in Roles, ManageBegin(w, s, op, u, want)
  PROVE  IInv'
<1> DEFINE r == Serve(s, op, u, want)
           q == [r EXCEPT !.pc = "target"]
<1>1. r \in Handler /\ r.op = op /\ r.target = u /\ r.want = want
  BY ServeTyped DEF Ops
<1>2. Go(w, q) /\ UNCHANGED users /\ Plain /\ requests[w] = Idle
  BY DEF ManageBegin
<1> HIDE DEF r
<1>3. q \in Handler /\ q.pc = "target" /\ q.op = op /\ q.target = u /\ q.want = want
  BY <1>1, Moved DEF Places
<1> HIDE DEF q
<1>4. Shape(q) /\ Placed(q, users) /\ Forward(w, q)
  BY <1>2, <1>3 DEF Shape, Placed, Forward, Idle
<1> QED
  BY <1>2, <1>3, <1>4, PutKeeps

LEMMA ChangeBeginKeeps ==
  ASSUME IInv, NEW w \in Requests, NEW s \in sessions, NEW p \in Passwords, NEW new \in Passwords,
         ChangeBegin(w, s, p, new)
  PROVE  IInv'
<1> DEFINE want == [Nothing EXCEPT !.pw = new]
           r == Serve(s, "change_password", s.user, want)
           q == [r EXCEPT !.pc = "update"]
<1>1. want \in Want /\ s.user \in Users
  BY IdleTyped DEF Want, Hashes, IInv, TypeOK, Session
<1>2. Go(w, q) /\ UNCHANGED users /\ Plain /\ requests[w] = Idle /\ Exists(s.user)
  BY DEF ChangeBegin, Authorised
<1> HIDE DEF want
<1>3. r \in Handler /\ r.op = "change_password" /\ r.target = s.user
  BY <1>1, ServeTyped DEF Ops
<1> HIDE DEF r
<1>4. q \in Handler /\ q.pc = "update" /\ q.op = "change_password" /\ q.target = s.user
  BY <1>3, Moved DEF Places
<1> HIDE DEF q
<1>5. Shape(q) /\ Placed(q, users) /\ Forward(w, q)
  BY <1>1, <1>2, <1>4 DEF Shape, Placed, Forward, Idle, TakesSuper, Exists
<1> QED
  BY <1>2, <1>4, <1>5, PutKeeps

LEMMA ForgotReadKeeps ==
  ASSUME IInv, NEW w \in Requests, NEW u \in Users, ForgotRead(w, u)
  PROVE  IInv'
<1> DEFINE q == [Idle EXCEPT !.pc = "forgot", !.op = "forgot", !.target = u]
<1>1. q \in Handler
  BY IdleTyped DEF Idle, Handler
<1>2. q.pc = "forgot" /\ q.op = "forgot" /\ q.target = u
  BY DEF Idle
<1>3. Go(w, q) /\ UNCHANGED users /\ Plain /\ requests[w] = Idle /\ Exists(u)
  BY DEF ForgotRead
<1> HIDE DEF q
<1>4. Shape(q) /\ Placed(q, users) /\ Forward(w, q)
  BY <1>2, <1>3 DEF Shape, Placed, Forward, Idle, Exists
<1> QED
  BY <1>1, <1>3, <1>4, PutKeeps

LEMMA CompleteFindKeeps ==
  ASSUME IInv, NEW w \in Requests, NEW u \in Users, NEW t \in Requests \cup Users,
         NEW p \in Passwords, CompleteFind(w, u, t, p)
  PROVE  IInv'
<1> DEFINE want == [Nothing EXCEPT !.pw = p]
           q == [Idle EXCEPT !.pc = "consume", !.op = "complete", !.target = u, !.token = t,
                             !.want = want]
<1>1. want \in Want /\ t \in Tokens
  BY IdleTyped DEF Want, Hashes, Tokens
<1>2. q \in Handler
  BY <1>1, IdleTyped DEF Idle, Handler, Want
<1>3. q.pc = "consume" /\ q.op = "complete" /\ q.target = u /\ q.token = t
  BY DEF Idle
<1>4. Go(w, q) /\ UNCHANGED users /\ Plain /\ requests[w] = Idle /\ Holds(u, t)
  BY DEF CompleteFind
<1> HIDE DEF q
<1>5. Shape(q) /\ Forward(w, q)
  BY <1>3, <1>4 DEF Shape, Forward, Idle
<1>6. Placed(q, users)
  <2>1. t # NoToken
    OBVIOUS
  <2> QED
    BY <1>3, <1>4, <2>1 DEF Placed, Holds, IInv, Fresh
<1> QED
  BY <1>2, <1>4, <1>5, <1>6, PutKeeps

LEMMA RecoverReadKeeps ==
  ASSUME IInv, NEW w \in Requests, NEW u \in Users, NEW p \in Passwords, RecoverRead(w, u, p)
  PROVE  IInv'
<1> DEFINE want == [Nothing EXCEPT !.pw = p]
           q == [Idle EXCEPT !.pc = "recover", !.op = "recover", !.target = u, !.want = want]
<1>1. want \in Want
  BY IdleTyped DEF Want, Hashes
<1>2. q \in Handler
  BY <1>1, IdleTyped DEF Idle, Handler, Want
<1>3. q.pc = "recover" /\ q.op = "recover" /\ q.target = u
  BY DEF Idle
<1>4. Go(w, q) /\ UNCHANGED users /\ Plain /\ requests[w] = Idle /\ users[u].role # "none"
  BY DEF RecoverRead
<1> HIDE DEF q
<1>5. Shape(q) /\ Placed(q, users) /\ Forward(w, q)
  BY <1>3, <1>4 DEF Shape, Placed, Forward, Idle
<1> QED
  BY <1>2, <1>4, <1>5, PutKeeps

LEMMA BootstrapKeeps ==
  ASSUME IInv, NEW w \in Requests, NEW u \in Users, NEW p \in Passwords, NEW o \in BOOLEAN,
         Bootstrap(w, u, p, o)
  PROVE  IInv'
<1> DEFINE row == NewRow("super_admin", NoInst, p)
<1>1. row \in Row /\ Locked(row) /\ row.reset = NoToken
  BY NewRowOK DEF Roles, Global, Insts, Hashes
<1>2. Go(w, Done) /\ Write(u, row) /\ Plain /\ ~Exists(u)
  BY DEF Bootstrap
<1> HIDE DEF row
<1>3. sessions' = sessions /\ sessions' \subseteq Session /\ UNCHANGED <<institutions, changes, born>>
  BY <1>2 DEF Plain, IInv, TypeOK
<1> QED
  BY <1>1, <1>2, <1>3, DoneFits, RowKeeps

LEMMA ArriveKeeps == ASSUME IInv, NEW w \in Requests, Arrive(w) PROVE IInv'
<1>1. \A active \in BOOLEAN : [Nothing EXCEPT !.active = active] \in Want
  BY DEF Nothing, Want, Insts, Hashes
<1>2. \A i \in Insts : [Nothing EXCEPT !.inst = i] \in Want
  BY DEF Nothing, Want, Hashes
<1>3. ASSUME NEW role \in AskedRoles, NEW i \in Insts
      PROVE  /\ [Nothing EXCEPT !.role = role, !.inst = i] \in Want
             /\ [Nothing EXCEPT !.role = role, !.inst = i].role \in Roles
  BY <1>3 DEF Nothing, Want, Hashes
<1>4. ASSUME NEW s \in sessions, NEW u \in Users,
             \/ \E active \in BOOLEAN :
                   ManageBegin(w, s, "status", u, [Nothing EXCEPT !.active = active])
             \/ \E role \in AskedRoles, i \in Insts :
                   ManageBegin(w, s, "role", u, [Nothing EXCEPT !.role = role, !.inst = i])
             \/ \E i \in Insts : ManageBegin(w, s, "assign", u, [Nothing EXCEPT !.inst = i])
             \/ \E op \in {"unlock", "require", "reset"} : ManageBegin(w, s, op, u, Nothing)
      PROVE  IInv'
  <2>1. ASSUME NEW active \in BOOLEAN,
               ManageBegin(w, s, "status", u, [Nothing EXCEPT !.active = active])
        PROVE  IInv'
    BY <1>1, <2>1, ManageBeginKeeps
  <2>2. ASSUME NEW role \in AskedRoles, NEW i \in Insts,
               ManageBegin(w, s, "role", u, [Nothing EXCEPT !.role = role, !.inst = i])
        PROVE  IInv'
    BY <1>3, <2>2, ManageBeginKeeps
  <2>3. ASSUME NEW i \in Insts, ManageBegin(w, s, "assign", u, [Nothing EXCEPT !.inst = i])
        PROVE  IInv'
    BY <1>2, <2>3, ManageBeginKeeps
  <2>4. ASSUME NEW op \in {"unlock", "require", "reset"}, ManageBegin(w, s, op, u, Nothing)
        PROVE  IInv'
    BY <2>4, IdleTyped, ManageBeginKeeps
  <2> QED
    BY <1>4, <2>1, <2>2, <2>3, <2>4
<1>5. ASSUME NEW s \in sessions, NEW u \in Users, NEW role \in AskedRoles, NEW i \in Insts,
             NEW active \in BOOLEAN, CreateBegin(w, s, u, role, i, active)
      PROVE  IInv'
  BY <1>5, CreateBeginKeeps
<1>6. ASSUME NEW s \in sessions, NEW p \in Passwords, NEW q \in Passwords, ChangeBegin(w, s, p, q)
      PROVE  IInv'
  BY <1>6, ChangeBeginKeeps
<1>7. ASSUME NEW u \in Users, ForgotRead(w, u) \/ \E p \in Passwords : LoginRead(w, u, p) \/ RecoverRead(w, u, p)
      PROVE  IInv'
  BY <1>7, ForgotReadKeeps, LoginReadKeeps, RecoverReadKeeps
<1>8. ASSUME NEW u \in Users, NEW p \in Passwords,
             \/ \E t \in Requests \cup Users : CompleteFind(w, u, t, p)
             \/ \E o \in BOOLEAN : Bootstrap(w, u, p, o)
      PROVE  IInv'
  BY <1>8, CompleteFindKeeps, BootstrapKeeps
<1> QED
  BY <1>4, <1>5, <1>6, <1>7, <1>8 DEF Arrive

-----------------------------------------------------------------------------
(* A handler reads.                                                        *)

LEMMA Handling ==
  ASSUME IInv, NEW w \in Requests
  PROVE  requests[w] \in Handler /\ Shape(requests[w]) /\ Placed(requests[w], users)
  BY DEF IInv, TypeOK

Redirect(r, pc, i) == [r EXCEPT !.pc = pc, !.want.inst = i]

LEMMA MovedInst ==
  ASSUME NEW r \in Handler, NEW pc \in Places, NEW i \in Insts
  PROVE  LET q == Redirect(r, pc, i) IN
         /\ q \in Handler /\ q.pc = pc /\ q.op = r.op /\ q.role = r.role /\ q.target = r.target
         /\ q.was = r.was /\ q.token = r.token /\ q.saw = r.saw
         /\ q.want.role = r.want.role /\ q.want.active = r.want.active
<1>1. r.want \in Want /\ [r.want EXCEPT !.inst = i] \in Want
  BY DEF Handler, Want
<1>2. r.want.role = [r.want EXCEPT !.inst = i].role /\ r.want.active = [r.want EXCEPT !.inst = i].active
  BY <1>1 DEF Want
<1>3. [r EXCEPT !.pc = pc, !.want = [r.want EXCEPT !.inst = i]] \in Handler
  BY <1>1 DEF Handler, Want, Places
<1> QED
  BY <1>2, <1>3 DEF Handler, Redirect

\* What a handler must know before it may write a status, a role or anything else.
Cleared(r) ==
    /\ r.target \in Users /\ r.op # "create"
    /\ r.op = "role" => r.want.role \in Roles /\ (r.want.role \notin Managed => r.role = "super_admin")
    /\ TakesSuper(r) => ~(Cardinality(r.saw) <= 1)
    /\ r.op # "change_password" /\ r.target \in r.saw => r.was.role = "super_admin"

LEMMA NextFits ==
  ASSUME NEW r \in Handler, Cleared(r), NEW us, us[r.target].role # "none",
         NEW pc \in {"institution", "update"}, NEW q, q \in Handler, q.pc = pc,
         q.op = r.op /\ q.role = r.role /\ q.target = r.target /\ q.was = r.was /\ q.saw = r.saw,
         q.want.role = r.want.role /\ q.want.active = r.want.active
  PROVE  Shape(q) /\ Placed(q, us) /\ \A w : requests[w].pc \notin {"done", "status"} => Forward(w, q)
<1>1. TakesSuper(q) <=> TakesSuper(r)
  BY DEF TakesSuper
<1> QED
  BY <1>1 DEF Cleared, Shape, Placed, Forward

LEMMA RoleNextFits ==
  ASSUME NEW r \in Handler, Cleared(r), NEW us, us[r.target].role # "none",
         NEW w, requests[w].pc \notin {"done", "status"}
  PROVE  LET q == RoleNext(r) IN q \in Handler /\ Shape(q) /\ Placed(q, us) /\ Forward(w, q)
<1> DEFINE i == IF r.role = "super_admin" /\ r.want.inst # NoInst THEN r.want.inst ELSE r.was.inst
<1>1. i \in Insts /\ NoInst \in Insts
  BY DEF Insts, Handler
<1> HIDE DEF i
<1>2. CASE r.want.role \in Global
  <2> DEFINE q == Redirect(r, "update", NoInst)
  <2>1. RoleNext(r) = q
    BY <1>2 DEF RoleNext, Redirect
  <2>2. "update" \in Places
    BY DEF Places
  <2>3. /\ q \in Handler /\ q.pc = "update" /\ q.op = r.op /\ q.role = r.role
        /\ q.target = r.target /\ q.was = r.was /\ q.saw = r.saw
        /\ q.want.role = r.want.role /\ q.want.active = r.want.active
    BY <1>1, <2>2, MovedInst
  <2> HIDE DEF q
  <2> QED
    BY <2>1, <2>3, NextFits
<1>3. CASE r.want.role \notin Global /\ i = NoInst
  <2>1. RoleNext(r) = Done
    BY <1>3 DEF RoleNext, i
  <2> QED
    BY <2>1, DoneFits
<1>4. CASE r.want.role \notin Global /\ i # NoInst
  <2> DEFINE q == Redirect(r, "institution", i)
  <2>1. RoleNext(r) = q
    BY <1>4 DEF RoleNext, Redirect, i
  <2>2. "institution" \in Places
    BY DEF Places
  <2>3. /\ q \in Handler /\ q.pc = "institution" /\ q.op = r.op /\ q.role = r.role
        /\ q.target = r.target /\ q.was = r.was /\ q.saw = r.saw
        /\ q.want.role = r.want.role /\ q.want.active = r.want.active
    BY <1>1, <2>2, MovedInst
  <2> HIDE DEF q
  <2> QED
    BY <2>1, <2>3, NextFits
<1> QED
  BY <1>2, <1>3, <1>4

LEMMA ReadTargetKeeps == ASSUME IInv, NEW w \in Requests, ReadTarget(w) PROVE IInv'
<1> DEFINE u == requests[w].target
           was == [Unread EXCEPT !.role = users[u].role, !.inst = users[u].inst]
           r == [requests[w] EXCEPT !.was = was, !.saw = ActiveSupers]
<1>1. requests[w].pc = "target" /\ requests[w] \in Handler /\ Shape(requests[w])
  BY Handling DEF ReadTarget
<1>2. u \in Users /\ users[u] \in Row
  BY <1>1 DEF Shape, IInv, TypeOK
<1>3. was \in Was /\ was.role = users[u].role
  BY <1>2, IdleTyped DEF Was, Row, Unread
<1>4. ActiveSupers \in SUBSET Users
  BY DEF ActiveSupers
<1> HIDE DEF was
<1>5. /\ r \in Handler /\ r.pc = "target" /\ r.op = requests[w].op /\ r.role = requests[w].role
      /\ r.target = u /\ r.was = was /\ r.want = requests[w].want /\ r.saw = ActiveSupers
  BY <1>1, <1>3, <1>4 DEF Handler, Was
<1>6. /\ Go(w, IF ~Exists(u) \/ ~Permitted(r) THEN Done
               ELSE IF TakesSuper(r) THEN [r EXCEPT !.pc = "count"]
               ELSE IF r.op = "role" THEN RoleNext(r)
               ELSE [r EXCEPT !.pc = IF r.op = "assign" THEN "institution" ELSE "update"])
      /\ UNCHANGED users /\ Plain
  BY DEF ReadTarget, was
<1> HIDE DEF r, u
<1>7. u \in r.saw => r.was.role = "super_admin"
  BY <1>3, <1>5 DEF ActiveSupers
<1>8. requests[w].pc \notin {"done", "status"}
  BY <1>1
<1>9. CASE ~Exists(u) \/ ~Permitted(r)
  BY <1>6, <1>9, DoneFits, PutKeeps
<1>10. CASE Exists(u) /\ Permitted(r) /\ TakesSuper(r)
  <2> DEFINE q == [r EXCEPT !.pc = "count"]
  <2>1. /\ q \in Handler /\ q.pc = "count" /\ q.op = r.op /\ q.role = r.role /\ q.target = u
        /\ q.was = r.was /\ q.want = r.want /\ q.saw = r.saw
    BY <1>5, Moved DEF Places
  <2>2. Go(w, q)
    BY <1>6, <1>10
  <2> HIDE DEF q
  <2>3. TakesSuper(q)
    BY <1>10, <2>1 DEF TakesSuper
  <2>4. q.op \in {"status", "role"} /\ (q.op = "role" => q.want.role \in Roles)
        /\ (q.op = "role" /\ q.want.role \notin Managed => q.role = "super_admin")
    BY <1>1, <1>5, <1>10, <2>1, <2>3 DEF Shape, Permitted, TakesSuper
  <2>5. Shape(q)
    BY <1>2, <2>1, <2>3, <2>4 DEF Shape
  <2>6. Placed(q, users) /\ Forward(w, q)
    BY <1>8, <1>10, <2>1 DEF Placed, Forward, Exists
  <2> QED
    BY <1>6, <2>1, <2>2, <2>5, <2>6, PutKeeps
<1>11. CASE Exists(u) /\ Permitted(r) /\ ~TakesSuper(r)
  <2>1. Cleared(r) /\ users[r.target].role # "none"
    BY <1>1, <1>2, <1>5, <1>7, <1>11 DEF Cleared, Shape, Permitted, Exists
  <2>2. CASE r.op = "role"
    <3>1. Go(w, RoleNext(r))
      BY <1>6, <1>11, <2>2
    <3> QED
      BY <1>5, <1>6, <1>8, <2>1, <3>1, RoleNextFits, PutKeeps
  <2>3. CASE r.op # "role"
    <3> DEFINE pc == IF r.op = "assign" THEN "institution" ELSE "update"
               q == [r EXCEPT !.pc = pc]
    <3>1. Go(w, q)
      BY <1>6, <1>11, <2>3
    <3>2. pc \in {"institution", "update"} /\ pc \in Places
      BY DEF Places
    <3> HIDE DEF pc
    <3>3. /\ q \in Handler /\ q.pc = pc /\ q.op = r.op /\ q.role = r.role /\ q.target = r.target
          /\ q.was = r.was /\ q.want = r.want /\ q.saw = r.saw
      BY <1>5, <3>2, Moved
    <3> HIDE DEF q
    <3>4. Shape(q) /\ Placed(q, users) /\ Forward(w, q)
      BY <1>5, <1>8, <2>1, <3>2, <3>3, NextFits
    <3> QED
      BY <1>6, <3>1, <3>3, <3>4, PutKeeps
  <2> QED
    BY <2>2, <2>3
<1> QED
  BY <1>9, <1>10, <1>11

LEMMA CountSupersKeeps == ASSUME IInv, NEW w \in Requests, CountSupers(w) PROVE IInv'
<1> DEFINE r == [requests[w] EXCEPT !.saw = ActiveSupers]
<1>1. requests[w].pc = "count" /\ requests[w] \in Handler /\ Shape(requests[w])
      /\ Placed(requests[w], users)
  BY Handling DEF CountSupers
<1>2. ActiveSupers \in SUBSET Users
  BY DEF ActiveSupers
<1>3. /\ r \in Handler /\ r.op = requests[w].op /\ r.role = requests[w].role
      /\ r.target = requests[w].target /\ r.was = requests[w].was /\ r.want = requests[w].want
      /\ r.saw = ActiveSupers
  BY <1>1, <1>2 DEF Handler
<1>4. /\ Go(w, IF Cardinality(ActiveSupers) <= 1 THEN Done
               ELSE IF r.op = "role" THEN RoleNext(r) ELSE [r EXCEPT !.pc = "update"])
      /\ UNCHANGED users /\ Plain
  BY DEF CountSupers
<1> HIDE DEF r
<1>5. requests[w].pc \notin {"done", "status"} /\ r.was.role = "super_admin"
      /\ users[r.target].role # "none"
  BY <1>1, <1>3 DEF Shape, TakesSuper, Placed
<1>6. CASE Cardinality(ActiveSupers) <= 1
  BY <1>4, <1>6, DoneFits, PutKeeps
<1>7. CASE ~(Cardinality(ActiveSupers) <= 1)
  <2>1. Cleared(r)
    BY <1>1, <1>3, <1>5, <1>7 DEF Cleared, Shape
  <2>2. CASE r.op = "role"
    BY <1>3, <1>4, <1>5, <1>7, <2>1, <2>2, RoleNextFits, PutKeeps
  <2>3. CASE r.op # "role"
    <3> DEFINE q == [r EXCEPT !.pc = "update"]
    <3>1. Go(w, q)
      BY <1>4, <1>7, <2>3
    <3>2. /\ q \in Handler /\ q.pc = "update" /\ q.op = r.op /\ q.role = r.role
          /\ q.target = r.target /\ q.was = r.was /\ q.want = r.want /\ q.saw = r.saw
      BY <1>3, Moved DEF Places
    <3> HIDE DEF q
    <3>3. Shape(q) /\ Placed(q, users) /\ Forward(w, q)
      BY <1>3, <1>5, <2>1, <3>2, NextFits
    <3> QED
      BY <1>4, <3>1, <3>2, <3>3, PutKeeps
  <2> QED
    BY <2>2, <2>3
<1> QED
  BY <1>6, <1>7

LEMMA CheckInstitutionKeeps == ASSUME IInv, NEW w \in Requests, CheckInstitution(w) PROVE IInv'
<1> DEFINE r == requests[w]
           pc == IF r.op = "create" THEN "email" ELSE "update"
           q == [r EXCEPT !.pc = pc]
<1>1. r.pc = "institution" /\ r \in Handler /\ Shape(r) /\ Placed(r, users)
  BY Handling DEF CheckInstitution
<1>2. Go(w, IF ~institutions[r.want.inst] THEN Done ELSE q) /\ UNCHANGED users /\ Plain
  BY DEF CheckInstitution
<1>3. pc \in Places /\ pc = (IF r.op = "create" THEN "email" ELSE "update")
  BY DEF Places
<1> HIDE DEF pc
<1>4. /\ q \in Handler /\ q.pc = pc /\ q.op = r.op /\ q.role = r.role /\ q.target = r.target
      /\ q.was = r.was /\ q.want = r.want /\ q.saw = r.saw
  BY <1>1, <1>3, Moved
<1> HIDE DEF q
<1>5. TakesSuper(q) <=> TakesSuper(r)
  BY <1>4 DEF TakesSuper
<1>6. Shape(q)
  BY <1>1, <1>3, <1>4, <1>5 DEF Shape
<1>7. Placed(q, users) /\ Forward(w, q)
  BY <1>1, <1>3, <1>4 DEF Placed, Forward
<1>8. CASE ~institutions[r.want.inst]
  BY <1>2, <1>8, DoneFits, PutKeeps
<1>9. CASE ~~institutions[r.want.inst]
  BY <1>2, <1>4, <1>6, <1>7, <1>9, PutKeeps
<1> QED
  BY <1>8, <1>9

-----------------------------------------------------------------------------
(* A handler writes.                                                       *)

\* The account a handler writes to, where it does.
LEMMA Target ==
  ASSUME IInv, NEW w \in Requests,
         requests[w].pc \in {"setup", "status", "update", "compare", "forgot", "consume", "recover"}
  PROVE  /\ requests[w].target \in Users /\ users[requests[w].target] \in Row
         /\ Locked(users[requests[w].target]) /\ users[requests[w].target].role # "none"
         /\ Exists(requests[w].target)
<1>1. Shape(requests[w]) /\ Placed(requests[w], users)
  BY Handling
<1>2. requests[w].target \in Users
  BY <1>1 DEF Shape
<1> QED
  BY <1>1, <1>2 DEF Placed, IInv, TypeOK, FailuresLock, Locked, Exists

LEMMA LoginRejectKeeps == ASSUME IInv, NEW w \in Requests, LoginReject(w) PROVE IInv'
  BY Target, FailureSound, WriteKeeps DEF LoginReject

LEMMA LoginAcceptKeeps == ASSUME IInv, NEW w \in Requests, LoginAccept(w) PROVE IInv'
<1> DEFINE r == requests[w]
           row == LoginSuccess(users[r.target])
           n == [user |-> r.target, ver |-> r.was.ver, role |-> r.was.role,
                 inst |-> r.was.inst, pw |-> r.was.pw]
<1>1. /\ r.pc = "compare" /\ Write(r.target, row) /\ sessions' = sessions \cup {n}
      /\ Go(w, Done) /\ UNCHANGED <<institutions, changes, born>>
  BY DEF LoginAccept
<1>2. r.target \in Users /\ users[r.target] \in Row /\ users[r.target].role # "none"
  BY <1>1, Target
<1>3. Sound(users[r.target], row) /\ row.reset = users[r.target].reset
  BY <1>2, UnlockSound
<1>4. Placed(r, users) /\ r \in Handler
  BY Handling
<1>5. n \in Session
  BY <1>1, <1>2, <1>4 DEF Placed, Session, Handler
<1>6. users' = [users EXCEPT ![r.target] = row] /\ users \in [Users -> Row] /\ row \in Row /\ Locked(row)
  BY <1>1, <1>3 DEF Write, IInv, TypeOK, Sound
<1>7. users'[r.target] = row /\ row.role = users[r.target].role /\ row.ver = users[r.target].ver
      /\ row.active = users[r.target].active /\ row.inst = users[r.target].inst
      /\ row.pw = users[r.target].pw
  BY <1>2, <1>6 DEF LoginSuccess, Row
<1>8. SessionOK(n, users')
  BY <1>1, <1>2, <1>4, <1>7 DEF SessionOK, Placed
<1> HIDE DEF n, row
<1>9. sessions' \subseteq Session /\ \A s \in sessions' \ sessions : SessionOK(s, users')
  BY <1>1, <1>5, <1>8 DEF IInv, TypeOK
<1>10. Go(w, Done) /\ Write(r.target, row) /\ UNCHANGED <<institutions, changes, born>>
  BY <1>1
<1> HIDE DEF r
<1> QED
  BY <1>2, <1>3, <1>6, <1>9, <1>10, DoneFits, RowKeeps

LEMMA CreateEmailKeeps == ASSUME IInv, NEW w \in Requests, CreateEmail(w) PROVE IInv'
<1> DEFINE q == [requests[w] EXCEPT !.pc = "insert"]
<1>1. requests[w].pc = "email" /\ requests[w] \in Handler /\ Shape(requests[w])
  BY Handling DEF CreateEmail
<1>2. Go(w, IF Exists(requests[w].target) THEN Done ELSE q) /\ UNCHANGED users /\ Plain
  BY DEF CreateEmail
<1>3. /\ q \in Handler /\ q.pc = "insert" /\ q.op = requests[w].op /\ q.role = requests[w].role
      /\ q.target = requests[w].target /\ q.want = requests[w].want
  BY <1>1, Moved DEF Places
<1> HIDE DEF q
<1>4. Shape(q) /\ Placed(q, users) /\ Forward(w, q)
  BY <1>1, <1>3 DEF Shape, Placed, Forward
<1>5. CASE Exists(requests[w].target)
  BY <1>2, <1>5, DoneFits, PutKeeps
<1>6. CASE ~Exists(requests[w].target)
  BY <1>2, <1>3, <1>4, <1>6, PutKeeps
<1> QED
  BY <1>5, <1>6

LEMMA CreateInsertKeeps == ASSUME IInv, NEW w \in Requests, CreateInsert(w) PROVE IInv'
<1> DEFINE r == requests[w]
           q == [r EXCEPT !.pc = "setup"]
           row == NewRow(r.want.role, r.want.inst, Random)
<1>1. r.pc = "insert" /\ r \in Handler /\ Shape(r) /\ Plain
  BY Handling DEF CreateInsert
<1>2. CASE Exists(r.target)
  <2>1. Go(w, Done) /\ UNCHANGED users
    BY <1>2 DEF CreateInsert
  <2> QED
    BY <1>1, <2>1, DoneFits, PutKeeps
<1>3. CASE ~Exists(r.target)
  <2>1. Go(w, q) /\ Write(r.target, row)
    BY <1>3 DEF CreateInsert
  <2>2. r.target \in Users /\ r.want.role \in Roles /\ r.want.inst \in Insts
    BY <1>1 DEF Shape, Handler
  <2>3. row \in Row /\ Locked(row) /\ row.reset = NoToken /\ row.role = r.want.role
    BY <2>2, NewRowOK DEF Hashes
  <2> HIDE DEF row
  <2>4. /\ q \in Handler /\ q.pc = "setup" /\ q.op = r.op /\ q.role = r.role
        /\ q.target = r.target /\ q.want = r.want
    BY <1>1, Moved DEF Places
  <2> HIDE DEF q
  <2>5. Shape(q) /\ Forward(w, q)
    BY <1>1, <2>4 DEF Shape, Forward
  <2>6. users'[r.target] = row /\ row.role # "none"
    BY <2>1, <2>2, <2>3 DEF Write, IInv, TypeOK, Roles, Global, Managed
  <2>7. Placed(q, users')
    BY <2>4, <2>6 DEF Placed
  <2>8. /\ UNCHANGED <<institutions, changes, born>> /\ sessions' = sessions
        /\ sessions' \subseteq Session
    BY <1>1 DEF Plain, IInv, TypeOK
  <2> HIDE DEF r
  <2> QED
    BY <1>3, <2>1, <2>2, <2>3, <2>4, <2>5, <2>7, <2>8, RowKeeps
<1> QED
  BY <1>2, <1>3

LEMMA CreateSetupKeeps == ASSUME IInv, NEW w \in Requests, CreateSetup(w) PROVE IInv'
<1> DEFINE r == requests[w]
           row == SetReset(users[r.target], w)
           q == IF r.want.active THEN Done ELSE [r EXCEPT !.pc = "status"]
<1>1. r.pc = "setup" /\ r \in Handler /\ Shape(r)
  BY Handling DEF CreateSetup
<1>2. /\ Go(w, q) /\ Write(r.target, row) /\ born' = [born EXCEPT ![w] = changes[r.target]]
      /\ UNCHANGED <<institutions, sessions, changes>>
  BY DEF CreateSetup
<1>3. r.target \in Users /\ Sound(users[r.target], row) /\ row.reset = w
  BY <1>1, Target, ResetSound DEF Tokens
<1>4. users'[r.target] = row /\ row.role # "none"
  BY <1>2, <1>3 DEF Write, IInv, TypeOK, Sound
<1>5. q \in Handler /\ Shape(q) /\ Placed(q, users') /\ q.pc \in {"done", "status"}
  <2>1. CASE r.want.active
    BY <2>1, DoneFits DEF Done, Idle
  <2>2. CASE ~r.want.active
    <3> DEFINE p == [r EXCEPT !.pc = "status"]
    <3>1. q = p
      BY <2>2
    <3>2. /\ p \in Handler /\ p.pc = "status" /\ p.op = r.op /\ p.role = r.role
          /\ p.target = r.target /\ p.want = r.want
      BY <1>1, Moved DEF Places
    <3> HIDE DEF p, q
    <3> QED
      BY <1>1, <1>4, <3>1, <3>2 DEF Shape, Placed
  <2> QED
    BY <2>1, <2>2
<1> HIDE DEF q, row
<1> QED
  BY <1>1, <1>2, <1>3, <1>5, TokenKeeps

LEMMA CreateStatusKeeps == ASSUME IInv, NEW w \in Requests, CreateStatus(w) PROVE IInv'
  BY Target, StatusSound, WriteKeeps DEF CreateStatus

LEMMA ChangeStatusKeeps == ASSUME IInv, NEW w \in Requests, ChangeStatus(w) PROVE IInv'
<1>1. requests[w].want.active \in BOOLEAN
  BY Handling DEF Handler
<1> QED
  BY <1>1, Target, StatusSound, WriteKeeps DEF ChangeStatus, Updating

LEMMA ChangeRoleKeeps == ASSUME IInv, NEW w \in Requests, ChangeRole(w) PROVE IInv'
<1>1. requests[w].want.role \in Roles /\ requests[w].want.inst \in Insts
  BY Handling DEF Handler, Shape, ChangeRole, Updating
<1> QED
  BY <1>1, Target, RoleSound, WriteKeeps DEF ChangeRole, Updating

LEMMA AssignInstitutionKeeps == ASSUME IInv, NEW w \in Requests, AssignInstitution(w) PROVE IInv'
<1>1. requests[w].want.inst \in Insts
  BY Handling DEF Handler
<1> QED
  BY <1>1, Target, InstitutionSound, WriteKeeps DEF AssignInstitution, Updating

LEMMA UnlockAccountKeeps == ASSUME IInv, NEW w \in Requests, UnlockAccount(w) PROVE IInv'
  BY Target, UnlockSound, WriteKeeps DEF UnlockAccount, Updating

LEMMA RequirePasswordChangeKeeps ==
  ASSUME IInv, NEW w \in Requests, RequirePasswordChange(w) PROVE IInv'
  BY Target, RequireSound, WriteKeeps DEF RequirePasswordChange, Updating

LEMMA ResetPasswordKeeps == ASSUME IInv, NEW w \in Requests, ResetPassword(w) PROVE IInv'
<1> DEFINE u == requests[w].target
           row == SetReset(users[u], w)
<1>1. /\ requests[w].pc = "update" /\ Go(w, Done) /\ Write(u, row)
      /\ born' = [born EXCEPT ![w] = changes[u]] /\ UNCHANGED <<institutions, sessions, changes>>
  BY DEF ResetPassword, Updating
<1>2. u \in Users /\ Sound(users[u], row) /\ row.reset = w
  BY <1>1, Target, ResetSound DEF Tokens
<1>3. Done \in Handler /\ Shape(Done) /\ Placed(Done, users') /\ Done.pc = "done"
  BY DoneFits DEF Done, Idle
<1> HIDE DEF u, row
<1> QED
  BY <1>1, <1>2, <1>3, TokenKeeps

LEMMA ForgotSetKeeps == ASSUME IInv, NEW w \in Requests, ForgotSet(w) PROVE IInv'
<1> DEFINE u == requests[w].target
           row == SetRecovery(users[u], w)
<1>1. /\ requests[w].pc = "forgot" /\ Go(w, Done) /\ Write(u, row)
      /\ born' = [born EXCEPT ![w] = changes[u]] /\ UNCHANGED <<institutions, sessions, changes>>
  BY DEF ForgotSet
<1>2. u \in Users /\ Sound(users[u], row) /\ row.reset = w
  BY <1>1, Target, ResetSound DEF Tokens
<1>3. Done \in Handler /\ Shape(Done) /\ Placed(Done, users') /\ Done.pc = "done"
  BY DoneFits DEF Done, Idle
<1> HIDE DEF u, row
<1> QED
  BY <1>1, <1>2, <1>3, TokenKeeps

LEMMA ChangePasswordKeeps == ASSUME IInv, NEW w \in Requests, ChangePassword(w) PROVE IInv'
<1>1. requests[w].want.pw \in Hashes
  BY Handling DEF Handler
<1> QED
  BY <1>1, Target, PasswordSound, PasswordKeeps DEF ChangePassword, Updating

LEMMA RecoverUpdateKeeps == ASSUME IInv, NEW w \in Requests, RecoverUpdate(w) PROVE IInv'
<1>1. requests[w].want.pw \in Hashes
  BY Handling DEF Handler
<1> QED
  BY <1>1, Target, PasswordSound, PasswordKeeps DEF RecoverUpdate

LEMMA CompleteConsumeKeeps == ASSUME IInv, NEW w \in Requests, CompleteConsume(w) PROVE IInv'
<1>1. requests[w].want.pw \in Hashes /\ requests[w].pc = "consume" /\ Go(w, Done)
  BY Handling DEF Handler, CompleteConsume
<1>2. CASE Holds(requests[w].target, requests[w].token)
  BY <1>1, <1>2, Target, PasswordSound, PasswordKeeps DEF CompleteConsume
<1>3. CASE ~Holds(requests[w].target, requests[w].token)
  BY <1>1, <1>3, DoneFits, PutKeeps DEF CompleteConsume
<1> QED
  BY <1>2, <1>3

LEMMA StepKeeps == ASSUME IInv, NEW w \in Requests, Step(w) PROVE IInv'
<1>1. ASSUME Abort(w) PROVE IInv'
  BY <1>1, DoneFits, PutKeeps DEF Abort
<1> QED
  BY <1>1, LoginRejectKeeps, LoginAcceptKeeps, CreateEmailKeeps, CreateInsertKeeps, CreateSetupKeeps,
     CreateStatusKeeps, ReadTargetKeeps, CountSupersKeeps, CheckInstitutionKeeps, ChangeStatusKeeps,
     ChangeRoleKeeps, AssignInstitutionKeeps, UnlockAccountKeeps, RequirePasswordChangeKeeps,
     ResetPasswordKeeps, ChangePasswordKeeps, ForgotSetKeeps, CompleteConsumeKeeps,
     RecoverUpdateKeeps DEF Step

-----------------------------------------------------------------------------
(* Time and institutions.                                                  *)

LEMMA TimeKeeps == ASSUME IInv, NEW u \in Users, LockEnds(u) \/ ResetExpires(u) PROVE IInv'
<1> DEFINE row == IF LockEnds(u) THEN [users[u] EXCEPT !.lock = "past"]
                  ELSE [users[u] EXCEPT !.timely = FALSE]
<1>1. users[u] \in Row /\ users \in [Users -> Row] /\ Locked(users[u])
  BY DEF IInv, TypeOK, FailuresLock, Locked
<1>2. /\ row \in Row /\ row.reset = users[u].reset /\ Locked(row)
      /\ Upheld(users[u], row) /\ row.role = users[u].role
  <2>1. CASE LockEnds(u)
    BY <1>1, <2>1 DEF Row, Locked, Upheld
  <2>2. CASE ~LockEnds(u)
    BY <1>1, <2>2 DEF Row, Locked, Upheld
  <2> QED
    BY <2>1, <2>2
<1>3. users' = [users EXCEPT ![u] = row] /\ UNCHANGED <<requests, institutions, sessions, changes, born>>
  BY DEF LockEnds, ResetExpires, Write, Plain
<1> HIDE DEF row
<1>4. users' \in [Users -> Row] /\ Grows(users, users')
  BY <1>1, <1>2, <1>3 DEF Grows, Upheld
<1>5. TypeOK' /\ FailuresLock'
  BY <1>1, <1>2, <1>3, <1>4 DEF IInv, TypeOK, FailuresLock, Locked
<1>6. \A s \in sessions' : SessionOK(s, users')
  BY <1>1, <1>3, <1>4, SessionKept DEF IInv, TypeOK
<1>7. \A w \in Requests : Shape(requests'[w]) /\ Placed(requests'[w], users')
  <2>1. ASSUME NEW w \in Requests PROVE Placed(requests[w], users')
    BY <1>1, <1>4, PlacedKept, Handling
  <2> QED
    BY <1>3, <2>1 DEF IInv
<1>8. Fresh' /\ Unset'
  BY <1>1, <1>2, <1>3 DEF IInv, Fresh, Unset
<1> QED
  BY <1>5, <1>6, <1>7, <1>8 DEF IInv

LEMMA ToggleKeeps == ASSUME IInv, NEW i \in Institutions, ToggleInstitution(i) PROVE IInv'
  BY DEF ToggleInstitution, IInv, TypeOK, FailuresLock, Fresh, Unset

LEMMA IdleKeeps == ASSUME IInv, UNCHANGED vars PROVE IInv'
  BY DEF vars, IInv, TypeOK, FailuresLock, Fresh, Unset

LEMMA InitHolds == Init => IInv
<1> SUFFICES ASSUME Init PROVE IInv
  OBVIOUS
<1>1. PICK pw \in Passwords :
        /\ users \in [Users -> {Absent} \cup {NewRow("super_admin", NoInst, pw)} \cup
                        {NewRow(r, i, pw) : r \in {"institution_admin", "issuer"}, i \in Institutions}
                        \cup UNION {{SetReset(NewRow("institution_admin", i, Random), u) :
                                      i \in Institutions} : u \in Users}]
        /\ \A u \in Users : users[u].reset \in {NoToken, u}
  BY DEF Init
<1>2. ASSUME NEW u \in Users
      PROVE  /\ users[u] \in Row /\ Locked(users[u])
             /\ users[u].reset # NoToken => users[u].role # "none"
             /\ users[u].role # "none" /\ users[u].pw # Random => users[u].active /\ users[u].ver = 0
  <2>1. CASE users[u] = Absent
    BY <2>1, NewRowOK DEF Absent, Insts, Hashes
  <2>2. CASE users[u] = NewRow("super_admin", NoInst, pw)
    BY <2>2, NewRowOK DEF Insts, Hashes, Roles, Global
  <2>3. ASSUME NEW r \in {"institution_admin", "issuer"}, NEW i \in Institutions,
               users[u] = NewRow(r, i, pw)
        PROVE  /\ users[u] \in Row /\ Locked(users[u]) /\ users[u].role # "none"
               /\ users[u].active /\ users[u].ver = 0
    BY <2>3, NewRowOK DEF Insts, Hashes, Roles, Managed
  <2>4. ASSUME NEW i \in Institutions, NEW v \in Users,
               users[u] = SetReset(NewRow("institution_admin", i, Random), v)
        PROVE  users[u] \in Row /\ Locked(users[u]) /\ users[u].role # "none" /\ users[u].pw = Random
    <3> DEFINE new == NewRow("institution_admin", i, Random)
    <3>1. new \in Row /\ Locked(new) /\ new.role = "institution_admin" /\ new.pw = Random
      BY NewRowOK DEF Insts, Hashes, Roles
    <3> HIDE DEF new
    <3>2. Sound(new, SetReset(new, v)) /\ SetReset(new, v).pw = Random
      BY <3>1, ResetSound DEF Tokens, SetReset, Row
    <3> QED
      BY <2>4, <3>2 DEF Sound, new
  <2> QED
    BY <1>1, <2>1, <2>2, <2>3, <2>4
<1>3. users \in [Users -> Row]
  BY <1>1, <1>2
<1>4. requests = [w \in Requests |-> Idle] /\ Idle \in Handler /\ Shape(Idle) /\ Placed(Idle, users)
  BY IdleTyped DEF Init, Shape, Placed, Idle
<1>5. ASSUME NEW s \in sessions PROVE s \in Session /\ SessionOK(s, users)
  <2>1. PICK u \in Users : /\ Exists(u) /\ users[u].pw # Random
                           /\ s = [user |-> u, ver |-> 0, role |-> users[u].role,
                                   inst |-> users[u].inst, pw |-> users[u].pw]
    BY DEF Init
  <2>2. users[u].role \in Roles /\ users[u] \in Row
    BY <1>2, <2>1 DEF Exists, Row
  <2>3. s \in Session
    BY <2>1, <2>2 DEF Session, Row
  <2> QED
    BY <1>2, <2>1, <2>2, <2>3 DEF SessionOK, Exists
<1>6. TypeOK
  BY <1>3, <1>4, <1>5 DEF Init, TypeOK
<1>7. FailuresLock
  BY <1>2 DEF FailuresLock, Locked
<1>8. Fresh /\ Unset
  <2>1. changes = [u \in Users |-> 0] /\ born = [t \in Tokens |-> 0]
    BY DEF Init
  <2> QED
    BY <1>1, <1>2, <2>1 DEF Fresh, Unset, Tokens
<1> QED
  BY <1>4, <1>5, <1>6, <1>7, <1>8 DEF IInv

\* The invariant is inductive.
THEOREM IInvHolds == Spec => []IInv
<1>1. IInv /\ [Next]_vars => IInv'
  BY ArriveKeeps, StepKeeps, TimeKeeps, ToggleKeeps, IdleKeeps DEF Next
<1> QED
  BY <1>1, InitHolds, PTL DEF Spec

\* Types, of the model: what TLC checks as an invariant.
THEOREM TypeCorrect == Spec => []TypeOK
<1>1. IInv => TypeOK
  BY DEF IInv
<1> QED
  BY <1>1, IInvHolds, PTL

\* A session that passes the version check tells the truth (authMiddleware.js:62).
THEOREM SessionsAreTruthful == Spec => []LiveSessionsTellTheTruth
<1>1. IInv => LiveSessionsTellTheTruth
  BY DEF IInv, LiveSessionsTellTheTruth, SessionOK, Live
<1> QED
  BY <1>1, IInvHolds, PTL

\* Too many failures are never merely counted (userModel.js:98).
THEOREM FailuresAlwaysLock == Spec => []FailuresLock
<1>1. IInv => FailuresLock
  BY DEF IInv
<1> QED
  BY <1>1, IInvHolds, PTL

-----------------------------------------------------------------------------
(* What a step may never do.                                               *)

\* Every role and every activation is left as it was.
StandingKept == \A u \in Users : Standing(users[u], users'[u])

LEMMA WriteStands ==
  ASSUME IInv, NEW u \in Users, NEW row, Write(u, row), Standing(users[u], row)
  PROVE  StandingKept
  BY DEF StandingKept, Standing, Write, IInv, TypeOK

\* Most steps set no password and leave roles and activations alone.
LEMMA Kinds ==
  ASSUME IInv, NEW w \in Requests, Arrive(w) \/ Step(w)
  PROVE  \/ StandingKept /\ changes' = changes
         \/ StandingKept /\ (ChangePassword(w) \/ CompleteConsume(w) \/ RecoverUpdate(w))
         \/ changes' = changes /\ \/ CreateInsert(w) \/ CreateStatus(w) \/ ChangeStatus(w) \/ ChangeRole(w)
                                  \/ \E u \in Users, p \in Passwords, o \in BOOLEAN : Bootstrap(w, u, p, o)
<1>1. ASSUME UNCHANGED users, Plain PROVE StandingKept /\ changes' = changes
  BY <1>1 DEF StandingKept, Standing, Plain
<1>2. ASSUME Arrive(w), ~\E u \in Users, p \in Passwords, o \in BOOLEAN : Bootstrap(w, u, p, o)
      PROVE  UNCHANGED users /\ Plain
  <2>1. ASSUME NEW s \in sessions, NEW u \in Users, NEW op, NEW want, ManageBegin(w, s, op, u, want)
        PROVE  UNCHANGED users /\ Plain
    BY <2>1 DEF ManageBegin
  <2>2. ASSUME NEW s \in sessions, NEW u \in Users, NEW role \in AskedRoles, NEW i \in Insts,
               NEW active \in BOOLEAN, CreateBegin(w, s, u, role, i, active)
        PROVE  UNCHANGED users /\ Plain
    BY <2>2 DEF CreateBegin
  <2>3. ASSUME NEW s \in sessions, NEW u \in Users,
               \/ \E active \in BOOLEAN :
                     ManageBegin(w, s, "status", u, [Nothing EXCEPT !.active = active])
               \/ \E role \in AskedRoles, i \in Insts :
                     ManageBegin(w, s, "role", u, [Nothing EXCEPT !.role = role, !.inst = i])
               \/ \E i \in Insts : ManageBegin(w, s, "assign", u, [Nothing EXCEPT !.inst = i])
               \/ \E op \in {"unlock", "require", "reset"} : ManageBegin(w, s, op, u, Nothing)
        PROVE  UNCHANGED users /\ Plain
    BY <2>1, <2>3
  <2>4. ASSUME NEW s \in sessions, NEW p \in Passwords, NEW q \in Passwords, ChangeBegin(w, s, p, q)
        PROVE  UNCHANGED users /\ Plain
    BY <2>4 DEF ChangeBegin
  <2>5. ASSUME NEW u \in Users, ForgotRead(w, u) \/ \E p \in Passwords : LoginRead(w, u, p) \/ RecoverRead(w, u, p)
        PROVE  UNCHANGED users /\ Plain
    BY <2>5 DEF ForgotRead, LoginRead, RecoverRead
  <2>6. ASSUME NEW u \in Users, NEW p \in Passwords, NEW t \in Requests \cup Users, CompleteFind(w, u, t, p)
        PROVE  UNCHANGED users /\ Plain
    BY <2>6 DEF CompleteFind
  <2> QED
    BY <1>2, <2>2, <2>3, <2>4, <2>5, <2>6 DEF Arrive
<1>3. ASSUME Arrive(w), NEW u \in Users, NEW p \in Passwords, NEW o \in BOOLEAN, Bootstrap(w, u, p, o)
      PROVE  changes' = changes
  BY <1>3 DEF Bootstrap, Plain
<1>4. CASE CreateEmail(w) \/ ReadTarget(w) \/ CountSupers(w) \/ CheckInstitution(w) \/ Abort(w)
  BY <1>1, <1>4 DEF CreateEmail, ReadTarget, CountSupers, CheckInstitution, Abort
<1>5. CASE LoginReject(w)
  BY <1>5, Target, FailureSound, WriteStands DEF LoginReject, Plain
<1>6. CASE LoginAccept(w)
  BY <1>6, Target, UnlockSound, WriteStands DEF LoginAccept
<1>7. CASE CreateSetup(w)
  BY <1>7, Target, ResetSound, WriteStands DEF CreateSetup, Tokens
<1>8. CASE ResetPassword(w)
  BY <1>8, Target, ResetSound, WriteStands DEF ResetPassword, Updating, Tokens
<1>9. CASE ForgotSet(w)
  BY <1>9, Target, ResetSound, WriteStands DEF ForgotSet, Tokens
<1>10. CASE AssignInstitution(w)
  <2>1. requests[w].want.inst \in Insts
    BY Handling DEF Handler
  <2> QED
    BY <1>10, <2>1, Target, InstitutionSound, WriteStands DEF AssignInstitution, Updating, Plain
<1>11. CASE UnlockAccount(w)
  BY <1>11, Target, UnlockSound, WriteStands DEF UnlockAccount, Updating, Plain
<1>12. CASE RequirePasswordChange(w)
  BY <1>12, Target, RequireSound, WriteStands DEF RequirePasswordChange, Updating, Plain
<1>13. requests[w].want.pw \in Hashes
  BY Handling DEF Handler
<1>14. CASE ChangePassword(w)
  BY <1>13, <1>14, Target, PasswordSound, WriteStands DEF ChangePassword, Updating
<1>15. CASE RecoverUpdate(w)
  BY <1>13, <1>15, Target, PasswordSound, WriteStands DEF RecoverUpdate
<1>16. CASE CompleteConsume(w)
  <2>1. CASE Holds(requests[w].target, requests[w].token)
    BY <1>13, <1>16, <2>1, Target, PasswordSound, WriteStands DEF CompleteConsume
  <2>2. CASE ~Holds(requests[w].target, requests[w].token)
    BY <1>1, <1>16, <2>2 DEF CompleteConsume
  <2> QED
    BY <2>1, <2>2
<1>17. CASE CreateInsert(w) \/ CreateStatus(w) \/ ChangeStatus(w) \/ ChangeRole(w)
  BY <1>17 DEF CreateInsert, CreateStatus, ChangeStatus, ChangeRole, Plain
<1> QED
  BY <1>1, <1>2, <1>3, <1>4, <1>5, <1>6, <1>7, <1>8, <1>9, <1>10, <1>11, <1>12, <1>14, <1>15, <1>16,
     <1>17 DEF Step

\* Time and institutions do neither.
LEMMA OthersStand ==
  ASSUME IInv, \/ \E u \in Users : LockEnds(u) \/ ResetExpires(u)
               \/ \E i \in Institutions : ToggleInstitution(i)
               \/ UNCHANGED vars
  PROVE  StandingKept /\ changes' = changes
<1>1. ASSUME NEW u \in Users, LockEnds(u) \/ ResetExpires(u) PROVE StandingKept /\ changes' = changes
  <2>1. users[u] \in Row
    BY DEF IInv, TypeOK
  <2>2. CASE LockEnds(u)
    <3>1. Standing(users[u], [users[u] EXCEPT !.lock = "past"])
      BY <2>1 DEF Standing, Row
    <3> QED
      BY <2>2, <3>1, WriteStands DEF LockEnds, Plain
  <2>3. CASE ResetExpires(u)
    <3>1. Standing(users[u], [users[u] EXCEPT !.timely = FALSE])
      BY <2>1 DEF Standing, Row
    <3> QED
      BY <2>3, <3>1, WriteStands DEF ResetExpires, Plain
  <2> QED
    BY <1>1, <2>2, <2>3
<1>2. ASSUME UNCHANGED <<users, changes>> PROVE StandingKept /\ changes' = changes
  BY <1>2 DEF StandingKept, Standing
<1> QED
  BY <1>1, <1>2 DEF ToggleInstitution, vars

\* A request that ends is one that stepped.
LEMMA Ended ==
  ASSUME IInv, NEW w \in Requests, Go(w, Done), requests[w].pc # "done"
  PROVE  requests'[w] # requests[w] /\ \A v \in Requests \ {w} : requests'[v] = requests[v]
<1>1. requests' = [requests EXCEPT ![w] = Done] /\ requests \in [Requests -> Handler]
  BY DEF Go, IInv, TypeOK
<1> QED
  BY <1>1 DEF Done, Idle

\* A reset link works only for the password it was asked for (userModel.js:164).
THEOREM ResetsAlwaysFresh == Spec => ResetsAreFresh
<1> DEFINE A == \A w \in Requests :
                  LET r == requests[w] IN
                  r.pc = "consume" /\ requests'[w] # r /\ changes'[r.target] # changes[r.target]
                     => changes[r.target] = born[r.token]
<1>1. IInv /\ [Next]_vars => [A]_vars
  <2> SUFFICES ASSUME IInv, [Next]_vars, NEW v \in Requests, requests[v].pc = "consume",
                      requests'[v] # requests[v], changes' # changes
               PROVE  changes[requests[v].target] = born[requests[v].token]
    BY Zenon
  <2>1. PICK w \in Requests : ChangePassword(w) \/ CompleteConsume(w) \/ RecoverUpdate(w)
    BY Kinds, OthersStand DEF Next
  <2>2. Go(w, Done) /\ requests[w].pc # "done"
    BY <2>1 DEF ChangePassword, Updating, CompleteConsume, RecoverUpdate
  <2>3. v = w
    BY <2>2, Ended
  <2>4. CompleteConsume(v)
    BY <2>1, <2>3 DEF ChangePassword, Updating, RecoverUpdate
  <2>5. Holds(requests[v].target, requests[v].token)
    BY <2>4 DEF CompleteConsume, Plain
  <2>6. requests[v].target \in Users /\ requests[v].token # NoToken
    BY Handling DEF Shape
  <2> QED
    BY <2>5, <2>6 DEF Holds, IInv, Fresh
<1> QED
  BY <1>1, IInvHolds, PTL DEF Spec, ResetsAreFresh

\* A step that moves one row of the table by SetStatus or SetRole takes the last active super
\* administrator away only if others have changed since the request looked.
LEMMA StaleCount ==
  ASSUME IInv, NEW w \in Requests, ChangeStatus(w) \/ ChangeRole(w),
         ActiveSupers # {}, ActiveSupers' = {}
  PROVE  requests[w].pc = "update" /\ requests[w].saw # ActiveSupers
<1> DEFINE r == requests[w]
<1>1. r.pc = "update" /\ r.op \in {"status", "role"}
  BY DEF ChangeStatus, ChangeRole, Updating
<1>2. r.target \in Users /\ users[r.target] \in Row /\ r \in Handler /\ Shape(r)
  BY <1>1, Target, Handling
<1>3. SUFFICES ASSUME r.saw = ActiveSupers PROVE FALSE
  BY <1>1
<1>4. PICK row : /\ users' = [users EXCEPT ![r.target] = row] /\ users \in [Users -> Row]
                 /\ \/ r.op = "status" /\ row = SetStatus(users[r.target], r.want.active)
                    \/ r.op = "role" /\ row = SetRole(users[r.target], r.want.role, r.want.inst)
  BY DEF ChangeStatus, ChangeRole, Updating, Write, IInv, TypeOK
<1>5. \A x \in Users \ {r.target} : users'[x] = users[x]
  BY <1>4
<1>6. ActiveSupers = {r.target}
  BY <1>5 DEF ActiveSupers
<1>7. r.was.role = "super_admin" /\ users[r.target].role = "super_admin" /\ users[r.target].active
  BY <1>1, <1>2, <1>3, <1>6 DEF Shape, ActiveSupers
<1>8. ~(row.role = "super_admin" /\ row.active)
  BY <1>2, <1>4 DEF ActiveSupers
<1>9. TakesSuper(r)
  <2>1. CASE r.op = "status"
    <3>1. row.role = users[r.target].role /\ row.active = r.want.active
      BY <1>2, <1>4, <2>1 DEF SetStatus, Row
    <3> QED
      BY <1>7, <1>8, <2>1, <3>1 DEF TakesSuper
  <2>2. CASE r.op = "role"
    <3>1. row.role = r.want.role /\ row.active = users[r.target].active
      BY <1>2, <1>4, <2>2 DEF SetRole, Row
    <3> QED
      BY <1>7, <1>8, <2>2, <3>1 DEF TakesSuper
  <2> QED
    BY <1>1, <2>1, <2>2
<1>10. Cardinality(r.saw) = 1
  BY <1>3, <1>6, FS_Singleton
<1> QED
  BY <1>1, <1>2, <1>9, <1>10 DEF Shape

\* No request takes the last active super administrator away by itself (userController.js:494).
THEOREM LastSuperNeverTakenAlone == Spec => LastSuperNotTakenAlone
<1> DEFINE A == ActiveSupers # {} /\ ActiveSupers' = {} =>
                  \E w \in Requests : /\ requests'[w] # requests[w]
                                      /\ \/ requests[w].pc = "update" /\ requests[w].saw # ActiveSupers
                                         \/ requests[w].pc = "status"
<1>1. IInv /\ [Next]_vars => [A]_vars
  <2> SUFFICES ASSUME IInv, [Next]_vars, ActiveSupers # {}, ActiveSupers' = {}
               PROVE  \E w \in Requests : /\ requests'[w] # requests[w]
                                          /\ \/ requests[w].pc = "update" /\ requests[w].saw # ActiveSupers
                                             \/ requests[w].pc = "status"
    OBVIOUS
  <2>1. ~StandingKept
    BY DEF StandingKept, Standing, ActiveSupers
  <2>2. PICK w \in Requests :
           \/ CreateInsert(w) \/ CreateStatus(w) \/ ChangeStatus(w) \/ ChangeRole(w)
           \/ \E u \in Users, p \in Passwords, o \in BOOLEAN : Bootstrap(w, u, p, o)
    BY <2>1, Kinds, OthersStand DEF Next
  <2>3. ASSUME NEW u \in Users, NEW row, Write(u, row), ~Exists(u) PROVE FALSE
    <3>1. PICK x \in Users : users[x].role = "super_admin" /\ users[x].active
      BY DEF ActiveSupers
    <3>2. users'[x] = users[x]
      BY <2>3, <3>1 DEF Write, Exists, IInv, TypeOK
    <3> QED
      BY <3>1, <3>2 DEF ActiveSupers
  <2>4. CASE CreateInsert(w)
    <3>1. requests[w].target \in Users
      BY <2>4, Handling DEF Shape, CreateInsert
    <3>2. ~Exists(requests[w].target)
      BY <2>1, <2>4 DEF CreateInsert, StandingKept, Standing
    <3> QED
      BY <2>3, <2>4, <3>1, <3>2 DEF CreateInsert
  <2>5. CASE \E u \in Users, p \in Passwords, o \in BOOLEAN : Bootstrap(w, u, p, o)
    BY <2>3, <2>5 DEF Bootstrap
  <2>6. CASE CreateStatus(w)
    BY <2>6, Ended DEF CreateStatus
  <2>7. CASE ChangeStatus(w) \/ ChangeRole(w)
    <3>1. Go(w, Done) /\ requests[w].pc # "done"
      BY <2>7 DEF ChangeStatus, ChangeRole, Updating
    <3> QED
      BY <2>7, <3>1, StaleCount, Ended
  <2> QED
    BY <2>2, <2>4, <2>5, <2>6, <2>7
<1> QED
  BY <1>1, IInvHolds, PTL DEF Spec, LastSuperNotTakenAlone

\* Nobody below a super administrator makes an administrator (userController.js:535).
THEOREM PromotionAlwaysFromAbove == Spec => PromotionComesFromAbove
<1> DEFINE High == Global \cup {"institution_admin"}
           A == \A u \in Users :
                  users'[u].role \in High /\ users'[u].role # users[u].role =>
                     \E w \in Requests : /\ requests'[w] # requests[w]
                                         /\ requests[w].role = "super_admin" \/ requests[w] = Idle
<1>1. IInv /\ [Next]_vars => [A]_vars
  <2> SUFFICES ASSUME IInv, [Next]_vars, NEW u \in Users,
                      users'[u].role \in High, users'[u].role # users[u].role
               PROVE  \E w \in Requests : /\ requests'[w] # requests[w]
                                          /\ requests[w].role = "super_admin" \/ requests[w] = Idle
    OBVIOUS
  <2>1. ~StandingKept
    BY DEF StandingKept, Standing
  <2>2. PICK w \in Requests :
           \/ CreateInsert(w) \/ CreateStatus(w) \/ ChangeStatus(w) \/ ChangeRole(w)
           \/ \E v \in Users, p \in Passwords, o \in BOOLEAN : Bootstrap(w, v, p, o)
    BY <2>1, Kinds, OthersStand DEF Next
  <2>3. requests \in [Requests -> Handler] /\ Shape(requests[w]) /\ users \in [Users -> Row]
    BY Handling DEF IInv, TypeOK
  <2>4. High \cap Managed = {}
    BY DEF Global, Managed
  <2> HIDE DEF High
  <2>5. ASSUME NEW row, Write(requests[w].target, row), row.role = users[requests[w].target].role
        PROVE  FALSE
    BY <2>3, <2>5 DEF Write
  <2>6. CASE CreateInsert(w)
    <3>1. ~Exists(requests[w].target) /\ Write(requests[w].target, NewRow(requests[w].want.role, requests[w].want.inst, Random))
          /\ Go(w, [requests[w] EXCEPT !.pc = "setup"]) /\ requests[w].pc = "insert"
      BY <2>1, <2>6 DEF CreateInsert, StandingKept, Standing
    <3>2. users'[u].role = requests[w].want.role
      BY <2>3, <3>1 DEF Write, NewRow
    <3>3. requests'[w] # requests[w]
      BY <2>3, <3>1 DEF Go, Handler
    <3>4. requests[w].op = "create"
      BY <2>3, <3>1 DEF Shape
    <3>5. requests[w].want.role \notin Managed
      BY <2>4, <3>2
    <3>6. requests[w].role = "super_admin"
      BY <2>3, <3>4, <3>5 DEF Shape
    <3> QED
      BY <3>3, <3>6
  <2>7. CASE CreateStatus(w) \/ ChangeStatus(w)
    <3>1. requests[w].target \in Users /\ users[requests[w].target] \in Row
      BY <2>7, Target DEF CreateStatus, ChangeStatus, Updating
    <3>2. \A b : SetStatus(users[requests[w].target], b).role = users[requests[w].target].role
      BY <3>1 DEF SetStatus, Row
    <3> QED
      BY <2>5, <2>7, <3>2 DEF CreateStatus, ChangeStatus
  <2>8. CASE ChangeRole(w)
    <3>1. /\ requests[w].pc = "update" /\ requests[w].op = "role" /\ Go(w, Done)
          /\ Write(requests[w].target,
                   SetRole(users[requests[w].target], requests[w].want.role, requests[w].want.inst))
      BY <2>8 DEF ChangeRole, Updating
    <3>2. users'[u].role = requests[w].want.role
      BY <2>3, <3>1 DEF Write, SetRole, Row
    <3>3. requests'[w] # requests[w]
      BY <3>1, Ended
    <3> QED
      BY <2>3, <2>4, <3>1, <3>2, <3>3 DEF Shape
  <2>9. CASE \E v \in Users, p \in Passwords, o \in BOOLEAN : Bootstrap(w, v, p, o)
    <3>1. requests[w] = Idle /\ Go(w, Done)
      BY <2>9 DEF Bootstrap
    <3> QED
      BY <3>1, Ended DEF Idle
  <2> QED
    BY <2>2, <2>6, <2>7, <2>8, <2>9
<1> QED
  BY <1>1, IInvHolds, PTL DEF Spec, PromotionComesFromAbove
=============================================================================
