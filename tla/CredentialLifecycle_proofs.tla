----------------------- MODULE CredentialLifecycle_proofs -----------------------
(* Safety of the credential lifecycle for any number of certificates,         *)
(* concurrent requests and transactions.                                      *)
EXTENDS Corrections, Sequences, TLAPS

USE CredsAssumption, TxIdsAssumption

\* What Goto, End and the wait for a receipt do to the table of requests.
LEMMA GotoEffect ==
  ASSUME requests \in [Workers -> Request], NEW w \in Workers, NEW s \in Steps,
         Goto(w, s)
  PROVE  /\ requests' \in [Workers -> Request]
         /\ requests'[w].step = s
         /\ requests'[w].op = requests[w].op
         /\ requests'[w].cred = requests[w].cred
         /\ requests'[w].other = requests[w].other
         /\ requests'[w].tx = requests[w].tx
         /\ \A v \in Workers \ {w} : requests'[v] = requests[v]
<1>1. requests[w] \in Request /\ [requests[w] EXCEPT !.step = s] \in Request
  BY DEF Request
<1>2. requests' = [requests EXCEPT ![w] = [requests[w] EXCEPT !.step = s]]
  BY DEF Goto
<1> QED
  BY <1>1, <1>2 DEF Request

LEMMA WaitEffect ==
  ASSUME requests \in [Workers -> Request], NEW w \in Workers, NEW t \in TxIds,
         requests' = [requests EXCEPT ![w].step = "confirm", ![w].tx = t]
  PROVE  /\ requests' \in [Workers -> Request]
         /\ requests'[w].step = "confirm"
         /\ requests'[w].op = requests[w].op
         /\ requests'[w].cred = requests[w].cred
         /\ requests'[w].other = requests[w].other
         /\ requests'[w].tx = t
         /\ \A v \in Workers \ {w} : requests'[v] = requests[v]
<1> DEFINE q == [requests[w] EXCEPT !.step = "confirm", !.tx = t]
<1>1. requests[w] \in Request /\ q \in Request
  BY DEF Request, Steps
<1>2. requests' = [requests EXCEPT ![w] = q]
  OBVIOUS
<1>3. requests'[w] = q /\ requests' \in [Workers -> Request]
  BY <1>1, <1>2
<1>4. /\ q.step = "confirm" /\ q.op = requests[w].op /\ q.cred = requests[w].cred
      /\ q.other = requests[w].other /\ q.tx = t
  BY <1>1 DEF Request
<1> HIDE DEF q
<1> QED
  BY <1>2, <1>3, <1>4

LEMMA MarkEffect ==
  ASSUME requests \in [Workers -> Request], NEW w \in Workers, NEW r \in Creds,
         requests' = [requests EXCEPT ![w].step = "mark", ![w].other = r]
  PROVE  /\ requests' \in [Workers -> Request]
         /\ requests'[w].step = "mark"
         /\ requests'[w].op = requests[w].op
         /\ requests'[w].cred = requests[w].cred
         /\ requests'[w].other = r
         /\ requests'[w].tx = requests[w].tx
         /\ \A v \in Workers \ {w} : requests'[v] = requests[v]
<1> DEFINE q == [requests[w] EXCEPT !.step = "mark", !.other = r]
<1>1. requests[w] \in Request /\ q \in Request
  BY DEF Request, Steps
<1>2. requests' = [requests EXCEPT ![w] = q]
  OBVIOUS
<1>3. requests'[w] = q /\ requests' \in [Workers -> Request]
  BY <1>1, <1>2
<1>4. /\ q.step = "mark" /\ q.op = requests[w].op /\ q.cred = requests[w].cred
      /\ q.other = r /\ q.tx = requests[w].tx
  BY <1>1 DEF Request
<1> HIDE DEF q
<1> QED
  BY <1>2, <1>3, <1>4

LEMMA EndEffect ==
  ASSUME requests \in [Workers -> Request], NEW w \in Workers, End(w)
  PROVE  /\ requests' \in [Workers -> Request]
         /\ requests'[w] = Idle
         /\ \A v \in Workers \ {w} : requests'[v] = requests[v]
<1>1. Idle \in Request
  BY DEF Idle, Request, Steps
<1> QED
  BY <1>1 DEF End

\* Starting or resuming a handler.
LEMMA RequestType ==
  /\ \A c \in Creds : [Idle EXCEPT !.op = "issue", !.step = "insert", !.cred = c] \in Request
  /\ \A c \in Creds : [Idle EXCEPT !.op = "revoke", !.step = "submit", !.cred = c] \in Request
  /\ \A c \in Creds : [Idle EXCEPT !.op = "supersede", !.step = "replacement", !.cred = c]
                        \in Request
  BY DEF Idle, Request, Steps

LEMMA AnchorType ==
  ASSUME NEW c \in Creds, NEW row PROVE AnchorOf(row, c) \in Anchors
  BY DEF AnchorOf, Anchors

\* The credential a busy handler works on.
LEMMA BroadcastType ==
  ASSUME TypeOK, NEW t \in TxIds, NEW op \in {"issue", "revoke"}, NEW a \in Anchors,
         Broadcast(t, op, a)
  PROVE  txs' \in [TxIds -> Tx]
<1>1. [op |-> op, anchor |-> a, state |-> "pending"] \in Tx
  BY DEF Tx
<1> QED
  BY <1>1 DEF Broadcast, TypeOK

\* A handler that is past its start works on a credential.
Busy == \A w \in Workers :
          /\ requests[w].op # "none" => requests[w].cred \in Creds
          /\ requests[w].step = "confirm" => requests[w].tx \in TxIds
          /\ requests[w].step \in {"activate", "mark"} /\ requests[w].op # "supersede"
                => requests[w].tx \in TxIds
          /\ requests[w].op = "supersede" /\ requests[w].step = "mark"
                => requests[w].other \in Creds \ {requests[w].cred}

TypeInv == TypeOK /\ Busy

\* The updates keep the table well typed.
LEMMA RowTypes ==
  ASSUME rows \in [Creds -> Row], NEW c \in Creds
  PROVE  /\ [NoRow EXCEPT !.status = "processing"] \in Row
         /\ [rows[c] EXCEPT !.proof = ProofOf(c)] \in Row
         /\ [rows[c] EXCEPT !.status = "pending", !.cid = TRUE] \in Row
         /\ [rows[c] EXCEPT !.status = "failed"] \in Row
         /\ \A x \in TxIds : [rows[c] EXCEPT !.status = "active", !.tx = x] \in Row
         /\ \A x \in TxIds : [rows[c] EXCEPT !.status = "revoked", !.revocationTx = x] \in Row
         /\ \A d \in Creds : [rows[c] EXCEPT !.status = "superseded",
                                             !.supersededBy = d] \in Row
<1>1. rows[c] \in Row
  OBVIOUS
<1> QED
  BY <1>1 DEF Row, NoRow, Statuses, ProofOf

LEMMA UpdateType ==
  ASSUME rows \in [Creds -> Row], NEW c \in Creds, NEW row \in Row,
         rows' = [rows EXCEPT ![c] = row]
  PROVE  rows' \in [Creds -> Row]
  OBVIOUS

LEMMA TypeInit == Init => TypeInv
<1> SUFFICES ASSUME Init PROVE TypeInv
  OBVIOUS
<1>1. rows \in [Creds -> Row]
  BY DEF Init, Row, NoRow, Statuses
<1>2. txs \in [TxIds -> Tx]
  BY DEF Init, Tx, NoTxSubmitted
<1>3. requests \in [Workers -> Request]
  BY DEF Init, Request, Idle, Steps
<1>4. rec \in Script
  BY DEF Init, Script, RecIdle
<1>5. Busy
  BY DEF Init, Busy, Idle
<1> QED
  BY <1>1, <1>2, <1>3, <1>4, <1>5 DEF Init, TypeInv, TypeOK

LEMMA TypeArrive ==
  ASSUME TypeInv, NEW w \in Workers, NEW c \in Creds, Arrive(w, c) PROVE TypeInv'
<1> USE DEF TypeInv
<1>1. requests' \in [Workers -> Request]
  BY RequestType DEF Arrive, IssueBegin, RevokeBegin, SupersedeBegin, TypeOK
<1>2. UNCHANGED <<rows, ledger, accepting, txs, rec>>
  BY DEF Arrive, IssueBegin, RevokeBegin, SupersedeBegin
<1>3. /\ requests'[w].cred = c /\ requests'[w].step \in {"insert", "submit", "replacement"}
      /\ \A v \in Workers \ {w} : requests'[v] = requests[v]
  BY DEF Arrive, IssueBegin, RevokeBegin, SupersedeBegin, TypeOK, Idle
<1>4. Busy'
  BY <1>3 DEF Busy
<1> QED
  BY <1>1, <1>2, <1>4 DEF TypeOK

LEMMA TypeHandler ==
  ASSUME TypeInv, NEW w \in Workers, HandlerStep(w) PROVE TypeInv'
<1> USE DEF TypeInv
<1> DEFINE c == requests[w].cred
           Others == \A v \in Workers \ {w} : requests'[v] = requests[v]
<1>0. requests \in [Workers -> Request] /\ rows \in [Creds -> Row] /\ txs \in [TxIds -> Tx]
  BY DEF TypeOK
<1>1. CASE IssueInsert(w)
  <2>0. requests[w].op # "none" /\ c \in Creds
    BY <1>1 DEF IssueInsert, At, Busy
  <2>1. rows' \in [Creds -> Row]
    BY <1>1, <1>0, <2>0, RowTypes, UpdateType DEF IssueInsert, At, Update, Busy
  <2>2. txs' \in [TxIds -> Tx]
    BY <1>1, <1>0 DEF IssueInsert
  <2>3. requests' \in [Workers -> Request]
    BY <1>1, <1>0, <2>0, GotoEffect, EndEffect
       DEF IssueInsert, Steps
  <2>4. Busy'
    BY <1>1, <1>0, <2>0, GotoEffect, EndEffect
       DEF IssueInsert, At, Idle, Busy, Steps
  <2> QED
    BY <1>1, <2>1, <2>2, <2>3, <2>4 DEF IssueInsert, TypeOK
<1>2. CASE IssuePrepare(w)
  <2>0. requests[w].op # "none" /\ c \in Creds
    BY <1>2 DEF IssuePrepare, At, Busy
  <2>1. rows' \in [Creds -> Row]
    BY <1>2, <1>0, <2>0, RowTypes, UpdateType DEF IssuePrepare, At, Update, Busy
  <2>2. txs' \in [TxIds -> Tx]
    BY <1>2, <1>0 DEF IssuePrepare
  <2>3. requests' \in [Workers -> Request]
    BY <1>2, <1>0, <2>0, GotoEffect, EndEffect
       DEF IssuePrepare, Steps
  <2>4. Busy'
    BY <1>2, <1>0, <2>0, GotoEffect, EndEffect
       DEF IssuePrepare, At, Idle, Busy, Steps
  <2> QED
    BY <1>2, <2>1, <2>2, <2>3, <2>4 DEF IssuePrepare, TypeOK
<1>3. CASE IssueUpload(w)
  <2>0. requests[w].op # "none" /\ c \in Creds
    BY <1>3 DEF IssueUpload, At, Busy
  <2>1. rows' \in [Creds -> Row]
    BY <1>3, <1>0, <2>0, RowTypes, UpdateType DEF IssueUpload, At, Update, Busy
  <2>2. txs' \in [TxIds -> Tx]
    BY <1>3, <1>0 DEF IssueUpload
  <2>3. requests' \in [Workers -> Request]
    BY <1>3, <1>0, <2>0, GotoEffect, EndEffect
       DEF IssueUpload, Steps
  <2>4. Busy'
    BY <1>3, <1>0, <2>0, GotoEffect, EndEffect
       DEF IssueUpload, At, Idle, Busy, Steps
  <2> QED
    BY <1>3, <2>1, <2>2, <2>3, <2>4 DEF IssueUpload, TypeOK
<1>4. CASE IssueSubmit(w)
  <2>0. requests[w].op # "none" /\ c \in Creds
    BY <1>4 DEF IssueSubmit, At, Busy
  <2>1. rows' \in [Creds -> Row]
    BY <1>4, <1>0 DEF IssueSubmit
  <2>2. txs' \in [TxIds -> Tx]
    BY <1>4, <1>0, <2>0, AnchorType, BroadcastType DEF IssueSubmit
  <2>3. requests' \in [Workers -> Request]
    BY <1>4, <1>0, <2>0, GotoEffect, EndEffect, WaitEffect
       DEF IssueSubmit, Steps
  <2>4. Busy'
    BY <1>4, <1>0, <2>0, GotoEffect, EndEffect, WaitEffect
       DEF IssueSubmit, At, Idle, Busy, Steps
  <2> QED
    BY <1>4, <2>1, <2>2, <2>3, <2>4 DEF IssueSubmit, TypeOK
<1>5. CASE IssueConfirm(w)
  <2>0. requests[w].op # "none" /\ c \in Creds
    BY <1>5 DEF IssueConfirm, At, Busy
  <2>1. rows' \in [Creds -> Row]
    BY <1>5, <1>0 DEF IssueConfirm
  <2>2. txs' \in [TxIds -> Tx]
    BY <1>5, <1>0 DEF IssueConfirm
  <2>3. requests' \in [Workers -> Request]
    BY <1>5, <1>0, <2>0, GotoEffect, EndEffect
       DEF IssueConfirm, Steps
  <2>4. Busy'
    BY <1>5, <1>0, <2>0, GotoEffect, EndEffect
       DEF IssueConfirm, At, Idle, Busy, Steps
  <2> QED
    BY <1>5, <2>1, <2>2, <2>3, <2>4 DEF IssueConfirm, TypeOK
<1>6. CASE IssueActivate(w)
  <2>0. requests[w].op # "none" /\ c \in Creds
    BY <1>6 DEF IssueActivate, At, Busy
  <2>1. rows' \in [Creds -> Row]
    BY <1>6, <1>0, <2>0, RowTypes, UpdateType DEF IssueActivate, At, Update, Activate, Busy
  <2>2. txs' \in [TxIds -> Tx]
    BY <1>6, <1>0 DEF IssueActivate
  <2>3. requests' \in [Workers -> Request]
    BY <1>6, <1>0, <2>0, GotoEffect, EndEffect
       DEF IssueActivate, Steps
  <2>4. Busy'
    BY <1>6, <1>0, <2>0, GotoEffect, EndEffect
       DEF IssueActivate, At, Idle, Busy, Steps
  <2> QED
    BY <1>6, <2>1, <2>2, <2>3, <2>4 DEF IssueActivate, TypeOK
<1>7. CASE IssueRespond(w)
  <2>0. requests[w].op # "none" /\ c \in Creds
    BY <1>7 DEF IssueRespond, At, Busy
  <2>1. rows' \in [Creds -> Row]
    BY <1>7, <1>0 DEF IssueRespond
  <2>2. txs' \in [TxIds -> Tx]
    BY <1>7, <1>0 DEF IssueRespond
  <2>3. requests' \in [Workers -> Request]
    BY <1>7, <1>0, <2>0, GotoEffect, EndEffect
       DEF IssueRespond, Steps
  <2>4. Busy'
    BY <1>7, <1>0, <2>0, GotoEffect, EndEffect
       DEF IssueRespond, At, Idle, Busy, Steps
  <2> QED
    BY <1>7, <2>1, <2>2, <2>3, <2>4 DEF IssueRespond, TypeOK
<1>8. CASE IssueFail(w)
  <2>0. requests[w].op # "none" /\ c \in Creds
    BY <1>8 DEF IssueFail, At, Busy
  <2>1. rows' \in [Creds -> Row]
    BY <1>8, <1>0, <2>0, RowTypes, UpdateType DEF IssueFail, At, Update, MarkFailed, Busy
  <2>2. txs' \in [TxIds -> Tx]
    BY <1>8, <1>0 DEF IssueFail
  <2>3. requests' \in [Workers -> Request]
    BY <1>8, <1>0, <2>0, GotoEffect, EndEffect
       DEF IssueFail, Steps
  <2>4. Busy'
    BY <1>8, <1>0, <2>0, GotoEffect, EndEffect
       DEF IssueFail, At, Idle, Busy, Steps
  <2> QED
    BY <1>8, <2>1, <2>2, <2>3, <2>4 DEF IssueFail, TypeOK
<1>9. CASE RevokeSubmit(w)
  <2>0. requests[w].op # "none" /\ c \in Creds
    BY <1>9 DEF RevokeSubmit, At, Busy
  <2>1. rows' \in [Creds -> Row]
    BY <1>9, <1>0 DEF RevokeSubmit
  <2>2. txs' \in [TxIds -> Tx]
    BY <1>9, <1>0, <2>0, AnchorType, BroadcastType DEF RevokeSubmit
  <2>3. requests' \in [Workers -> Request]
    BY <1>9, <1>0, <2>0, GotoEffect, EndEffect, WaitEffect
       DEF RevokeSubmit, Steps
  <2>4. Busy'
    BY <1>9, <1>0, <2>0, GotoEffect, EndEffect, WaitEffect
       DEF RevokeSubmit, At, Idle, Busy, Steps
  <2> QED
    BY <1>9, <2>1, <2>2, <2>3, <2>4 DEF RevokeSubmit, TypeOK
<1>10. CASE RevokeConfirm(w)
  <2>0. requests[w].op # "none" /\ c \in Creds
    BY <1>10 DEF RevokeConfirm, At, Busy
  <2>1. rows' \in [Creds -> Row]
    BY <1>10, <1>0 DEF RevokeConfirm
  <2>2. txs' \in [TxIds -> Tx]
    BY <1>10, <1>0 DEF RevokeConfirm
  <2>3. requests' \in [Workers -> Request]
    BY <1>10, <1>0, <2>0, GotoEffect, EndEffect
       DEF RevokeConfirm, Steps
  <2>4. Busy'
    BY <1>10, <1>0, <2>0, GotoEffect, EndEffect
       DEF RevokeConfirm, At, Idle, Busy, Steps
  <2> QED
    BY <1>10, <2>1, <2>2, <2>3, <2>4 DEF RevokeConfirm, TypeOK
<1>11. CASE RevokeMark(w)
  <2>0. requests[w].op # "none" /\ c \in Creds
    BY <1>11 DEF RevokeMark, At, Busy
  <2>1. rows' \in [Creds -> Row]
    BY <1>11, <1>0, <2>0, RowTypes, UpdateType DEF RevokeMark, At, Update, Busy
  <2>2. txs' \in [TxIds -> Tx]
    BY <1>11, <1>0 DEF RevokeMark
  <2>3. requests' \in [Workers -> Request]
    BY <1>11, <1>0, <2>0, GotoEffect, EndEffect
       DEF RevokeMark, Steps
  <2>4. Busy'
    BY <1>11, <1>0, <2>0, GotoEffect, EndEffect
       DEF RevokeMark, At, Idle, Busy, Steps
  <2> QED
    BY <1>11, <2>1, <2>2, <2>3, <2>4 DEF RevokeMark, TypeOK
<1>12. CASE SupersedeRead(w)
  <2>0. requests[w].op # "none" /\ c \in Creds
    BY <1>12 DEF SupersedeRead, At, Busy
  <2>1. rows' \in [Creds -> Row]
    BY <1>12, <1>0 DEF SupersedeRead
  <2>2. txs' \in [TxIds -> Tx]
    BY <1>12, <1>0 DEF SupersedeRead
  <2>3. requests' \in [Workers -> Request]
    BY <1>12, <1>0, <2>0, GotoEffect, EndEffect, MarkEffect
       DEF SupersedeRead, Steps
  <2>4. Busy'
    BY <1>12, <1>0, <2>0, GotoEffect, EndEffect, MarkEffect
       DEF SupersedeRead, At, Idle, Busy, Steps
  <2> QED
    BY <1>12, <2>1, <2>2, <2>3, <2>4 DEF SupersedeRead, TypeOK
<1>13. CASE SupersedeMark(w)
  <2>0. requests[w].op # "none" /\ c \in Creds
    BY <1>13 DEF SupersedeMark, At, Busy
  <2>1. rows' \in [Creds -> Row]
    BY <1>13, <1>0, <2>0, RowTypes, UpdateType DEF SupersedeMark, At, Update, Busy
  <2>2. txs' \in [TxIds -> Tx]
    BY <1>13, <1>0 DEF SupersedeMark
  <2>3. requests' \in [Workers -> Request]
    BY <1>13, <1>0, <2>0, GotoEffect, EndEffect
       DEF SupersedeMark, Steps
  <2>4. Busy'
    BY <1>13, <1>0, <2>0, GotoEffect, EndEffect
       DEF SupersedeMark, At, Idle, Busy, Steps
  <2> QED
    BY <1>13, <2>1, <2>2, <2>3, <2>4 DEF SupersedeMark, TypeOK
<1> QED
  BY <1>1, <1>2, <1>3, <1>4, <1>5, <1>6, <1>7, <1>8, <1>9, <1>10, <1>11, <1>12, <1>13 DEF HandlerStep

LEMMA TypeReconcile ==
  ASSUME TypeInv, Reconcile PROVE TypeInv'
<1> USE DEF TypeInv
<1>0. rows \in [Creds -> Row] /\ rec \in Script
  BY DEF TypeOK
<1>1. UNCHANGED <<ledger, accepting, txs, requests>>
  BY DEF Reconcile, ReconcileStart, ReconcileExamine, ReconcileSettle, ReconcileSkip,
         ReconcileAbort
<1>2. rec' \in Script
  <2>1. CASE ReconcileStart
    BY <2>1 DEF ReconcileStart, RecIdle, Script, Stale
  <2>2. ASSUME NEW i \in Item, ReconcileExamine(i) PROVE rec' \in Script
    <3>1. [rec EXCEPT !.todo = @ \ {i}] \in Script
      BY <1>0 DEF Script
    <3>2. ASSUME NEW t \in TxIds
          PROVE  [[rec EXCEPT !.todo = @ \ {i}] EXCEPT !.cred = i.cred, !.event = t] \in Script
      BY <3>1 DEF Script, Item
    <3>3. [[rec EXCEPT !.todo = @ \ {i}] EXCEPT !.cred = i.cred] \in Script
      BY <3>1 DEF Script, Item
    <3> QED
      BY <2>2, <3>1, <3>2, <3>3 DEF ReconcileExamine
  <2>3. CASE ReconcileSettle \/ ReconcileSkip
    BY <1>0, <2>3 DEF ReconcileSettle, ReconcileSkip, Script
  <2>4. CASE ReconcileAbort
    BY <2>4 DEF ReconcileAbort, RecIdle, Script
  <2> QED
    BY <2>1, <2>2, <2>3, <2>4 DEF Reconcile
<1>3. rows' \in [Creds -> Row]
  <2>1. CASE ReconcileSettle
    <3>1. rec.cred \in Creds /\ (rec.event # NoTx => rec.event \in TxIds)
      BY <1>0, <2>1 DEF ReconcileSettle, Script
    <3> QED
      BY <1>0, <2>1, <3>1, RowTypes, UpdateType
         DEF ReconcileSettle, MarkFailed, Activate, Update
  <2>2. CASE ~ReconcileSettle
    BY <1>0, <2>2 DEF Reconcile, ReconcileStart, ReconcileExamine, ReconcileSkip,
                      ReconcileAbort
  <2> QED
    BY <2>1, <2>2
<1> QED
  BY <1>1, <1>2, <1>3 DEF TypeOK, Busy

LEMMA TypeRest ==
  ASSUME TypeInv,
         \/ \E t \in TxIds : Mine(t)
         \/ ToggleAccepting \/ Crash \/ UNCHANGED vars
  PROVE  TypeInv'
<1> USE DEF TypeInv
<1>1. ASSUME NEW t \in TxIds, Mine(t) PROVE TypeInv'
  <2>1. txs' \in [TxIds -> Tx]
    BY <1>1 DEF Mine, TypeOK, Tx
  <2>2. ledger' \in [Anchors -> {"absent", "issued", "revoked"}]
    <3>1. Effect(t) \in {"none", "issued", "revoked"}
      BY DEF Effect
    <3> QED
      BY <1>1, <3>1 DEF Mine, TypeOK
  <2> QED
    BY <1>1, <2>1, <2>2 DEF Mine, TypeOK, Busy
<1>2. CASE ToggleAccepting
  BY <1>2 DEF ToggleAccepting, TypeOK, Busy
<1>3. CASE Crash
  BY <1>3 DEF Crash, EndAll, TypeOK, Busy, Idle, Request, Steps
<1>4. CASE UNCHANGED vars
  BY <1>4 DEF vars, TypeOK, Busy
<1> QED
  BY <1>1, <1>2, <1>3, <1>4

LEMMA TypeStep == TypeInv /\ [Next]_vars => TypeInv'
  BY TypeArrive, TypeHandler, TypeReconcile, TypeRest DEF Next

\* Every variable keeps its type, and a handler always knows its credential.
THEOREM TypeCorrect == Spec => []TypeOK
<1>1. TypeInv => TypeOK
  BY DEF TypeInv
<1> QED
  BY <1>1, TypeInit, TypeStep, PTL DEF Spec

-------------------------------------------------------------------------------
(* The inductive invariant.  ActiveIsAnchored and RevokedIsRevokedOnChain    *)
(* are not inductive: what makes them true is what a handler knows between   *)
(* two of its steps, what the script's snapshot still means when it is used, *)
(* and which transactions can be under way for a row.                        *)

\* The anchor of a credential, fixed before anything is submitted.
Home(c) == [kind |-> IF c \in Accredited THEN "credential_commitment"
                                         ELSE "certificate_hash",
            cred |-> c]

\* Transaction t did op for c.
Done(t, op, c) == /\ t \in TxIds
                  /\ txs[t].op = op
                  /\ txs[t].anchor = Home(c)
                  /\ txs[t].state = "success"

RowOK(c) ==
  /\ rows[c].status = "absent" => rows[c] = NoRow
  /\ rows[c].cid => rows[c].proof = ProofOf(c)
  /\ rows[c].status \in Accepted => rows[c].cid /\ Done(rows[c].tx, "issue", c)
  /\ rows[c].status = "revoked" => Done(rows[c].revocationTx, "revoke", c)
  /\ rows[c].status = "superseded" =>
       /\ rows[c].supersededBy \in Creds \ {c}
       /\ rows[rows[c].supersededBy].status \in Accepted
  /\ rows[c].status # "superseded" => rows[c].supersededBy = NoCred
  /\ rows[c].status # "revoked" => rows[c].revocationTx = NoTx
  /\ rows[c].status \notin Accepted => rows[c].tx = NoTx

\* A submitted transaction is about a pinned row; a revocation about one that
\* was accepted.
TxOK(t) ==
  /\ txs[t].state = "unused" <=> txs[t].op = "none"
  /\ txs[t].op # "none" => \E c \in Creds : txs[t].anchor = Home(c) /\ rows[c].cid
  /\ txs[t].op = "revoke" =>
       \E c \in Creds : txs[t].anchor = Home(c) /\ rows[c].status \in Accepted
  /\ txs[t].state = "success" /\ txs[t].op = "issue" => ledger[txs[t].anchor] # "absent"
  /\ txs[t].state = "success" /\ txs[t].op = "revoke" => ledger[txs[t].anchor] = "revoked"

LedgerOK(a) ==
  /\ ledger[a] # "absent" => a = Home(a.cred) /\ rows[a.cred].cid
  /\ ledger[a] = "revoked" => rows[a.cred].status \in Accepted

HandlerOK(w) ==
  LET q == requests[w]
  IN /\ q.op = "issue" /\ q.step \notin {"insert"} => rows[q.cred].status # "absent"
     /\ q.op = "issue" /\ q.step = "upload" => rows[q.cred].proof = ProofOf(q.cred)
     /\ q.op = "issue" /\ q.step \in {"submit", "confirm", "activate"} => rows[q.cred].cid
     /\ q.op = "issue" /\ q.step \in {"confirm", "activate"} =>
          txs[q.tx].op = "issue" /\ txs[q.tx].anchor = Home(q.cred)
     /\ q.op = "issue" /\ q.step = "activate" => txs[q.tx].state = "success"
     /\ q.op \in {"revoke", "supersede"} => rows[q.cred].status \in Accepted
     /\ q.op = "revoke" /\ q.step \in {"confirm", "mark"} =>
          txs[q.tx].op = "revoke" /\ txs[q.tx].anchor = Home(q.cred)
     /\ q.op = "revoke" /\ q.step = "mark" => txs[q.tx].state = "success"
     /\ q.op = "supersede" /\ q.step = "mark" => rows[q.other].status \in Accepted

ScriptOK ==
  /\ \A i \in rec.todo : rows[i.cred].cid
  /\ rec.cred # NoCred => rows[rec.cred].cid
  /\ rec.event # NoTx => rec.cred # NoCred /\ Done(rec.event, "issue", rec.cred)

Safe == /\ \A c \in Creds : RowOK(c)
        /\ \A t \in TxIds : TxOK(t)
        /\ \A a \in Anchors : LedgerOK(a)
        /\ \A w \in Workers : HandlerOK(w)
        /\ ScriptOK

\* Two originals never name the same replacement.
OneOriginal == \A c, d \in Creds : rows[c].supersededBy # NoCred
                                   /\ rows[c].supersededBy = rows[d].supersededBy => c = d

\* At most one handler is past the INSERT for a credential, and before its
\* submission no transaction exists.
OneIssuer ==
  /\ \A v, w \in Workers :
       /\ requests[v].op = "issue" /\ requests[v].step # "insert"
       /\ requests[w].op = "issue" /\ requests[w].step # "insert"
       /\ requests[v].cred = requests[w].cred
       => v = w
  /\ \A w \in Workers, t \in TxIds :
       /\ requests[w].op = "issue" /\ requests[w].step \in {"prepare", "upload", "submit"}
       /\ txs[t].op = "issue"
       => txs[t].anchor # Home(requests[w].cred)
  /\ NeverResubmitted

IInv == TypeInv /\ Safe /\ OneOriginal /\ OneIssuer

-------------------------------------------------------------------------------
\* Every way a row changes, with what the step that changes it knows.
Inserted(c, row) == rows[c].status = "absent" /\ row = [NoRow EXCEPT !.status = "processing"]
Prepared(c, row) == rows[c].status = "processing" /\ row = [rows[c] EXCEPT !.proof = ProofOf(c)]
Pinned(c, row) == /\ rows[c].status \in Unsettled /\ rows[c].proof = ProofOf(c)
                  /\ row = [rows[c] EXCEPT !.status = "pending", !.cid = TRUE]
Failed(c, row) == rows[c].status \in Unsettled /\ row = [rows[c] EXCEPT !.status = "failed"]
Activated(c, row) ==
  /\ rows[c].status \in Unsettled /\ rows[c].cid
  /\ \E t \in TxIds : Done(t, "issue", c) /\ row = [rows[c] EXCEPT !.status = "active", !.tx = t]
Revoked(c, row) ==
  /\ rows[c].status = "active"
  /\ \E t \in TxIds : /\ Done(t, "revoke", c)
                      /\ row = [rows[c] EXCEPT !.status = "revoked", !.revocationTx = t]
Superseded(c, row) ==
  /\ rows[c].status = "active"
  /\ \E r \in Creds \ {c} :
       /\ rows[r].status \in Accepted
       /\ \A d \in Creds : rows[d].supersededBy # r
       /\ row = [rows[c] EXCEPT !.status = "superseded", !.supersededBy = r]

RowStep(c, row) == \/ Inserted(c, row) \/ Prepared(c, row) \/ Pinned(c, row)
                   \/ Failed(c, row) \/ Activated(c, row) \/ Revoked(c, row)
                   \/ Superseded(c, row)

Row1 == \E c \in Creds, row \in Row : rows' = [rows EXCEPT ![c] = row] /\ RowStep(c, row)

\* The handlers that do not touch rows.
Reader(w) == \/ IssueSubmit(w) \/ IssueConfirm(w) \/ IssueRespond(w) \/ RevokeSubmit(w)
             \/ RevokeConfirm(w) \/ SupersedeRead(w)

LEMMA HandlerRows ==
  ASSUME IInv, NEW w \in Workers, HandlerStep(w) PROVE UNCHANGED rows \/ Row1
<1> DEFINE c == requests[w].cred
<1> USE DEF IInv, TypeInv
<1>0. /\ rows \in [Creds -> Row] /\ HandlerOK(w)
      /\ requests[w].op # "none" => c \in Creds
  BY DEF TypeOK, Safe, Busy
<1>1. CASE IssueInsert(w)
  <2>1. c \in Creds /\ [NoRow EXCEPT !.status = "processing"] \in Row
    BY <1>0, <1>1, RowTypes DEF IssueInsert, At
  <2> QED
    BY <1>1, <2>1 DEF IssueInsert, Update, Row1, RowStep, Inserted
<1>2. CASE IssuePrepare(w)
  <2>1. c \in Creds /\ [rows[c] EXCEPT !.proof = ProofOf(c)] \in Row
    BY <1>0, <1>2, RowTypes DEF IssuePrepare, At
  <2> QED
    BY <1>2, <2>1 DEF IssuePrepare, Update, Row1, RowStep, Prepared
<1>3. CASE IssueUpload(w)
  <2>1. c \in Creds /\ [rows[c] EXCEPT !.status = "pending", !.cid = TRUE] \in Row
    BY <1>0, <1>3, RowTypes DEF IssueUpload, At
  <2>2. rows[c].proof = ProofOf(c)
    BY <1>0, <1>3 DEF IssueUpload, At, HandlerOK
  <2> QED
    BY <1>3, <2>1, <2>2 DEF IssueUpload, Update, Row1, RowStep, Pinned
<1>4. CASE IssueActivate(w)
  <2>1. c \in Creds /\ requests[w].tx \in TxIds
    BY <1>0, <1>4 DEF IssueActivate, At, Busy
  <2>2. Done(requests[w].tx, "issue", c)
    BY <1>0, <1>4, <2>1 DEF IssueActivate, At, HandlerOK, Done
  <2>3. [rows[c] EXCEPT !.status = "active", !.tx = requests[w].tx] \in Row
    BY <1>0, <2>1, RowTypes
  <2> QED
    BY <1>4, <2>1, <2>2, <2>3 DEF IssueActivate, Activate, Update, Row1, RowStep, Activated
<1>5. CASE IssueFail(w)
  <2>1. c \in Creds /\ [rows[c] EXCEPT !.status = "failed"] \in Row
    BY <1>0, <1>5, RowTypes DEF IssueFail, At
  <2> QED
    BY <1>5, <2>1 DEF IssueFail, MarkFailed, Update, Row1, RowStep, Failed
<1>6. CASE RevokeMark(w)
  <2>1. c \in Creds /\ requests[w].tx \in TxIds
    BY <1>0, <1>6 DEF RevokeMark, At, Busy
  <2>2. Done(requests[w].tx, "revoke", c)
    BY <1>0, <1>6, <2>1 DEF RevokeMark, At, HandlerOK, Done
  <2>3. [rows[c] EXCEPT !.status = "revoked", !.revocationTx = requests[w].tx] \in Row
    BY <1>0, <2>1, RowTypes
  <2> QED
    BY <1>6, <2>1, <2>2, <2>3 DEF RevokeMark, Update, Row1, RowStep, Revoked
<1>7. CASE SupersedeMark(w)
  <2> DEFINE r == requests[w].other
  <2>1. c \in Creds /\ r \in Creds \ {c}
    BY <1>0, <1>7 DEF SupersedeMark, At, Busy
  <2>2. rows[r].status \in Accepted
    BY <1>0, <1>7 DEF SupersedeMark, At, HandlerOK
  <2>3. [rows[c] EXCEPT !.status = "superseded", !.supersededBy = r] \in Row
    BY <1>0, <2>1, RowTypes
  <2> QED
    BY <1>7, <2>1, <2>2, <2>3 DEF SupersedeMark, Update, Row1, RowStep, Superseded
<1>8. CASE Reader(w)
  BY <1>8 DEF Reader, IssueSubmit, IssueConfirm, IssueRespond, RevokeSubmit, RevokeConfirm,
              SupersedeRead
<1> QED
  BY <1>1, <1>2, <1>3, <1>4, <1>5, <1>6, <1>7, <1>8 DEF HandlerStep, Reader

LEMMA ReconcileRows ==
  ASSUME IInv, Reconcile PROVE UNCHANGED rows \/ Row1
<1> USE DEF IInv, TypeInv
<1>0. rows \in [Creds -> Row] /\ rec \in Script /\ ScriptOK
  BY DEF TypeOK, Safe
<1>1. CASE ReconcileSettle
  <2> DEFINE c == rec.cred
  <2>1. c \in Creds
    BY <1>0, <1>1 DEF ReconcileSettle, Script
  <2>2. CASE MarkFailed(c)
    <3>1. [rows[c] EXCEPT !.status = "failed"] \in Row
      BY <1>0, <2>1, RowTypes
    <3> QED
      BY <2>1, <2>2, <3>1 DEF MarkFailed, Update, Row1, RowStep, Failed
  <2>3. CASE rec.event # NoTx /\ Activate(c, rec.event)
    <3>1. rec.event \in TxIds /\ Done(rec.event, "issue", c)
      BY <1>0, <2>3 DEF ScriptOK, Script
    <3>2. [rows[c] EXCEPT !.status = "active", !.tx = rec.event] \in Row
      BY <1>0, <2>1, <3>1, RowTypes
    <3> QED
      BY <2>1, <2>3, <3>1, <3>2 DEF Activate, Update, Row1, RowStep, Activated
  <2> QED
    BY <1>1, <2>2, <2>3 DEF ReconcileSettle
<1>2. CASE ~ReconcileSettle
  BY <1>2 DEF Reconcile, ReconcileStart, ReconcileExamine, ReconcileSkip, ReconcileAbort
<1> QED
  BY <1>1, <1>2

LEMMA RowChange ==
  ASSUME IInv, [Next]_vars PROVE UNCHANGED rows \/ Row1
<1>1. ASSUME NEW w \in Workers, NEW c \in Creds, Arrive(w, c) PROVE UNCHANGED rows
  BY <1>1 DEF Arrive, IssueBegin, RevokeBegin, SupersedeBegin
<1>2. ASSUME NEW t \in TxIds, Mine(t) PROVE UNCHANGED rows
  BY <1>2 DEF Mine
<1>3. CASE ToggleAccepting \/ Crash \/ UNCHANGED vars
  BY <1>3 DEF ToggleAccepting, Crash, vars
<1> QED
  BY <1>1, <1>2, <1>3, HandlerRows, ReconcileRows DEF Next

-------------------------------------------------------------------------------
\* Every way a transaction changes: it is broadcast for a pinned row, or mined.
Submitted(t) ==
  /\ txs[t].state = "unused"
  /\ \E op \in {"issue", "revoke"}, c \in Creds :
       /\ rows[c].cid
       /\ op = "revoke" => rows[c].status \in Accepted
       /\ txs' = [txs EXCEPT ![t] = [op |-> op, anchor |-> Home(c), state |-> "pending"]]
  /\ UNCHANGED <<rows, ledger>>

LEMMA HomeAnchor ==
  ASSUME NEW c \in Creds, rows[c].proof = ProofOf(c) PROVE AnchorOf(rows[c], c) = Home(c)
  BY DEF AnchorOf, Home, ProofOf

LEMMA HomeIsAnchor == \A c \in Creds : Home(c) \in Anchors
  BY DEF Home, Anchors

LEMMA HomeInjective == \A c, d \in Creds : Home(c) = Home(d) => c = d
  BY DEF Home

LEMMA TxChange ==
  ASSUME IInv, [Next]_vars
  PROVE  UNCHANGED <<txs, ledger>> \/ \E t \in TxIds : Submitted(t) \/ Mine(t)
<1> USE DEF IInv, TypeInv
<1>1. ASSUME NEW w \in Workers, IssueSubmit(w) \/ RevokeSubmit(w)
      PROVE  UNCHANGED <<txs, ledger>> \/ \E t \in TxIds : Submitted(t)
  <2> DEFINE c == requests[w].cred
  <2>1. c \in Creds /\ HandlerOK(w) /\ RowOK(c)
    BY <1>1 DEF IssueSubmit, RevokeSubmit, At, Busy, Safe
  <2>2. rows[c].cid /\ (At(w, "revoke", "submit") => rows[c].status \in Accepted)
    BY <1>1, <2>1 DEF IssueSubmit, RevokeSubmit, At, HandlerOK, RowOK
  <2>3. AnchorOf(rows[c], c) = Home(c)
    BY <2>1, <2>2, HomeAnchor DEF RowOK
  <2>4. CASE IssueSubmit(w)
    BY <2>1, <2>2, <2>3, <2>4 DEF IssueSubmit, Broadcast, Submitted
  <2>5. CASE RevokeSubmit(w)
    BY <2>1, <2>2, <2>3, <2>5 DEF RevokeSubmit, Broadcast, Submitted
  <2> QED
    BY <1>1, <2>4, <2>5
<1>2. ASSUME NEW w \in Workers, HandlerStep(w), ~IssueSubmit(w), ~RevokeSubmit(w)
      PROVE  UNCHANGED <<txs, ledger>>
  BY <1>2 DEF HandlerStep, IssueInsert, IssuePrepare, IssueUpload, IssueConfirm, IssueActivate,
              IssueRespond, IssueFail, RevokeConfirm, RevokeMark, SupersedeRead, SupersedeMark
<1>3. ASSUME NEW w \in Workers, NEW c \in Creds, Arrive(w, c) PROVE UNCHANGED <<txs, ledger>>
  BY <1>3 DEF Arrive, IssueBegin, RevokeBegin, SupersedeBegin
<1>4. CASE Reconcile
  BY <1>4 DEF Reconcile, ReconcileStart, ReconcileExamine, ReconcileSettle, ReconcileSkip,
              ReconcileAbort
<1>5. CASE ToggleAccepting \/ Crash \/ UNCHANGED vars
  BY <1>5 DEF ToggleAccepting, Crash, vars
<1> QED
  BY <1>1, <1>2, <1>3, <1>4, <1>5 DEF Next

-------------------------------------------------------------------------------
\* What no step takes back.
RowsGrow == \A c \in Creds :
  /\ rows[c].status # "absent" => rows'[c].status # "absent"
  /\ rows[c].cid => rows'[c].cid
  /\ rows[c].status # "absent" /\ rows[c].proof = ProofOf(c) => rows'[c].proof = ProofOf(c)
  /\ rows[c].status \in Accepted => rows'[c].status \in Accepted

TxsGrow == \A t \in TxIds :
  /\ txs[t].op # "none" => txs'[t].op = txs[t].op /\ txs'[t].anchor = txs[t].anchor
  /\ txs[t].state = "success" => txs'[t] = txs[t]

LedgerGrows == \A a \in Anchors :
  /\ ledger[a] # "absent" => ledger'[a] # "absent"
  /\ ledger[a] = "revoked" => ledger'[a] = "revoked"

LEMMA RowsOnlyGrow == ASSUME IInv, [Next]_vars PROVE RowsGrow
<1> USE DEF IInv, TypeInv
<1>1. CASE UNCHANGED rows
  BY <1>1 DEF RowsGrow
<1>2. ASSUME NEW c \in Creds, NEW row \in Row, rows' = [rows EXCEPT ![c] = row], RowStep(c, row)
      PROVE RowsGrow
  <2>0. rows \in [Creds -> Row] /\ rows[c] \in Row /\ RowOK(c)
    BY DEF TypeOK, Safe
  <2>1. /\ rows[c].status # "absent" => row.status # "absent"
        /\ rows[c].cid => row.cid
        /\ rows[c].status # "absent" /\ rows[c].proof = ProofOf(c) => row.proof = ProofOf(c)
        /\ rows[c].status \in Accepted => row.status \in Accepted
    <3>1. CASE Inserted(c, row)
      BY <2>0, <3>1 DEF Inserted, RowOK, NoRow, Accepted
    <3>2. CASE Prepared(c, row)
      BY <2>0, <3>2 DEF Prepared, Row, Accepted
    <3>3. CASE Pinned(c, row) \/ Failed(c, row)
      BY <2>0, <3>3 DEF Pinned, Failed, Row, Unsettled, Accepted
    <3>4. CASE Activated(c, row)
      BY <2>0, <3>4 DEF Activated, Row, Unsettled, Accepted
    <3>5. CASE Revoked(c, row) \/ Superseded(c, row)
      BY <2>0, <3>5 DEF Revoked, Superseded, Row, Accepted
    <3> QED
      BY <1>2, <3>1, <3>2, <3>3, <3>4, <3>5 DEF RowStep
  <2> QED
    BY <1>2, <2>0, <2>1 DEF RowsGrow
<1> QED
  BY <1>1, <1>2, RowChange DEF Row1

LEMMA TxsOnlyGrow == ASSUME IInv, [Next]_vars PROVE TxsGrow
<1> USE DEF IInv, TypeInv
<1>0. txs \in [TxIds -> Tx] /\ \A t \in TxIds : TxOK(t)
  BY DEF TypeOK, Safe
<1>1. CASE UNCHANGED txs
  BY <1>1 DEF TxsGrow
<1>2. ASSUME NEW t \in TxIds, Submitted(t) PROVE TxsGrow
  BY <1>0, <1>2 DEF Submitted, TxsGrow, TxOK
<1>3. ASSUME NEW t \in TxIds, Mine(t) PROVE TxsGrow
  BY <1>0, <1>3 DEF Mine, TxsGrow, Tx
<1> QED
  BY <1>1, <1>2, <1>3, TxChange

LEMMA LedgerOnlyGrows == ASSUME IInv, [Next]_vars PROVE LedgerGrows
<1>1. CASE UNCHANGED ledger
  BY <1>1 DEF LedgerGrows
<1>2. ASSUME NEW t \in TxIds, Mine(t) PROVE LedgerGrows
  <2>1. /\ Effect(t) # "none" => Effect(t) \in {"issued", "revoked"}
        /\ Effect(t) = "issued" => ledger[txs[t].anchor] = "absent"
    BY DEF Effect
  <2> QED
    BY <1>2, <2>1 DEF Mine, LedgerGrows, IInv, TypeInv, TypeOK
<1> QED
  BY <1>1, <1>2, TxChange DEF Submitted

-------------------------------------------------------------------------------
\* The parts of the invariant, one lemma each.
StillDone(t, op, c) == /\ t \in TxIds
                       /\ txs'[t].op = op
                       /\ txs'[t].anchor = Home(c)
                       /\ txs'[t].state = "success"

LEMMA DoneStays ==
  ASSUME IInv, [Next]_vars
  PROVE  \A t, op, c : Done(t, op, c) => StillDone(t, op, c)
  BY TxsOnlyGrow DEF TxsGrow, Done, StillDone

LEMMA RowsPreserved ==
  ASSUME IInv, [Next]_vars, NEW d \in Creds PROVE RowOK(d)'
<1> USE DEF IInv, TypeInv
<1>0. /\ rows \in [Creds -> Row] /\ RowOK(d)
      /\ RowsGrow
  BY RowsOnlyGrow DEF TypeOK, Safe
<1>1. CASE rows'[d] = rows[d]
  <2>1. rows[d].status \in Accepted => StillDone(rows[d].tx, "issue", d)
    BY <1>0, DoneStays DEF RowOK
  <2>2. rows[d].status = "revoked" => StillDone(rows[d].revocationTx, "revoke", d)
    BY <1>0, DoneStays DEF RowOK
  <2>4. rows[d].status = "superseded" =>
          rows[d].supersededBy \in Creds \ {d}
          /\ rows'[rows[d].supersededBy].status \in Accepted
    BY <1>0 DEF RowOK, RowsGrow
  <2> QED
    BY <1>0, <1>1, <2>1, <2>2, <2>4 DEF RowOK, Done, StillDone, Home
<1>2. ASSUME NEW row \in Row, rows' = [rows EXCEPT ![d] = row], RowStep(d, row)
      PROVE RowOK(d)'
  <2>0. rows'[d] = row /\ rows[d] \in Row /\ \A e \in Creds \ {d} : rows'[e] = rows[e]
    BY <1>0, <1>2
  <2>1. CASE Inserted(d, row)
    BY <2>0, <2>1 DEF Inserted, RowOK, NoRow, Accepted
  <2>2. CASE Prepared(d, row)
    BY <1>0, <2>0, <2>2 DEF Prepared, RowOK, Row, Accepted
  <2>3. CASE Pinned(d, row) \/ Failed(d, row)
    BY <1>0, <2>0, <2>3 DEF Pinned, Failed, RowOK, Row, Accepted, Unsettled
  <2>4. CASE Activated(d, row)
    <3>1. PICK t \in TxIds : Done(t, "issue", d)
                             /\ row = [rows[d] EXCEPT !.status = "active", !.tx = t]
      BY <2>4 DEF Activated
    <3>2. StillDone(t, "issue", d)
      BY <3>1, DoneStays
    <3>3. /\ row.status = "active" /\ row.cid /\ row.tx = t
          /\ row.proof = ProofOf(d) /\ row.supersededBy = NoCred
          /\ row.revocationTx = NoTx
      BY <1>0, <2>0, <2>4, <3>1 DEF Activated, RowOK, Row, Unsettled
    <3> QED
      BY <2>0, <3>2, <3>3 DEF RowOK, Accepted, Done, StillDone, Home
  <2>5. CASE Revoked(d, row)
    <3>1. PICK t \in TxIds : /\ Done(t, "revoke", d)
                             /\ row = [rows[d] EXCEPT !.status = "revoked",
                                                      !.revocationTx = t]
      BY <2>5 DEF Revoked
    <3>2. StillDone(t, "revoke", d) /\ StillDone(rows[d].tx, "issue", d)
      BY <1>0, <2>5, <3>1, DoneStays DEF RowOK, Revoked, Accepted
    <3>3. /\ row.status = "revoked" /\ row.cid /\ row.tx = rows[d].tx
          /\ row.revocationTx = t
          /\ row.proof = ProofOf(d) /\ row.supersededBy = NoCred
      BY <1>0, <2>0, <2>5, <3>1 DEF Revoked, RowOK, Row, Accepted
    <3> QED
      BY <2>0, <3>2, <3>3 DEF RowOK, Accepted, Done, StillDone, Home
  <2>6. CASE Superseded(d, row)
    <3>1. PICK r \in Creds \ {d} :
            /\ rows[r].status \in Accepted
            /\ row = [rows[d] EXCEPT !.status = "superseded", !.supersededBy = r]
      BY <2>6 DEF Superseded
    <3>2. StillDone(rows[d].tx, "issue", d)
      BY <1>0, <2>6, DoneStays DEF RowOK, Superseded, Accepted
    <3>3. /\ row.status = "superseded" /\ row.cid /\ row.tx = rows[d].tx
          /\ row.proof = ProofOf(d) /\ row.supersededBy = r
          /\ row.revocationTx = NoTx
      BY <1>0, <2>0, <2>6, <3>1 DEF Superseded, RowOK, Row, Accepted
    <3>4. rows'[r].status \in Accepted
      BY <2>0, <3>1
    <3> QED
      BY <2>0, <3>2, <3>3, <3>4 DEF RowOK, Accepted, Done, StillDone, Home
  <2> QED
    BY <1>2, <2>1, <2>2, <2>3, <2>4, <2>5, <2>6 DEF RowStep
<1>3. ASSUME NEW c \in Creds \ {d}, NEW row, rows' = [rows EXCEPT ![c] = row]
      PROVE RowOK(d)'
  BY <1>0, <1>1, <1>3
<1> QED
  BY <1>1, <1>2, <1>3, RowChange DEF Row1

LEMMA TxsPreserved ==
  ASSUME IInv, [Next]_vars, NEW u \in TxIds PROVE TxOK(u)'
<1> USE DEF IInv, TypeInv
<1>0. /\ txs \in [TxIds -> Tx] /\ TxOK(u) /\ RowsGrow /\ LedgerGrows
      /\ ledger \in [Anchors -> {"absent", "issued", "revoked"}]
  BY RowsOnlyGrow, LedgerOnlyGrows DEF TypeOK, Safe
<1>1. CASE txs'[u] = txs[u]
  <2>1. txs[u].op # "none" => txs[u].anchor \in Anchors
    BY <1>0, HomeIsAnchor DEF TxOK
  <2>2. \A c \in Creds : Home(c)' = Home(c)
    BY DEF Home
  <2> QED
    BY <1>0, <1>1, <2>1, <2>2 DEF TxOK, RowsGrow, LedgerGrows
<1>2. CASE Submitted(u)
  BY <1>0, <1>2 DEF Submitted, TxOK, Home
<1>3. CASE Mine(u)
  <2>1. txs[u].op # "none" /\ txs[u].anchor \in Anchors
    BY <1>0, <1>3, HomeIsAnchor DEF Mine, TxOK
  <2>2. /\ txs'[u].op = txs[u].op /\ txs'[u].anchor = txs[u].anchor
        /\ txs'[u].state # "unused"
        /\ txs'[u].state = "success" => /\ Effect(u) # "none"
                                        /\ ledger'[txs[u].anchor] = Effect(u)
    BY <1>0, <1>3, <2>1 DEF Mine, Tx
  <2>3. /\ Effect(u) # "none" /\ txs[u].op = "issue" => Effect(u) = "issued"
        /\ Effect(u) # "none" /\ txs[u].op = "revoke" => Effect(u) = "revoked"
    BY DEF Effect
  <2>4. \A c \in Creds : Home(c)' = Home(c)
    BY DEF Home
  <2> QED
    BY <1>0, <2>1, <2>2, <2>3, <2>4 DEF TxOK, RowsGrow
<1>4. ASSUME NEW t \in TxIds \ {u}, Submitted(t) \/ Mine(t) PROVE TxOK(u)'
  <2>1. txs'[u] = txs[u]
    BY <1>0, <1>4 DEF Submitted, Mine
  <2> QED
    BY <1>1, <2>1
<1> QED
  BY <1>1, <1>2, <1>3, <1>4, TxChange

LEMMA LedgerPreserved ==
  ASSUME IInv, [Next]_vars, NEW a \in Anchors PROVE LedgerOK(a)'
<1> USE DEF IInv, TypeInv
<1>0. /\ LedgerOK(a) /\ RowsGrow /\ a.cred \in Creds
      /\ ledger \in [Anchors -> {"absent", "issued", "revoked"}]
  BY RowsOnlyGrow DEF TypeOK, Safe, Anchors
<1>1. CASE ledger'[a] = ledger[a]
  BY <1>0, <1>1 DEF LedgerOK, RowsGrow, Home
<1>2. ASSUME NEW t \in TxIds, Mine(t), txs[t].anchor = a PROVE LedgerOK(a)'
  <2>1. TxOK(t) /\ txs[t].op # "none"
    BY <1>2 DEF Safe, Mine, TxOK
  <2>2. a = Home(a.cred) /\ rows[a.cred].cid
    BY <1>2, <2>1 DEF TxOK, Home
  <2>3. txs[t].op = "revoke" => rows[a.cred].status \in Accepted
    BY <1>2, <2>1 DEF TxOK, Home
  <2>4. ledger'[a] = ledger[a]
        \/ (ledger'[a] = Effect(t) /\ (Effect(t) = "revoked" => txs[t].op = "revoke"))
    BY <1>0, <1>2 DEF Mine, Effect
  <2>5. rows' = rows
    BY <1>2 DEF Mine
  <2> QED
    BY <1>0, <2>2, <2>3, <2>4, <2>5 DEF LedgerOK, Home
<1>3. ASSUME NEW t \in TxIds, Mine(t), txs[t].anchor # a PROVE LedgerOK(a)'
  <2>1. ledger'[a] = ledger[a]
    BY <1>0, <1>3 DEF Mine
  <2> QED
    BY <1>1, <2>1
<1> QED
  BY <1>1, <1>2, <1>3, TxChange DEF Submitted

\* A handler moves only by a step of its own, or dies with the process.
LEMMA OwnSteps ==
  ASSUME IInv, [Next]_vars, NEW v \in Workers
  PROVE  \/ requests'[v] = requests[v]
         \/ requests'[v] = Idle
         \/ \E c \in Creds : Arrive(v, c)
         \/ HandlerStep(v)
<1>0. requests \in [Workers -> Request]
  BY DEF IInv, TypeInv, TypeOK
<1>1. ASSUME NEW w \in Workers \ {v}, NEW c \in Creds, Arrive(w, c)
      PROVE requests'[v] = requests[v]
  BY <1>0, <1>1 DEF Arrive, IssueBegin, RevokeBegin, SupersedeBegin
<1>2. ASSUME NEW w \in Workers \ {v}, HandlerStep(w) PROVE requests'[v] = requests[v]
  BY <1>0, <1>2 DEF HandlerStep, IssueInsert, IssuePrepare, IssueUpload, IssueSubmit,
       IssueConfirm, IssueActivate, IssueRespond, IssueFail, RevokeSubmit, RevokeConfirm,
       RevokeMark, SupersedeRead, SupersedeMark, Goto, End
<1>3. ASSUME NEW t \in TxIds, Mine(t) PROVE requests' = requests
  BY <1>3 DEF Mine
<1>4. CASE Reconcile
  BY <1>4 DEF Reconcile, ReconcileStart, ReconcileExamine, ReconcileSettle, ReconcileSkip,
              ReconcileAbort
<1>5. CASE ToggleAccepting \/ UNCHANGED vars
  BY <1>5 DEF ToggleAccepting, vars
<1>6. CASE Crash
  BY <1>6 DEF Crash, EndAll
<1> QED
  BY <1>1, <1>2, <1>3, <1>4, <1>5, <1>6 DEF Next

LEMMA HandlersPreserved ==
  ASSUME IInv, [Next]_vars, NEW v \in Workers PROVE HandlerOK(v)'
<1> USE DEF IInv, TypeInv
<1> DEFINE c == requests[v].cred
<1>0. /\ requests \in [Workers -> Request] /\ rows \in [Creds -> Row] /\ txs \in [TxIds -> Tx]
      /\ HandlerOK(v) /\ RowsGrow /\ TxsGrow
      /\ requests[v].op # "none" => c \in Creds
      /\ requests[v].step = "confirm" => requests[v].tx \in TxIds
      /\ requests[v].step \in {"activate", "mark"} /\ requests[v].op # "supersede"
           => requests[v].tx \in TxIds
      /\ requests[v].op = "supersede" /\ requests[v].step = "mark" => requests[v].other \in Creds
  BY RowsOnlyGrow, TxsOnlyGrow DEF TypeOK, Safe, Busy
<1>1. CASE requests'[v] = requests[v]
  <2>1. \A d : Home(d)' = Home(d) /\ ProofOf(d)' = ProofOf(d)
    BY DEF Home, ProofOf
  <2> QED
    BY <1>0, <1>1, <2>1 DEF HandlerOK, RowsGrow, TxsGrow
<1>2. CASE requests'[v] = Idle
  BY <1>2 DEF HandlerOK, Idle
<1>3. ASSUME NEW d \in Creds, Arrive(v, d) PROVE HandlerOK(v)'
  <2>1. /\ requests'[v].cred = d /\ rows' = rows
        /\ \/ requests'[v].op = "issue" /\ requests'[v].step = "insert"
           \/ /\ rows[d].status = "active"
              /\ \/ requests'[v].op = "revoke" /\ requests'[v].step = "submit"
                 \/ requests'[v].op = "supersede" /\ requests'[v].step = "replacement"
    <3>1. CASE IssueBegin(v, d)
      BY <1>0, <3>1 DEF IssueBegin, Idle
    <3>2. CASE RevokeBegin(v, d)
      BY <1>0, <3>2 DEF RevokeBegin, Idle
    <3>3. CASE SupersedeBegin(v, d)
      BY <1>0, <3>3 DEF SupersedeBegin, Idle
    <3> QED
      BY <1>3, <3>1, <3>2, <3>3 DEF Arrive
  <2> QED
    BY <2>1 DEF HandlerOK, Accepted
<1>4. CASE HandlerStep(v)
  <2>1. CASE IssueInsert(v)
    <3>1. At(v, "issue", "insert") /\ c \in Creds
      BY <1>0, <2>1 DEF IssueInsert, At
    <3>2. CASE /\ rows' = [rows EXCEPT ![c] = [NoRow EXCEPT !.status = "processing"]]
               /\ Goto(v, "prepare")
      <4>1. rows'[c].status # "absent"
        BY <1>0, <3>1, <3>2 DEF NoRow
      <4> QED
        BY <1>0, <3>1, <3>2, <4>1, GotoEffect DEF At, HandlerOK, Steps
    <3> QED
      BY <1>0, <1>2, <2>1, <3>2, EndEffect DEF IssueInsert, Update
  <2>2. CASE IssuePrepare(v)
    <3>1. At(v, "issue", "prepare") /\ c \in Creds /\ rows[c].status # "absent"
      BY <1>0, <2>2 DEF IssuePrepare, At, HandlerOK
    <3>2. CASE Goto(v, "fail")
      BY <1>0, <3>1, <3>2, GotoEffect DEF At, HandlerOK, Steps, RowsGrow
    <3>3. CASE /\ rows' = [rows EXCEPT ![c] = [rows[c] EXCEPT !.proof = ProofOf(c)]]
               /\ Goto(v, "upload")
      <4>1. rows'[c].proof = ProofOf(c)
        BY <1>0, <3>1, <3>3 DEF Row
      <4> QED
        BY <1>0, <3>1, <3>3, <4>1, GotoEffect DEF At, HandlerOK, Steps, RowsGrow, ProofOf
    <3> QED
      BY <2>2, <3>2, <3>3 DEF IssuePrepare, Update
  <2>3. CASE IssueUpload(v)
    <3>1. At(v, "issue", "upload") /\ c \in Creds /\ rows[c].status # "absent"
      BY <1>0, <2>3 DEF IssueUpload, At, HandlerOK
    <3>2. CASE Goto(v, "fail")
      BY <1>0, <3>1, <3>2, GotoEffect DEF At, HandlerOK, Steps, RowsGrow
    <3>3. CASE /\ rows' = [rows EXCEPT ![c] = [rows[c] EXCEPT !.status = "pending",
                                                              !.cid = TRUE]]
               /\ Goto(v, "submit")
      <4>1. rows'[c].cid
        BY <1>0, <3>1, <3>3 DEF Row
      <4> QED
        BY <1>0, <3>1, <3>3, <4>1, GotoEffect DEF At, HandlerOK, Steps, RowsGrow
    <3> QED
      BY <2>3, <3>2, <3>3 DEF IssueUpload, Update
  <2>4. CASE IssueSubmit(v)
    <3>1. /\ At(v, "issue", "submit") /\ c \in Creds /\ rows[c].cid
          /\ rows[c].status # "absent" /\ rows' = rows
      BY <1>0, <2>4 DEF IssueSubmit, At, HandlerOK
    <3>2. AnchorOf(rows[c], c) = Home(c)
      BY <3>1, HomeAnchor DEF Safe, RowOK
    <3>3. CASE Goto(v, "fail")
      BY <1>0, <3>1, <3>3, GotoEffect DEF At, HandlerOK, Steps
    <3>4. ASSUME NEW t \in TxIds, Broadcast(t, "issue", Home(c)),
                 requests' = [requests EXCEPT ![v].step = "confirm", ![v].tx = t]
          PROVE HandlerOK(v)'
      <4>1. txs'[t].op = "issue" /\ txs'[t].anchor = Home(c)
        BY <1>0, <3>4 DEF Broadcast
      <4>2. /\ requests'[v].op = "issue" /\ requests'[v].step = "confirm"
            /\ requests'[v].cred = c /\ requests'[v].tx = t
        BY <1>0, <3>1, <3>4, WaitEffect DEF At
      <4> QED
        BY <3>1, <4>1, <4>2 DEF HandlerOK, Home
    <3> QED
      BY <2>4, <3>2, <3>3, <3>4 DEF IssueSubmit
  <2>5. CASE IssueConfirm(v)
    <3>1. At(v, "issue", "confirm") /\ UNCHANGED <<rows, txs>> /\ c \in Creds
      BY <1>0, <2>5 DEF IssueConfirm, At
    <3> QED
      BY <1>0, <2>5, <3>1, GotoEffect DEF IssueConfirm, At, HandlerOK, Steps, Home
  <2>6. CASE IssueActivate(v) \/ IssueRespond(v)
    <3>1. /\ requests[v].op = "issue" /\ requests[v].step # "insert" /\ c \in Creds
      BY <1>0, <2>6 DEF IssueActivate, IssueRespond, At
    <3>2. rows'[c].status # "absent"
      BY <1>0, <3>1 DEF HandlerOK, RowsGrow
    <3>3. requests'[v] = Idle \/ Goto(v, "respond") \/ Goto(v, "fail")
      BY <1>0, <2>6, EndEffect DEF IssueActivate, IssueRespond
    <3> QED
      BY <1>0, <1>2, <3>1, <3>2, <3>3, GotoEffect DEF HandlerOK, Steps
  <2>7. CASE IssueFail(v) \/ RevokeMark(v) \/ SupersedeMark(v)
    BY <1>0, <1>2, <2>7, EndEffect DEF IssueFail, RevokeMark, SupersedeMark
  <2>8. CASE RevokeSubmit(v)
    <3>1. /\ At(v, "revoke", "submit") /\ c \in Creds /\ rows[c].status \in Accepted
          /\ rows' = rows
      BY <1>0, <2>8 DEF RevokeSubmit, At, HandlerOK
    <3>2. AnchorOf(rows[c], c) = Home(c)
      BY <3>1, HomeAnchor DEF Safe, RowOK
    <3>3. ASSUME NEW t \in TxIds, Broadcast(t, "revoke", Home(c)),
                 requests' = [requests EXCEPT ![v].step = "confirm", ![v].tx = t]
          PROVE HandlerOK(v)'
      <4>1. txs'[t].op = "revoke" /\ txs'[t].anchor = Home(c)
        BY <1>0, <3>3 DEF Broadcast
      <4>2. /\ requests'[v].op = "revoke" /\ requests'[v].step = "confirm"
            /\ requests'[v].cred = c /\ requests'[v].tx = t
        BY <1>0, <3>1, <3>3, WaitEffect DEF At
      <4> QED
        BY <3>1, <4>1, <4>2 DEF HandlerOK, Home
    <3> QED
      BY <1>0, <1>2, <2>8, <3>2, <3>3, EndEffect DEF RevokeSubmit
  <2>9. CASE RevokeConfirm(v)
    <3>1. At(v, "revoke", "confirm") /\ UNCHANGED <<rows, txs>> /\ c \in Creds
      BY <1>0, <2>9 DEF RevokeConfirm, At
    <3>2. CASE txs[requests[v].tx].state = "success" /\ Goto(v, "mark")
      BY <1>0, <3>1, <3>2, GotoEffect DEF At, HandlerOK, Steps, Home, Accepted
    <3> QED
      BY <1>0, <1>2, <2>9, <3>2, EndEffect DEF RevokeConfirm
  <2>11. CASE SupersedeRead(v)
    <3>1. At(v, "supersede", "replacement") /\ rows' = rows /\ c \in Creds
      BY <1>0, <2>11 DEF SupersedeRead, At
    <3>2. ASSUME NEW r \in Creds \ {c}, rows[r].status = "active",
                 requests' = [requests EXCEPT ![v].step = "mark", ![v].other = r]
          PROVE HandlerOK(v)'
      BY <1>0, <3>1, <3>2, MarkEffect DEF At, HandlerOK, Accepted
    <3> QED
      BY <1>0, <1>2, <2>11, <3>2, EndEffect DEF SupersedeRead
  <2> QED
    BY <1>4, <2>1, <2>2, <2>3, <2>4, <2>5, <2>6, <2>7, <2>8, <2>9, <2>11 DEF HandlerStep
<1> QED
  BY <1>1, <1>2, <1>3, <1>4, OwnSteps

LEMMA ScriptPreserved == ASSUME IInv, [Next]_vars PROVE ScriptOK'
<1> USE DEF IInv, TypeInv
<1>0. /\ ScriptOK /\ rec \in Script /\ rows \in [Creds -> Row] /\ RowsGrow
      /\ \A c \in Creds : RowOK(c)
  BY RowsOnlyGrow DEF TypeOK, Safe
<1>1. ASSUME \/ rec' = rec
             \/ rec' = RecIdle
             \/ rec' = [rec EXCEPT !.cred = NoCred, !.event = NoTx]
             \/ \E i \in Item : rec' = [rec EXCEPT !.todo = @ \ {i}]
      PROVE  ScriptOK'
  <2>1. /\ rec'.todo \subseteq rec.todo
        /\ rec'.cred = NoCred \/ rec'.cred = rec.cred
        /\ rec'.event = NoTx \/ (rec'.event = rec.event /\ rec'.cred = rec.cred)
    <3>1. CASE rec' = rec \/ rec' = RecIdle
      BY <1>0, <3>1 DEF RecIdle
    <3>2. CASE rec' = [rec EXCEPT !.cred = NoCred, !.event = NoTx]
      BY <1>0, <3>2 DEF Script
    <3>3. ASSUME NEW i \in Item, rec' = [rec EXCEPT !.todo = @ \ {i}]
          PROVE  /\ rec'.todo \subseteq rec.todo
                 /\ rec'.cred = rec.cred
                 /\ rec'.event = rec.event
      BY <1>0, <3>3 DEF Script
    <3> QED
      BY <1>1, <3>1, <3>2, <3>3
  <2>2. rec.event # NoTx => StillDone(rec.event, "issue", rec.cred)
    BY <1>0, DoneStays DEF ScriptOK
  <2>3. \A i \in rec'.todo : rows'[i.cred].cid
    BY <1>0, <2>1 DEF ScriptOK, RowsGrow, Script, Item
  <2>4. rec'.cred # NoCred => rows'[rec'.cred].cid
    BY <1>0, <2>1 DEF ScriptOK, RowsGrow, Script
  <2> QED
    BY <1>0, <2>1, <2>2, <2>3, <2>4 DEF ScriptOK, Done, StillDone, Home
<1>2. CASE ReconcileStart
  <2>1. /\ rec' = [RecIdle EXCEPT !.todo = Stale] /\ rows' = rows
    BY <1>2 DEF ReconcileStart
  <2> QED
    BY <2>1 DEF RecIdle, Stale, ScriptOK
<1>3. ASSUME NEW i \in Item, ReconcileExamine(i) PROVE ScriptOK'
  <2> DEFINE rest == [rec EXCEPT !.todo = @ \ {i}]
  <2>0. /\ i \in rec.todo /\ UNCHANGED <<rows, txs>> /\ i.cred \in Creds
        /\ rec.cred = NoCred /\ rec.event = NoTx
    BY <1>0, <1>3 DEF ReconcileExamine, Item, ScriptOK
  <2>1. rows[i.cred].cid /\ AnchorOf(rows[i.cred], i.cred) = Home(i.cred)
    BY <1>0, <2>0, HomeAnchor DEF ScriptOK, RowOK
  <2>2. ASSUME NEW t \in TxIds, IssuanceEvent(Home(i.cred), t),
               rec' = [rest EXCEPT !.cred = i.cred, !.event = t]
        PROVE  ScriptOK'
    <3>1. /\ rec'.todo \subseteq rec.todo /\ rec'.cred = i.cred /\ rec'.event = t
      BY <1>0, <2>2 DEF Script
    <3>2. Done(t, "issue", i.cred)
      BY <2>2 DEF IssuanceEvent, Done
    <3>3. i.cred # NoCred
      BY <2>0
    <3> QED
      BY <1>0, <2>0, <2>1, <3>1, <3>2, <3>3 DEF ScriptOK, Done, Home
  <2>3. CASE rec' = [rest EXCEPT !.cred = i.cred]
    <3>1. /\ rec'.todo \subseteq rec.todo /\ rec'.cred = i.cred /\ rec'.event = NoTx
      BY <1>0, <2>0, <2>3 DEF Script
    <3> QED
      BY <1>0, <2>0, <2>1, <3>1 DEF ScriptOK
  <2> QED
    BY <1>1, <1>3, <2>1, <2>2, <2>3 DEF ReconcileExamine
<1>4. CASE ReconcileSettle \/ ReconcileSkip \/ ReconcileAbort
  <2>1. rec.todo \subseteq Item
    BY <1>0 DEF Script
  <2> QED
    BY <1>1, <1>4, <2>1 DEF ReconcileSettle, ReconcileSkip, ReconcileAbort
<1>5. CASE ~Reconcile
  <2>1. rec' = rec
    BY <1>5 DEF Next, vars, Arrive, IssueBegin, RevokeBegin, SupersedeBegin, HandlerStep,
         IssueInsert, IssuePrepare, IssueUpload, IssueSubmit, IssueConfirm, IssueActivate,
         IssueRespond, IssueFail, RevokeSubmit, RevokeConfirm, RevokeMark, SupersedeRead,
         SupersedeMark, Mine, ToggleAccepting, Crash
  <2> QED
    BY <1>1, <2>1
<1> QED
  BY <1>2, <1>3, <1>4, <1>5 DEF Reconcile

LEMMA OriginalsPreserved == ASSUME IInv, [Next]_vars PROVE OneOriginal'
<1> USE DEF IInv, TypeInv
<1>0. rows \in [Creds -> Row] /\ OneOriginal /\ \A c \in Creds : RowOK(c)
  BY DEF TypeOK, Safe
<1>1. CASE UNCHANGED rows
  BY <1>0, <1>1 DEF OneOriginal
<1>2. ASSUME NEW c \in Creds, NEW row \in Row, rows' = [rows EXCEPT ![c] = row],
             RowStep(c, row)
      PROVE OneOriginal'
  <2>0. rows'[c] = row /\ rows[c] \in Row /\ \A e \in Creds \ {c} : rows'[e] = rows[e]
    BY <1>0, <1>2
  <2>1. CASE Inserted(c, row)
    BY <1>0, <2>0, <2>1 DEF Inserted, NoRow, OneOriginal
  <2>2. CASE Superseded(c, row)
    <3>1. PICK r \in Creds \ {c} : /\ \A d \in Creds : rows[d].supersededBy # r
                                   /\ row.supersededBy = r
      BY <2>0, <2>2 DEF Superseded, Row
    <3> QED
      BY <1>0, <2>0, <3>1 DEF OneOriginal
  <2>3. CASE Prepared(c, row) \/ Pinned(c, row) \/ Failed(c, row) \/ Activated(c, row)
             \/ Revoked(c, row)
    <3>1. row.supersededBy = rows[c].supersededBy
      BY <2>0, <2>3 DEF Prepared, Pinned, Failed, Activated, Revoked, Row
    <3> QED
      BY <1>0, <2>0, <3>1 DEF OneOriginal
  <2> QED
    BY <1>2, <2>1, <2>2, <2>3 DEF RowStep
<1> QED
  BY <1>1, <1>2, RowChange DEF Row1

\* Who may still submit an issuance, and for what.
Issuing(w) == requests[w].op = "issue" /\ requests[w].step # "insert"
Preparing(w) == requests[w].op = "issue" /\ requests[w].step \in {"prepare", "upload", "submit"}

LEMMA IssuingStep ==
  ASSUME IInv, [Next]_vars, NEW w \in Workers, Issuing(w)'
  PROVE  /\ requests'[w].cred = requests[w].cred /\ requests[w].cred \in Creds
         /\ Issuing(w) \/ (IssueInsert(w) /\ rows[requests[w].cred].status = "absent")
         /\ Preparing(w)' => Preparing(w) \/ IssueInsert(w)
         /\ IssueSubmit(w) => Preparing(w)
<1> USE DEF IInv, TypeInv
<1>0. /\ requests \in [Workers -> Request]
      /\ requests[w].op # "none" => requests[w].cred \in Creds
  BY DEF TypeOK, Busy
<1>1. CASE requests'[w] = requests[w]
  <2>1. Issuing(w) /\ (Preparing(w)' => Preparing(w))
    BY <1>1 DEF Issuing, Preparing
  <2>2. IssueSubmit(w) => Preparing(w)
    BY DEF IssueSubmit, At, Preparing
  <2> QED
    BY <1>0, <1>1, <2>1, <2>2 DEF Issuing
<1>2. requests'[w] # Idle
  BY DEF Issuing, Idle
<1>3. ASSUME NEW d \in Creds, Arrive(w, d) PROVE FALSE
  <2>1. CASE IssueBegin(w, d)
    BY <1>0, <2>1 DEF IssueBegin, Idle, Issuing
  <2>2. CASE RevokeBegin(w, d)
    BY <1>0, <2>2 DEF RevokeBegin, Idle, Issuing
  <2>3. CASE SupersedeBegin(w, d)
    BY <1>0, <2>3 DEF SupersedeBegin, Idle, Issuing
  <2> QED
    BY <1>3, <2>1, <2>2, <2>3 DEF Arrive
<1>4. CASE HandlerStep(w)
  <2>1. CASE IssueInsert(w)
    BY <1>0, <1>2, <2>1, GotoEffect, EndEffect
       DEF IssueInsert, Update, At, Steps, IssueSubmit
  <2>2. CASE IssuePrepare(w) \/ IssueUpload(w) \/ IssueConfirm(w) \/ IssueActivate(w)
             \/ IssueRespond(w) \/ IssueFail(w)
    BY <1>0, <1>2, <2>2, GotoEffect, EndEffect
       DEF IssuePrepare, IssueUpload, IssueConfirm, IssueActivate, IssueRespond, IssueFail,
           At, Steps, Issuing, Preparing, IssueSubmit
  <2>3. CASE IssueSubmit(w)
    BY <1>0, <2>3, GotoEffect, WaitEffect DEF IssueSubmit, At, Steps, Issuing, Preparing
  <2>4. CASE RevokeSubmit(w) \/ RevokeConfirm(w) \/ RevokeMark(w)
    BY <1>0, <1>2, <2>4, GotoEffect, WaitEffect, EndEffect
       DEF RevokeSubmit, RevokeConfirm, RevokeMark, At, Steps, Issuing
  <2>5. CASE SupersedeRead(w) \/ SupersedeMark(w)
    BY <1>0, <1>2, <2>5, MarkEffect, EndEffect
       DEF SupersedeRead, SupersedeMark, At, Issuing
  <2> QED
    BY <1>4, <2>1, <2>2, <2>3, <2>4, <2>5 DEF HandlerStep
<1> QED
  BY <1>1, <1>2, <1>3, <1>4, OwnSteps

\* An issuance that was not there before is the one its handler just submitted.
LEMMA NewIssuance ==
  ASSUME IInv, [Next]_vars, NEW t \in TxIds, txs'[t].op = "issue"
  PROVE  \/ txs[t].op = "issue" /\ txs'[t].anchor = txs[t].anchor
         \/ \E v \in Workers :
              /\ IssueSubmit(v) /\ Preparing(v)
              /\ txs'[t].anchor = Home(requests[v].cred)
              /\ ~Preparing(v)'
              /\ \A u \in TxIds \ {t} : txs'[u] = txs[u]
<1> USE DEF IInv, TypeInv
<1>0. txs \in [TxIds -> Tx] /\ requests \in [Workers -> Request] /\ TxsGrow
  BY TxsOnlyGrow DEF TypeOK
<1>1. CASE txs[t].op # "none"
  BY <1>0, <1>1 DEF TxsGrow
<1>2. ASSUME NEW v \in Workers, IssueSubmit(v), txs[t].op = "none"
      PROVE  /\ Preparing(v)
             /\ txs'[t].anchor = Home(requests[v].cred)
             /\ ~Preparing(v)'
             /\ \A u \in TxIds \ {t} : txs'[u] = txs[u]
  <2> DEFINE c == requests[v].cred
  <2>1. c \in Creds /\ HandlerOK(v) /\ RowOK(c) /\ Preparing(v)
    BY <1>2 DEF IssueSubmit, At, Busy, Safe, Preparing
  <2>2. AnchorOf(rows[c], c) = Home(c)
    BY <1>2, <2>1, HomeAnchor DEF IssueSubmit, At, HandlerOK, RowOK
  <2>3. PICK x \in TxIds : Broadcast(x, "issue", Home(c))
    BY <1>2, <2>2 DEF IssueSubmit
  <2>4. x = t
    BY <1>0, <1>2, <2>3 DEF Broadcast
  <2>5. txs'[t].anchor = Home(c) /\ \A u \in TxIds \ {t} : txs'[u] = txs[u]
    BY <1>0, <2>3, <2>4 DEF Broadcast
  <2>6. requests'[v].step \in {"confirm", "fail"}
    BY <1>0, <1>2, GotoEffect, WaitEffect DEF IssueSubmit, Steps
  <2> QED
    BY <2>1, <2>5, <2>6 DEF Preparing
<1>3. ASSUME NEW v \in Workers, RevokeSubmit(v), txs[t].op = "none" PROVE FALSE
  BY <1>0, <1>3 DEF RevokeSubmit, Broadcast
<1>4. ASSUME NEW v \in Workers, HandlerStep(v), ~IssueSubmit(v), ~RevokeSubmit(v)
      PROVE  UNCHANGED txs
  BY <1>4 DEF HandlerStep, IssueInsert, IssuePrepare, IssueUpload, IssueConfirm, IssueActivate,
              IssueRespond, IssueFail, RevokeConfirm, RevokeMark, SupersedeRead, SupersedeMark
<1>5. ASSUME NEW x \in TxIds, Mine(x), txs[t].op = "none" PROVE FALSE
  <2>1. txs'[t].op = txs[t].op
    BY <1>0, <1>5 DEF Mine, Tx
  <2> QED
    BY <1>5, <2>1
<1>6. ASSUME NEW w \in Workers, NEW c \in Creds, Arrive(w, c) PROVE UNCHANGED txs
  BY <1>6 DEF Arrive, IssueBegin, RevokeBegin, SupersedeBegin
<1>7. CASE Reconcile \/ ToggleAccepting \/ Crash \/ UNCHANGED vars
  BY <1>7 DEF Reconcile, ReconcileStart, ReconcileExamine, ReconcileSettle, ReconcileSkip,
              ReconcileAbort, ToggleAccepting, Crash, vars
<1> QED
  BY <1>1, <1>2, <1>3, <1>4, <1>5, <1>6, <1>7 DEF Next

LEMMA IssuersPreserved == ASSUME IInv, [Next]_vars PROVE OneIssuer'
<1> USE DEF IInv, TypeInv
<1>0. /\ requests \in [Workers -> Request]
      /\ \A w \in Workers : HandlerOK(w)
      /\ \A c \in Creds : RowOK(c)
      /\ \A t \in TxIds : TxOK(t)
  BY DEF TypeOK, Safe
<1>1. ASSUME NEW v \in Workers, NEW w \in Workers, Issuing(v)', Issuing(w)',
             requests'[v].cred = requests'[w].cred, v # w
      PROVE  FALSE
  <2>1. \A x \in {v, w} : Issuing(x) => rows[requests[x].cred].status # "absent"
    BY <1>0 DEF HandlerOK, Issuing
  <2>2. requests[v].cred = requests[w].cred
    BY <1>1, IssuingStep
  <2>3. ~(Issuing(v) /\ Issuing(w))
    BY <1>1, <2>2 DEF OneIssuer, Issuing
  <2>4. ~(IssueInsert(v) /\ IssueInsert(w))
    BY <1>0, <1>1, GotoEffect, EndEffect DEF IssueInsert, At, Issuing, Steps
  <2> QED
    BY <1>1, <2>1, <2>2, <2>3, <2>4, IssuingStep
<1>2. ASSUME NEW w \in Workers, NEW t \in TxIds, Preparing(w)', txs'[t].op = "issue",
             txs'[t].anchor = Home(requests'[w].cred)
      PROVE  FALSE
  <2> DEFINE c == requests[w].cred
  <2>1. /\ Issuing(w)' /\ requests'[w].cred = c /\ c \in Creds
        /\ Preparing(w) \/ (IssueInsert(w) /\ rows[c].status = "absent")
    <3>1. Issuing(w)'
      BY <1>2 DEF Issuing, Preparing
    <3>2. Preparing(w) /\ IssueInsert(w) => FALSE
      BY DEF Preparing, IssueInsert, At
    <3>3. Issuing(w) /\ IssueInsert(w) => FALSE
      BY DEF Issuing, IssueInsert, At
    <3> QED
      BY <1>2, <3>1, <3>2, <3>3, IssuingStep
  <2>2. CASE txs[t].op = "issue" /\ txs'[t].anchor = txs[t].anchor
    <3>1. ~Preparing(w)
      BY <1>2, <2>1, <2>2 DEF OneIssuer, Preparing
    <3>2. rows[c].cid
      BY <1>0, <1>2, <2>1, <2>2, HomeInjective DEF TxOK
    <3> QED
      BY <1>0, <2>1, <3>1, <3>2 DEF RowOK, NoRow
  <2>3. ASSUME NEW v \in Workers, IssueSubmit(v), Preparing(v), ~Preparing(v)',
               txs'[t].anchor = Home(requests[v].cred), txs'[t] # txs[t]
        PROVE  FALSE
    <3>1. requests[v].cred = c
      <4>1. requests[v].cred \in Creds
        BY <2>3 DEF Busy, Preparing
      <4> QED
        BY <1>2, <2>1, <2>3, <4>1, HomeInjective
    <3>2. Preparing(w)
      BY <2>1, <2>3 DEF IssueInsert
    <3> QED
      BY <1>2, <2>3, <3>1, <3>2 DEF OneIssuer, Preparing
  <2> QED
    BY <1>2, <2>2, <2>3, NewIssuance
<1>3. ASSUME NEW t \in TxIds, NEW u \in TxIds, t # u, txs'[t].op = "issue",
             txs'[u].op = "issue", txs'[t].anchor = txs'[u].anchor
      PROVE  FALSE
  <2>1. ASSUME NEW x \in TxIds, NEW y \in TxIds \ {x}, txs'[x].anchor = txs'[y].anchor,
               txs'[y].op = "issue",
               NEW v \in Workers, Preparing(v), txs'[x].anchor = Home(requests[v].cred),
               \A z \in TxIds \ {x} : txs'[z] = txs[z]
        PROVE  FALSE
    BY <2>1 DEF OneIssuer, Preparing
  <2> QED
    BY <1>3, <2>1, NewIssuance DEF OneIssuer, NeverResubmitted
<1> QED
  <2>1. \A w \in Workers : Home(requests[w].cred)' = Home(requests'[w].cred)
    BY DEF Home
  <2> QED
    BY <1>1, <1>2, <1>3, <2>1 DEF OneIssuer, NeverResubmitted, Issuing, Preparing

-------------------------------------------------------------------------------
LEMMA InvInit == Init => IInv
<1> SUFFICES ASSUME Init PROVE IInv
  OBVIOUS
<1>1. TypeInv
  BY TypeInit
<1>2. Safe
  <2>1. ASSUME NEW c \in Creds PROVE RowOK(c)
    BY DEF Init, RowOK, NoRow, Accepted
  <2>2. ASSUME NEW t \in TxIds PROVE TxOK(t)
    BY DEF Init, TxOK, NoTxSubmitted
  <2>3. ASSUME NEW a \in Anchors PROVE LedgerOK(a)
    BY DEF Init, LedgerOK
  <2>4. ASSUME NEW w \in Workers PROVE HandlerOK(w)
    BY DEF Init, HandlerOK, Idle
  <2>5. ScriptOK
    BY DEF Init, ScriptOK, RecIdle
  <2> QED
    BY <2>1, <2>2, <2>3, <2>4, <2>5 DEF Safe
<1>3. OneOriginal
  BY DEF Init, OneOriginal, NoRow
<1>4. OneIssuer
  BY DEF Init, OneIssuer, NeverResubmitted, Idle, NoTxSubmitted
<1> QED
  BY <1>1, <1>2, <1>3, <1>4 DEF IInv

LEMMA InvStep == IInv /\ [Next]_vars => IInv'
<1> SUFFICES ASSUME IInv, [Next]_vars PROVE IInv'
  OBVIOUS
<1>1. TypeInv'
  BY TypeStep DEF IInv
<1>2. Safe'
  BY RowsPreserved, TxsPreserved, LedgerPreserved, HandlersPreserved, ScriptPreserved DEF Safe
<1> QED
  BY <1>1, <1>2, OriginalsPreserved, IssuersPreserved DEF IInv

LEMMA Invariant == Spec => []IInv
  BY InvInit, InvStep, PTL DEF Spec

\* Every row that was ever activated has its CID and names the transaction that
\* anchored it, by whichever path it became active.
THEOREM ActiveAnchored == Spec => []ActiveIsAnchored
<1>1. IInv => ActiveIsAnchored
  <2> SUFFICES ASSUME IInv, NEW c \in Creds, rows[c].status \in Accepted
               PROVE  /\ rows[c].cid
                      /\ ledger[AnchorOf(rows[c], c)] # "absent"
                      /\ \E t \in TxIds : /\ rows[c].tx = t
                                          /\ txs[t].op = "issue"
                                          /\ txs[t].anchor = AnchorOf(rows[c], c)
                                          /\ txs[t].state = "success"
    BY DEF ActiveIsAnchored
  <2>1. rows[c].cid /\ Done(rows[c].tx, "issue", c) /\ AnchorOf(rows[c], c) = Home(c)
    BY HomeAnchor DEF IInv, Safe, RowOK
  <2>2. ledger[Home(c)] # "absent"
    BY <2>1 DEF IInv, Safe, TxOK, Done
  <2> QED
    BY <2>1, <2>2 DEF Done
<1> QED
  BY <1>1, Invariant, PTL

\* A row says revoked only after the ledger does.
THEOREM RevokedOnChain == Spec => []RevokedIsRevokedOnChain
<1>1. IInv => RevokedIsRevokedOnChain
  <2> SUFFICES ASSUME IInv, NEW c \in Creds, rows[c].status = "revoked"
               PROVE  /\ ledger[AnchorOf(rows[c], c)] = "revoked"
                      /\ \E t \in TxIds : /\ rows[c].revocationTx = t
                                          /\ txs[t].op = "revoke"
                                          /\ txs[t].anchor = AnchorOf(rows[c], c)
                                          /\ txs[t].state = "success"
    BY DEF RevokedIsRevokedOnChain
  <2>1. /\ rows[c].cid /\ Done(rows[c].revocationTx, "revoke", c)
        /\ AnchorOf(rows[c], c) = Home(c)
    BY HomeAnchor DEF IInv, Safe, RowOK, Accepted
  <2>2. ledger[Home(c)] = "revoked"
    BY <2>1 DEF IInv, Safe, TxOK, Done
  <2> QED
    BY <2>1, <2>2 DEF Done
<1> QED
  BY <1>1, Invariant, PTL

\* No anchor is ever submitted for issuance twice.
THEOREM NoResubmission == Spec => []NeverResubmitted
<1>1. IInv => NeverResubmitted
  BY DEF IInv, OneIssuer
<1> QED
  BY <1>1, Invariant, PTL

\* Whatever was submitted is about a row with its CID, which is what the
\* reconciliation selects by: a row that was left without one, and that nothing
\* will settle, has lost nothing on the chain.
THEOREM SubmittedIsSelectable ==
  Spec => [](\A t \in TxIds : txs[t].op # "none" =>
               \E c \in Creds : txs[t].anchor = AnchorOf(rows[c], c) /\ rows[c].cid)
<1>1. IInv => \A t \in TxIds : txs[t].op # "none" =>
                \E c \in Creds : txs[t].anchor = AnchorOf(rows[c], c) /\ rows[c].cid
  <2> SUFFICES ASSUME IInv, NEW t \in TxIds, txs[t].op # "none"
               PROVE  \E c \in Creds : txs[t].anchor = AnchorOf(rows[c], c) /\ rows[c].cid
    OBVIOUS
  <2>1. PICK c \in Creds : txs[t].anchor = Home(c) /\ rows[c].cid
    BY DEF IInv, Safe, TxOK
  <2> QED
    BY <2>1, HomeAnchor DEF IInv, Safe, RowOK
<1> QED
  BY <1>1, Invariant, PTL

-------------------------------------------------------------------------------
(* Corrections.  That rings are overtaken corrections follows from what a     *)
(* request about to update still knows of the replacement it has read.        *)

\* A superseded row does not change again.
LEMMA SupersededStays ==
  ASSUME IInv, [Next]_vars, NEW c \in Creds, rows[c].status = "superseded"
  PROVE  rows'[c] = rows[c]
<1>1. ASSUME NEW d \in Creds, NEW row \in Row, rows' = [rows EXCEPT ![d] = row], RowStep(d, row)
      PROVE  rows'[c] = rows[c]
  <2>1. rows[d].status # "superseded"
    BY <1>1 DEF RowStep, Inserted, Prepared, Pinned, Failed, Activated, Revoked, Superseded,
                Unsettled
  <2> QED
    BY <1>1, <2>1
<1> QED
  BY <1>1, RowChange DEF Row1

\* The other updates leave another status.
LEMMA OtherStatus ==
  ASSUME rows \in [Creds -> Row], NEW d \in Creds
  PROVE  /\ [NoRow EXCEPT !.status = "processing"].status # "superseded"
         /\ [rows[d] EXCEPT !.status = "pending", !.cid = TRUE].status # "superseded"
         /\ [rows[d] EXCEPT !.status = "failed"].status # "superseded"
<1>1. rows[d] \in Row
  OBVIOUS
<1> QED
  BY <1>1 DEF Row, NoRow

\* A row is superseded by a request that was about to do that, and alone.
LEMMA WhoSupersedes ==
  ASSUME IInv, [Next]_vars, NEW c \in Creds,
         rows[c].status # "superseded", rows'[c].status = "superseded"
  PROVE  \E w \in Workers : /\ At(w, "supersede", "mark")
                            /\ requests[w].cred = c
                            /\ requests[w].other = rows'[c].supersededBy
                            /\ \A d \in Creds \ {c} : rows'[d] = rows[d]
<1>0. rows \in [Creds -> Row] /\ rows[c] \in Row
  BY DEF IInv, TypeInv, TypeOK
<1>1. ASSUME NEW d \in Creds, NEW row, rows' = [rows EXCEPT ![d] = row],
             row.status # "superseded"
      PROVE  FALSE
  BY <1>0, <1>1
<1>2. ASSUME NEW w \in Workers, HandlerStep(w)
      PROVE  /\ At(w, "supersede", "mark")
             /\ requests[w].cred = c
             /\ requests[w].other = rows'[c].supersededBy
             /\ \A d \in Creds \ {c} : rows'[d] = rows[d]
  <2> DEFINE b == requests[w].cred
  <2>0. requests[w].op # "none" => b \in Creds /\ rows[b] \in Row
    BY DEF IInv, TypeInv, TypeOK, Busy
  <2>1. rows' # rows
    OBVIOUS
  <2>2. ~IssueInsert(w) /\ ~IssueUpload(w) /\ ~IssueFail(w)
    BY <1>0, <1>1, <2>0, <2>1, OtherStatus
       DEF IssueInsert, IssueUpload, IssueFail, MarkFailed, Update, At
  <2>3. ~IssuePrepare(w)
    BY <1>0, <2>0, <2>1 DEF IssuePrepare, Update, At, Row
  <2>4. ASSUME IssueActivate(w) PROVE FALSE
    <3> DEFINE row == [rows[b] EXCEPT !.status = "active", !.tx = requests[w].tx]
    <3>1. b \in Creds /\ rows' = [rows EXCEPT ![b] = row]
      BY <2>0, <2>1, <2>4 DEF IssueActivate, Activate, Update, At
    <3>2. row.status = "active"
      BY <2>0, <3>1 DEF Row
    <3> QED
      BY <1>1, <3>1, <3>2
  <2>11. ASSUME RevokeMark(w) PROVE FALSE
    <3> DEFINE row == [rows[b] EXCEPT !.status = "revoked", !.revocationTx = requests[w].tx]
    <3>1. b \in Creds /\ rows' = [rows EXCEPT ![b] = row]
      BY <2>0, <2>1, <2>11 DEF RevokeMark, Update, At
    <3>2. row.status = "revoked"
      BY <2>0, <3>1 DEF Row
    <3> QED
      BY <1>1, <3>1, <3>2
  <2>5. SupersedeMark(w)
    BY <1>2, <2>1, <2>2, <2>3, <2>4, <2>11
       DEF HandlerStep, IssueSubmit, IssueConfirm, IssueRespond, RevokeSubmit, RevokeConfirm,
           SupersedeRead
  <2>6. rows' = [rows EXCEPT ![b] = [rows[b] EXCEPT !.status = "superseded",
                                                    !.supersededBy = requests[w].other]]
    BY <2>1, <2>5 DEF SupersedeMark, Update
  <2>7. At(w, "supersede", "mark") /\ b \in Creds
    BY <2>0, <2>5 DEF SupersedeMark, At
  <2>8. b = c
    BY <2>6
  <2>9. rows'[c].supersededBy = requests[w].other
    BY <1>0, <2>6, <2>8 DEF Row
  <2> QED
    BY <1>0, <2>6, <2>7, <2>8, <2>9
<1>3. ~Reconcile
  <2>1. CASE ReconcileSettle
    <3>1. rec.cred \in Creds
      BY <2>1 DEF IInv, TypeInv, TypeOK, Script, ReconcileSettle
    <3>2. ~MarkFailed(rec.cred)
      BY <1>0, <1>1, <3>1, OtherStatus DEF MarkFailed, Update
    <3>3. ASSUME Activate(rec.cred, rec.event) PROVE FALSE
      <4> DEFINE row == [rows[rec.cred] EXCEPT !.status = "active", !.tx = rec.event]
      <4>1. rows' = [rows EXCEPT ![rec.cred] = row]
        BY <3>3 DEF Activate, Update
      <4>2. row.status = "active"
        BY <1>0, <3>1 DEF Row
      <4> QED
        BY <1>1, <3>1, <4>1, <4>2
    <3> QED
      BY <2>1, <3>2, <3>3 DEF ReconcileSettle
  <2>2. CASE ~ReconcileSettle
    BY <2>2 DEF Reconcile, ReconcileStart, ReconcileExamine, ReconcileSkip, ReconcileAbort
  <2> QED
    BY <2>1, <2>2
<1>4. ASSUME NEW w \in Workers, NEW d \in Creds, Arrive(w, d) PROVE FALSE
  BY <1>4 DEF Arrive, IssueBegin, RevokeBegin, SupersedeBegin
<1>5. ASSUME NEW t \in TxIds, Mine(t) PROVE FALSE
  BY <1>5 DEF Mine
<1>6. ~(ToggleAccepting \/ Crash \/ UNCHANGED vars)
  BY DEF ToggleAccepting, Crash, vars
<1> QED
  BY <1>2, <1>3, <1>4, <1>5, <1>6 DEF Next

\* A request comes to its update from the read of an active replacement.
LEMMA WhoIsAboutTo ==
  ASSUME IInv, [Next]_vars, NEW w \in Workers,
         requests'[w].op = "supersede", requests'[w].step = "mark",
         requests'[w] # requests[w]
  PROVE  UNCHANGED rows /\ rows[requests'[w].other].status = "active"
<1>0. requests \in [Workers -> Request]
  BY DEF IInv, TypeInv, TypeOK
<1>1. ASSUME NEW c \in Creds, Arrive(w, c) PROVE FALSE
  BY <1>0, <1>1 DEF Arrive, IssueBegin, RevokeBegin, SupersedeBegin, Idle
<1>2. requests'[w] # Idle
  BY DEF Idle
<1>3. HandlerStep(w)
  BY <1>1, <1>2, OwnSteps
<1>4. CASE SupersedeRead(w)
  BY <1>0, <1>2, <1>4, MarkEffect DEF SupersedeRead, End
<1>5. CASE ~SupersedeRead(w)
  <2>1. requests[w].op = "issue" \/ requests[w].op = "revoke" \/ End(w)
    BY <1>3, <1>5 DEF HandlerStep, At, IssueInsert, IssuePrepare, IssueUpload, IssueSubmit,
         IssueConfirm, IssueActivate, IssueRespond, IssueFail, RevokeSubmit, RevokeConfirm,
         RevokeMark, SupersedeMark
  <2>2. requests'[w].op = requests[w].op \/ requests'[w] = Idle
    BY <1>0, <1>3, <1>5, GotoEffect, EndEffect, WaitEffect
       DEF HandlerStep, IssueInsert, IssuePrepare, IssueUpload, IssueSubmit, IssueConfirm,
           IssueActivate, IssueRespond, IssueFail, RevokeSubmit, RevokeConfirm, RevokeMark,
           SupersedeMark, Steps
  <2> QED
    BY <1>0, <1>2, <2>1, <2>2, EndEffect
<1> QED
  BY <1>4, <1>5

\* What a request about to supersede knows: its replacement has not been superseded
\* since, unless the correction was noted or somebody else made it.
Counting(w) ==
  requests[w].op = "supersede" /\ requests[w].step = "mark" =>
    \/ rows[requests[w].other].status # "superseded"
    \/ rows[requests[w].cred].status = "superseded"
    \/ <<requests[w].cred, requests[w].other>> \in overtaken

Rings == \A Ring \in (SUBSET Corrected) \ {{}} :
           \E c \in Ring : \/ rows[c].supersededBy \notin Ring
                           \/ <<c, rows[c].supersededBy>> \in overtaken

CInv == IInv /\ (\A w \in Workers : Counting(w)) /\ Rings

LEMMA CountingPreserved ==
  ASSUME CInv, [Next]_vars, overtaken \subseteq overtaken', Overtake \/ UNCHANGED rows,
         NEW w \in Workers
  PROVE  Counting(w)'
<1> DEFINE c == requests[w].cred
           r == requests[w].other
<1> SUFFICES ASSUME requests'[w].op = "supersede", requests'[w].step = "mark"
             PROVE  Counting(w)'
  BY DEF Counting
<1>1. CASE requests'[w] # requests[w]
  BY <1>1, WhoIsAboutTo DEF Counting, CInv
<1>2. CASE requests'[w] = requests[w]
  <2>1. c \in Creds /\ r \in Creds
    BY <1>2 DEF CInv, IInv, TypeInv, Busy
  <2>2. CASE rows[c].status = "superseded"
    BY <1>2, <2>1, <2>2, SupersededStays DEF Counting, CInv
  <2>3. CASE <<c, r>> \in overtaken
    BY <1>2, <2>3 DEF Counting
  <2>4. CASE rows[c].status # "superseded" /\ rows[r].status # "superseded"
    <3>1. CASE rows'[r].status # "superseded"
      BY <1>2, <3>1 DEF Counting
    <3>2. CASE rows'[r].status = "superseded"
      <4>1. Overtakes(<<c, r>>) /\ Overtake
        BY <1>2, <2>4, <3>2 DEF Overtakes, At
      <4>2. <<c, r>> \in overtaken'
        BY <2>1, <4>1 DEF Overtake
      <4> QED
        BY <1>2, <4>2 DEF Counting
    <3> QED
      BY <3>1, <3>2
  <2> QED
    BY <1>2, <2>2, <2>3, <2>4 DEF CInv, Counting
<1> QED
  BY <1>1, <1>2

LEMMA RingsPreserved ==
  ASSUME CInv, [Next]_vars, overtaken \subseteq overtaken'
  PROVE  Rings'
<1> SUFFICES ASSUME NEW Ring \in SUBSET Corrected', Ring # {}
             PROVE  \E c \in Ring : \/ rows'[c].supersededBy \notin Ring
                                    \/ <<c, rows'[c].supersededBy>> \in overtaken'
  BY DEF Rings
<1>0. IInv /\ Ring \subseteq Creds /\ \A c \in Ring : rows'[c].status = "superseded"
  <2>1. \A c \in Ring : c \in Corrected'
    OBVIOUS
  <2> QED
    BY <2>1 DEF CInv, Corrected
<1>1. CASE Ring \subseteq Corrected
  <2>1. PICK c \in Ring : \/ rows[c].supersededBy \notin Ring
                         \/ <<c, rows[c].supersededBy>> \in overtaken
    BY <1>1 DEF CInv, Rings
  <2>2. rows'[c] = rows[c]
    BY <1>0, <1>1, SupersededStays DEF Corrected
  <2> QED
    BY <2>1, <2>2
<1>2. CASE ~(Ring \subseteq Corrected)
  <2>1. PICK c \in Ring : rows[c].status # "superseded"
    BY <1>0, <1>2 DEF Corrected
  <2>2. PICK w \in Workers : /\ At(w, "supersede", "mark")
                            /\ requests[w].cred = c
                            /\ requests[w].other = rows'[c].supersededBy
                            /\ \A d \in Creds \ {c} : rows'[d] = rows[d]
    BY <1>0, <2>1, WhoSupersedes
  <2> DEFINE r == requests[w].other
  <2>3. CASE r \notin Ring
    BY <2>2, <2>3
  <2>4. CASE r \in Ring
    <3>1. r \in Creds \ {c}
      BY <1>0, <2>2 DEF At, IInv, TypeInv, Busy
    <3>2. rows[r].status = "superseded"
      BY <1>0, <2>2, <2>4, <3>1
    <3>3. Counting(w)
      BY DEF CInv
    <3>4. <<c, r>> \in overtaken
      BY <2>1, <2>2, <3>2, <3>3 DEF Counting, At
    <3> QED
      BY <2>2, <3>4
  <2> QED
    BY <2>3, <2>4
<1> QED
  BY <1>1, <1>2

\* A replacement was accepted once and replaces one other credential, and there
\* are no rings of corrections without one that was overtaken.
THEOREM CorrectionsChain == CorrectionsSpec => []CorrectionsAreChains
<1>1. Init /\ overtaken = {} => CInv
  <2> SUFFICES ASSUME Init PROVE CInv
    OBVIOUS
  <2>1. IInv
    BY InvInit
  <2>2. \A w \in Workers : Counting(w)
    BY DEF Init, Counting, Idle
  <2>3. Rings
    BY DEF Init, Corrected, NoRow, Rings
  <2> QED
    BY <2>1, <2>2, <2>3 DEF CInv
<1>2. CInv /\ [Next /\ Overtake]_<<vars, overtaken>> => CInv'
  <2> SUFFICES ASSUME CInv, [Next /\ Overtake]_<<vars, overtaken>> PROVE CInv'
    OBVIOUS
  <2>1. /\ [Next]_vars /\ overtaken \subseteq overtaken'
        /\ Overtake \/ UNCHANGED rows
    BY DEF Overtake, vars
  <2>2. IInv'
    BY <2>1, InvStep DEF CInv
  <2> QED
    BY <2>1, <2>2, CountingPreserved, RingsPreserved DEF CInv
<1>3. CInv => CorrectionsAreChains
  <2> SUFFICES ASSUME CInv, NEW c \in Corrected
               PROVE  /\ rows[rows[c].supersededBy].status \in Accepted
                      /\ \A d \in Corrected :
                           rows[d].supersededBy = rows[c].supersededBy => d = c
    BY DEF CorrectionsAreChains, CInv, Rings
  <2>1. c \in Creds /\ RowOK(c) /\ rows[c].status = "superseded"
    BY DEF CInv, IInv, Safe, Corrected
  <2>2. rows[c].supersededBy \in Creds /\ rows[rows[c].supersededBy].status \in Accepted
    BY <2>1 DEF RowOK
  <2> QED
    BY <2>1, <2>2 DEF CInv, IInv, OneOriginal, Corrected
<1> QED
  BY <1>1, <1>2, <1>3, PTL DEF CorrectionsSpec

-------------------------------------------------------------------------------
\* CID, anchor and transaction references are written once.
THEOREM EvidenceNeverOverwritten == Spec => EvidenceWrittenOnce
<1> DEFINE Kept == \A c \in Creds :
       /\ rows[c].cid => /\ rows'[c].cid
                         /\ AnchorOf(rows'[c], c) = AnchorOf(rows[c], c)
       /\ rows[c].tx # NoTx => rows'[c].tx = rows[c].tx
       /\ rows[c].revocationTx # NoTx => rows'[c].revocationTx = rows[c].revocationTx
       /\ rows[c].supersededBy # NoCred => rows'[c].supersededBy = rows[c].supersededBy
<1>1. IInv /\ [Next]_vars => Kept
  <2> SUFFICES ASSUME IInv, [Next]_vars PROVE Kept
    OBVIOUS
  <2>1. CASE UNCHANGED rows
    BY <2>1
  <2>2. ASSUME NEW c \in Creds, NEW row \in Row, rows' = [rows EXCEPT ![c] = row],
               RowStep(c, row)
        PROVE  Kept
    <3>0. /\ rows \in [Creds -> Row] /\ rows[c] \in Row /\ RowOK(c)
          /\ rows'[c] = row /\ \A d \in Creds \ {c} : rows'[d] = rows[d]
      BY <2>2 DEF IInv, TypeInv, TypeOK, Safe
    <3>1. /\ rows[c].cid => row.cid /\ row.proof = rows[c].proof
          /\ rows[c].tx # NoTx => row.tx = rows[c].tx
          /\ rows[c].revocationTx # NoTx => row.revocationTx = rows[c].revocationTx
          /\ rows[c].supersededBy # NoCred => row.supersededBy = rows[c].supersededBy
      <4>1. CASE Inserted(c, row)
        BY <3>0, <4>1 DEF Inserted, RowOK, NoRow
      <4>2. CASE Prepared(c, row) \/ Pinned(c, row) \/ Failed(c, row)
        BY <3>0, <4>2 DEF Prepared, Pinned, Failed, RowOK, Row
      <4>3. CASE Activated(c, row)
        BY <3>0, <4>3 DEF Activated, RowOK, Row, Unsettled, Accepted
      <4>4. CASE Revoked(c, row)
        BY <3>0, <4>4 DEF Revoked, RowOK, Row
      <4>5. CASE Superseded(c, row)
        BY <3>0, <4>5 DEF Superseded, RowOK, Row
      <4> QED
        BY <2>2, <4>1, <4>2, <4>3, <4>4, <4>5 DEF RowStep
    <3> QED
      BY <3>0, <3>1 DEF AnchorOf
  <2> QED
    BY <2>1, <2>2, RowChange DEF Row1
<1>2. IInv /\ [Next]_vars => [Kept]_vars
  BY <1>1
<1> QED
  BY <1>2, Invariant, PTL DEF Spec, EvidenceWrittenOnce

-------------------------------------------------------------------------------
(* Refinement: every step is a step of CredentialTrust or leaves the public  *)
(* life of every credential alone.                                           *)
RecordMap == [c \in Creds |-> RecordOf(rows[c].status)]
ProofMap == [c \in Creds |-> ledger[AnchorOf([NoRow EXCEPT !.proof = ProofOf(c)], c)]]

LEMMA ProofMapHome == \A c \in Creds : AnchorOf([NoRow EXCEPT !.proof = ProofOf(c)], c) = Home(c)
  BY DEF AnchorOf, NoRow, ProofOf, Home

LEMMA RowsRefine ==
  ASSUME IInv, [Next]_vars, UNCHANGED ledger,
         NEW c \in Creds, NEW row \in Row, rows' = [rows EXCEPT ![c] = row], RowStep(c, row)
  PROVE  [Trust!Next]_(Trust!vars)
<1> USE DEF IInv, TypeInv
<1>0. /\ rows \in [Creds -> Row] /\ rows[c] \in Row /\ RowOK(c) /\ LedgerOK(Home(c))
      /\ \A t \in TxIds : TxOK(t)
      /\ ledger \in [Anchors -> {"absent", "issued", "revoked"}]
  BY HomeIsAnchor DEF TypeOK, Safe
<1>1. ProofMap' = ProofMap
  BY DEF ProofMap, ProofOf, AnchorOf, NoRow
<1>2. RecordMap' = [RecordMap EXCEPT ![c] = RecordOf(row.status)]
  <2>1. \A s : RecordOf(s)' = RecordOf(s)
    BY DEF RecordOf, Unsettled
  <2>2. rows' = [d \in Creds |-> IF d = c THEN row ELSE rows[d]]
    BY <1>0
  <2>3. RecordMap' = [d \in Creds |-> RecordOf(rows'[d].status)]
    BY DEF RecordMap, RecordOf, Unsettled
  <2>4. \A d \in Creds : RecordOf(rows'[d].status)
                         = IF d = c THEN RecordOf(row.status) ELSE RecordOf(rows[d].status)
    BY <2>2
  <2> QED
    BY <2>3, <2>4 DEF RecordMap
<1>3. RecordMap[c] = RecordOf(rows[c].status) /\ ProofMap[c] = ledger[Home(c)]
  BY ProofMapHome DEF RecordMap, ProofMap
<1> USE DEF Trust!Next, Trust!vars, Trust!To, RecordMap, ProofMap
<1>4. CASE Inserted(c, row)
  <2>1. RecordOf(rows[c].status) = "none" /\ RecordOf(row.status) = "issuing"
    BY <1>4 DEF Inserted, RecordOf, NoRow, Unsettled
  <2> QED
    BY <1>1, <1>2, <1>3, <2>1 DEF Trust!Begin
<1>5. CASE Prepared(c, row) \/ Pinned(c, row)
  <2>1. RecordOf(rows[c].status) = RecordOf(row.status)
    BY <1>0, <1>5 DEF Prepared, Pinned, RecordOf, Unsettled, Row
  <2> QED
    BY <1>1, <1>2, <1>3, <2>1
<1>6. CASE Failed(c, row)
  <2>1. RecordOf(rows[c].status) = "issuing" /\ RecordOf(row.status) = "failed"
    BY <1>0, <1>6 DEF Failed, RecordOf, Unsettled, Row
  <2> QED
    BY <1>1, <1>2, <1>3, <2>1 DEF Trust!Reject
<1>7. CASE Activated(c, row)
  <2>1. RecordOf(rows[c].status) = "issuing" /\ RecordOf(row.status) = "valid"
    BY <1>0, <1>7 DEF Activated, RecordOf, Unsettled, Row
  <2>2. ledger[Home(c)] = "issued"
    <3>1. ledger[Home(c)] # "absent"
      BY <1>0, <1>7 DEF Activated, Done, TxOK
    <3>2. ledger[Home(c)] # "revoked"
      BY <1>0, <1>7 DEF Activated, LedgerOK, Home, Unsettled, Accepted
    <3> QED
      BY <1>0, <3>1, <3>2, HomeIsAnchor
  <2> QED
    BY <1>1, <1>2, <1>3, <2>1, <2>2 DEF Trust!Accept
<1>8. CASE Revoked(c, row)
  <2>1. RecordOf(rows[c].status) = "valid" /\ RecordOf(row.status) = "revoked"
    BY <1>0, <1>8 DEF Revoked, RecordOf, Unsettled, Row
  <2>2. ledger[Home(c)] = "revoked"
    BY <1>0, <1>8 DEF Revoked, Done, TxOK
  <2> QED
    BY <1>1, <1>2, <1>3, <2>1, <2>2 DEF Trust!RecordRevocation
<1>9. CASE Superseded(c, row)
  <2>1. RecordOf(rows[c].status) = "valid" /\ RecordOf(row.status) = "superseded"
    BY <1>0, <1>9 DEF Superseded, RecordOf, Unsettled, Row
  <2> QED
    BY <1>1, <1>2, <1>3, <2>1 DEF Trust!Supersede
<1> QED
  BY <1>4, <1>5, <1>6, <1>7, <1>8, <1>9 DEF RowStep

LEMMA MineRefines ==
  ASSUME IInv, NEW t \in TxIds, Mine(t) PROVE [Trust!Next]_(Trust!vars)
<1> USE DEF IInv, TypeInv
<1>0. /\ TxOK(t) /\ txs[t].op # "none" /\ rows' = rows
      /\ ledger \in [Anchors -> {"absent", "issued", "revoked"}]
  BY DEF Mine, TypeOK, Safe, TxOK
<1>1. PICK c \in Creds : txs[t].anchor = Home(c) /\ rows[c].cid
  BY <1>0 DEF TxOK
<1>2. RecordMap' = RecordMap
  BY <1>0 DEF RecordMap, RecordOf, Unsettled
<1>3. RecordMap[c] = RecordOf(rows[c].status) /\ ProofMap[c] = ledger[Home(c)]
  BY ProofMapHome DEF RecordMap, ProofMap
<1>4. CASE UNCHANGED ledger
  BY <1>2, <1>4 DEF Trust!vars, ProofMap, RecordMap, AnchorOf, NoRow, ProofOf
<1>5. CASE Effect(t) # "none" /\ ledger' = [ledger EXCEPT ![Home(c)] = Effect(t)]
  <2>1. ProofMap' = [ProofMap EXCEPT ![c] = Effect(t)]
    <3>1. \A d \in Creds : ledger'[Home(d)] = IF d = c THEN Effect(t) ELSE ledger[Home(d)]
      BY <1>0, <1>5, HomeIsAnchor, HomeInjective
    <3>2. ProofMap = [d \in Creds |-> ledger[Home(d)]]
      BY ProofMapHome DEF ProofMap
    <3>3. ProofMap' = [d \in Creds |-> ledger'[Home(d)]]
      BY ProofMapHome DEF ProofMap, Home, AnchorOf, NoRow, ProofOf
    <3> QED
      BY <3>1, <3>2, <3>3
  <2>2. CASE txs[t].op = "issue"
    <3>1. Effect(t) = "issued" /\ ledger[Home(c)] = "absent"
      BY <1>1, <1>5, <2>2 DEF Effect
    <3>2. rows[c].status \notin Accepted /\ rows[c].status # "absent"
      BY <1>1, <3>1 DEF Safe, RowOK, Done, TxOK, NoRow
    <3>3. RecordOf(rows[c].status) \in {"issuing", "failed"}
      BY <3>2 DEF RecordOf, Accepted, Unsettled, TypeOK, Row, Statuses
    <3> QED
      BY <1>2, <1>3, <2>1, <3>1, <3>3
         DEF Trust!Next, Trust!Anchor, Trust!vars, ProofMap, RecordMap
  <2>3. CASE txs[t].op # "issue"
    <3>1. txs[t].op = "revoke" /\ Effect(t) = "revoked" /\ ledger[Home(c)] = "issued"
      BY <1>0, <1>1, <1>5, <2>3 DEF Effect, TypeOK, Tx
    <3>2. rows[c].status \in Accepted
      BY <1>0, <1>1, <3>1, HomeInjective DEF TxOK
    <3>3. rows[c].status # "revoked"
      BY <3>1 DEF Safe, RowOK, Done, TxOK
    <3>4. RecordOf(rows[c].status) \in {"valid", "superseded"}
      BY <3>2, <3>3 DEF RecordOf, Accepted, Unsettled
    <3> QED
      BY <1>2, <1>3, <2>1, <3>1, <3>4
         DEF Trust!Next, Trust!Withdraw, Trust!vars, ProofMap, RecordMap
  <2> QED
    BY <2>2, <2>3
<1> QED
  BY <1>1, <1>4, <1>5 DEF Mine

\* The lifecycle implements the abstract promise about each credential.
THEOREM LifecycleImplementsTrust == Spec => ImplementsTrust
<1>1. Init => Trust!Init
  <2> SUFFICES ASSUME Init PROVE RecordMap = [c \in Creds |-> "none"]
                                 /\ ProofMap = [c \in Creds |-> "absent"]
    BY DEF Trust!Init, RecordMap, ProofMap
  <2>1. \A c \in Creds : RecordOf(rows[c].status) = "none"
    BY DEF Init, NoRow, RecordOf, Unsettled
  <2>2. \A c \in Creds : ledger[Home(c)] = "absent"
    BY HomeIsAnchor DEF Init
  <2>3. ProofMap = [c \in Creds |-> ledger[Home(c)]]
    BY ProofMapHome DEF ProofMap
  <2> QED
    BY <2>1, <2>2, <2>3 DEF RecordMap
<1>2. IInv /\ [Next]_vars => [Trust!Next]_(Trust!vars)
  <2> SUFFICES ASSUME IInv, [Next]_vars PROVE [Trust!Next]_(Trust!vars)
    OBVIOUS
  <2>1. CASE UNCHANGED <<rows, ledger>>
    BY <2>1 DEF Trust!vars, RecordOf, AnchorOf, NoRow, ProofOf, Unsettled
  <2>2. CASE UNCHANGED ledger /\ Row1
    BY <2>2, RowsRefine DEF Row1
  <2>3. ASSUME NEW t \in TxIds, Mine(t) PROVE [Trust!Next]_(Trust!vars)
    BY <2>3, MineRefines
  <2> QED
    BY <2>1, <2>2, <2>3, RowChange, TxChange DEF Submitted
<1> QED
  BY <1>1, <1>2, Invariant, PTL DEF Spec, ImplementsTrust, Trust!Spec

-------------------------------------------------------------------------------
(* What the ledger of this model does, the contract does: the state of the    *)
(* contract is rebuilt from the proofs, entry by entry.                      *)
Digests == Anchors \union {NoAnchor}

ProofAt(a) == IF a \in Anchors THEN ledger[a] ELSE "absent"

Entry(p) == [issuer |-> IF p # "absent" THEN "wallet" ELSE "zero",
             issuedAt |-> IF p # "absent" THEN 1 ELSE 0,
             revokedAt |-> IF p = "revoked" THEN 1 ELSE 0,
             exists |-> p # "absent",
             revoked |-> p = "revoked"]

Entries == [a \in Digests |-> Entry(ProofAt(a))]
Issued == [a \in Digests |-> IF a \in Anchors /\ ledger[a] # "absent"
                               THEN <<[by |-> "wallet", at |-> 1]>> ELSE <<>>]
Withdrawn == [a \in Digests |-> IF a \in Anchors /\ ledger[a] = "revoked"
                                  THEN <<[by |-> "wallet", at |-> 1]>> ELSE <<>>]

LEMMA RegistryVars ==
  Registry!vars = <<{"admin"}, {"wallet"}, ~accepting, Entries, Issued, Withdrawn, 1>>
  BY DEF Registry!vars, Entries, Issued, Withdrawn, Digests, ProofAt, Entry

LEMMA StampOne == Registry!Uint64(1) = 1
  BY DEF Registry!Uint64

LEMMA IssueIsTransaction ==
  ASSUME ledger \in [Anchors -> {"absent", "issued", "revoked"}], accepting, accepting' = accepting,
         NEW h \in Anchors, ledger[h] = "absent", ledger' = [ledger EXCEPT ![h] = "issued"]
  PROVE  Registry!IssueCredential("wallet", h)
<1>1. h # NoAnchor /\ h \in Digests
  BY DEF Anchors, NoAnchor, Digests
<1>2. \A a \in Digests : ProofAt(a)' = IF a = h THEN "issued" ELSE ProofAt(a)
  BY DEF ProofAt
<1>3. Entries' = [Entries EXCEPT ![h] = Entry("issued")]
  BY <1>1, <1>2 DEF Entries
<1>4. Issued' = [Issued EXCEPT ![h] = <<[by |-> "wallet", at |-> 1]>>]
  BY <1>1 DEF Issued
<1>5. Withdrawn' = Withdrawn
  BY DEF Withdrawn
<1>6. Issued[h] = <<>> /\ Append(<<>>, [by |-> "wallet", at |-> 1]) = <<[by |-> "wallet", at |-> 1]>>
  BY <1>1 DEF Issued
<1>7. ~Entries[h].exists
  BY <1>1 DEF Entries, Entry, ProofAt
<1> QED
  BY <1>1, <1>3, <1>4, <1>5, <1>6, <1>7, StampOne
     DEF Registry!IssueCredential, Registry!roleVars, Entries, Issued, Withdrawn, Entry, ProofAt, Digests

EntryType == [issuer : {"wallet", "zero"}, issuedAt : Nat, revokedAt : Nat,
              exists : BOOLEAN, revoked : BOOLEAN]

LEMMA LiveEntry ==
  /\ Entry("issued") \in EntryType /\ Entry("issued").issuer = "wallet"
  /\ Entry("issued").issuedAt = 1
  /\ Entry("issued").exists /\ ~Entry("issued").revoked
  BY DEF Entry, EntryType

LEMMA EndedEntry ==
  /\ Entry("revoked") \in EntryType /\ Entry("revoked").issuer = "wallet"
  /\ Entry("revoked").issuedAt = 1 /\ Entry("revoked").revokedAt = 1
  /\ Entry("revoked").exists /\ Entry("revoked").revoked
  BY DEF Entry, EntryType

LEMMA EntryRevoked == Entry("revoked") = [Entry("issued") EXCEPT !.revoked = TRUE, !.revokedAt = 1]
<1> DEFINE e == [Entry("issued") EXCEPT !.revoked = TRUE, !.revokedAt = 1]
<1>1. e \in EntryType
  BY LiveEntry DEF EntryType
<1>2. e.issuer = "wallet" /\ e.issuedAt = 1
  BY LiveEntry DEF EntryType
<1>3. e.revokedAt = 1
  BY LiveEntry DEF EntryType
<1>4. e.exists
  BY LiveEntry DEF EntryType
<1>5. e.revoked
  BY LiveEntry DEF EntryType
<1>6. \A x, y \in EntryType :
        /\ x.issuer = y.issuer /\ x.issuedAt = y.issuedAt /\ x.revokedAt = y.revokedAt
        /\ x.exists = y.exists /\ x.revoked = y.revoked
        => x = y
  BY DEF EntryType
<1> HIDE DEF e
<1>7. (e.exists = Entry("revoked").exists) /\ (e.revoked = Entry("revoked").revoked)
  BY <1>1, <1>4, <1>5, EndedEntry DEF EntryType
<1>8. e = Entry("revoked")
  BY <1>1, <1>2, <1>3, <1>6, <1>7, EndedEntry
<1> QED
  BY <1>8 DEF e

LEMMA RevokeIsTransaction ==
  ASSUME ledger \in [Anchors -> {"absent", "issued", "revoked"}], accepting, accepting' = accepting,
         NEW h \in Anchors, ledger[h] = "issued", ledger' = [ledger EXCEPT ![h] = "revoked"]
  PROVE  Registry!RevokeCredential("wallet", h)
<1>1. h \in Digests
  BY DEF Digests
<1>2. \A a \in Digests : ProofAt(a)' = IF a = h THEN "revoked" ELSE ProofAt(a)
  BY DEF ProofAt
<1>3. /\ Entries[h] = Entry("issued")
      /\ Entry("revoked") = [Entry("issued") EXCEPT !.revoked = TRUE, !.revokedAt = 1]
  <2>1. Entries[h] = Entry("issued")
    BY <1>1 DEF Entries, ProofAt
  <2> QED
    BY <2>1, EntryRevoked
<1>4. Entries' = [Entries EXCEPT ![h] = Entry("revoked")]
  BY <1>1, <1>2 DEF Entries
<1>5. Entries' = [Entries EXCEPT ![h].revoked = TRUE, ![h].revokedAt = 1]
  BY <1>1, <1>3, <1>4 DEF Entries
<1>6. Issued' = Issued
  BY DEF Issued
<1>7. Withdrawn' = [Withdrawn EXCEPT ![h] = <<[by |-> "wallet", at |-> 1]>>]
  BY <1>1 DEF Withdrawn
<1>8. Withdrawn[h] = <<>> /\ Append(<<>>, [by |-> "wallet", at |-> 1]) = <<[by |-> "wallet", at |-> 1]>>
  BY <1>1 DEF Withdrawn
<1>9. Entries[h].exists /\ ~Entries[h].revoked /\ Entries[h].issuer = "wallet"
  BY <1>3, LiveEntry
<1> QED
  BY <1>1, <1>5, <1>6, <1>7, <1>8, <1>9, StampOne
     DEF Registry!RevokeCredential, Registry!roleVars, Entries, Issued, Withdrawn, Entry, ProofAt, Digests

LEMMA WalletSends ==
  ASSUME NEW h \in Anchors,
         Registry!IssueCredential("wallet", h) \/ Registry!RevokeCredential("wallet", h)
  PROVE  Registry!Next
<1>1. "wallet" \in Registry!Senders
  BY DEF Registry!Senders
<1>2. h \in Anchors \union {NoAnchor}
  OBVIOUS
<1> QED
  BY <1>1, <1>2, Zenon DEF Registry!Next

LEMMA LedgerSteps ==
  ASSUME [Next]_vars
  PROVE  \/ UNCHANGED <<ledger, accepting>>
         \/ ToggleAccepting
         \/ \E t \in TxIds : Mine(t) /\ ledger' # ledger
<1>1. ASSUME NEW w \in Workers, NEW c \in Creds, Arrive(w, c)
      PROVE  UNCHANGED <<ledger, accepting>>
  BY <1>1 DEF Arrive, IssueBegin, RevokeBegin, SupersedeBegin
<1>2. ASSUME NEW w \in Workers, HandlerStep(w) PROVE UNCHANGED <<ledger, accepting>>
  BY <1>2 DEF HandlerStep, IssueInsert, IssuePrepare, IssueUpload, IssueSubmit, IssueConfirm,
              IssueActivate, IssueRespond, IssueFail, RevokeSubmit, RevokeConfirm,
              RevokeMark, SupersedeRead, SupersedeMark
<1>3. CASE Reconcile
  BY <1>3 DEF Reconcile, ReconcileStart, ReconcileExamine, ReconcileSettle,
              ReconcileSkip, ReconcileAbort
<1>4. ASSUME NEW t \in TxIds, Mine(t) PROVE UNCHANGED accepting
  BY <1>4 DEF Mine
<1>5. CASE Crash \/ UNCHANGED vars
  BY <1>5 DEF Crash, vars
<1> QED
  BY <1>1, <1>2, <1>3, <1>4, <1>5 DEF Next

\* Every step leaves the contract alone or is one of its transactions: the
\* administrator's pause and the two transactions of the institution's wallet.
THEOREM LedgerIsRegistry == Spec => StepsOfRegistry
<1>1. IInv /\ [Next]_vars => [Registry!Next]_(Registry!vars)
  <2> SUFFICES ASSUME IInv, [Next]_vars PROVE [Registry!Next]_(Registry!vars)
    OBVIOUS
  <2>0. ledger \in [Anchors -> {"absent", "issued", "revoked"}] /\ accepting \in BOOLEAN
    BY DEF IInv, TypeInv, TypeOK
  <2>1. CASE UNCHANGED <<ledger, accepting>>
    BY <2>1 DEF Registry!vars
  <2>2. CASE ToggleAccepting
    <3>1. UNCHANGED ledger /\ accepting' = ~accepting
      BY <2>2 DEF ToggleAccepting
    <3>2. CASE accepting
      BY <3>1, <3>2 DEF Registry!Next, Registry!Pause, Registry!Senders, Registry!roleVars,
                        Registry!ledgerVars
    <3>3. CASE ~accepting
      BY <3>1, <3>3 DEF Registry!Next, Registry!Unpause, Registry!Senders, Registry!roleVars,
                        Registry!ledgerVars
    <3> QED
      BY <3>2, <3>3
  <2>3. ASSUME NEW t \in TxIds, Mine(t), ledger' # ledger
        PROVE  Registry!Next
    <3> DEFINE h == txs[t].anchor
    <3>1. /\ Effect(t) # "none" /\ ledger' = [ledger EXCEPT ![h] = Effect(t)]
          /\ accepting' = accepting
      BY <2>3 DEF Mine
    <3>2. accepting
      BY <3>1 DEF Effect
    <3>3. h \in Anchors
      BY <2>0, <2>3, <3>1 
    <3>4. \/ Effect(t) = "issued" /\ ledger[h] = "absent"
          \/ Effect(t) = "revoked" /\ ledger[h] = "issued"
      BY <3>1, <3>2 DEF Effect
    <3> PICK a \in Anchors : a = h
      BY <3>3
    <3> HIDE DEF h
    <3>5. CASE Effect(t) = "issued" /\ ledger[h] = "absent"
      <4>1. Registry!IssueCredential("wallet", a)
        BY <2>0, <3>1, <3>2, <3>5, IssueIsTransaction
      <4> QED
        BY <4>1, WalletSends
    <3>6. CASE Effect(t) = "revoked" /\ ledger[h] = "issued"
      <4>1. Registry!RevokeCredential("wallet", a)
        BY <2>0, <3>1, <3>2, <3>6, RevokeIsTransaction
      <4> QED
        BY <4>1, WalletSends
    <3> QED
      BY <3>4, <3>5, <3>6
  <2> QED
    BY <2>1, <2>2, <2>3, LedgerSteps
<1> QED
  BY <1>1, Invariant, PTL DEF Spec, StepsOfRegistry
===============================================================================
