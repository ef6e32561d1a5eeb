-------------------------- MODULE CredentialLifecycle --------------------------
(***************************************************************************)
(* The rows of the credentials table, the registry contract and everything *)
(* that moves them concurrently:                                           *)
(*  - the issue, revoke and supersede request handlers of the API process  *)
(*    (credentialController.js, credentialLifecycleController.js), each    *)
(*    with one action per await that reads or writes shared state;         *)
(*  - the reconciliation script, a process of its own that works on a      *)
(*    snapshot of rows (scripts/reconcileBlockchainCredentials.js);        *)
(*  - the ledger, which mines a submitted transaction at any later time,   *)
(*    or never, whether or not anyone still waits for it.                  *)
(* The credentials are certificates of one student at one active           *)
(* institution: the case in which the handlers' scope checks let every     *)
(* request through.                                                        *)
(***************************************************************************)
EXTENDS Naturals, FiniteSets

CONSTANTS Creds,        \* certificate files, and so rows: certificate_hash is UNIQUE
          Accredited,   \* those issued through the accreditation middleware
          Workers,      \* requests the API process handles at a time
          TxIds,        \* bound: transactions ever submitted
          NoCred, NoTx

ASSUME CredsAssumption == Accredited \subseteq Creds /\ NoCred \notin Creds
ASSUME TxIdsAssumption == NoTx \notin TxIds

VARIABLES rows,       \* the credentials table
          ledger,     \* the contract's proof of every anchor
          accepting,  \* not paused, and the wallet holds INSTITUTION_ROLE
          txs,        \* every transaction submitted, with its receipt
          requests,   \* what each handler is doing
          rec         \* the reconciliation script

vars == <<rows, ledger, accepting, txs, requests, rec>>

-------------------------------------------------------------------------------
Statuses == {"absent", "processing", "pending", "active",
             "failed", "revoked", "superseded"}

Row == [status : Statuses, proof : {"legacy-v1", "structured-v2"}, cid : BOOLEAN,
        tx : TxIds \union {NoTx}, revocationTx : TxIds \union {NoTx},
        supersededBy : Creds \union {NoCred}]

NoRow == [status |-> "absent", proof |-> "legacy-v1", cid |-> FALSE, tx |-> NoTx,
          revocationTx |-> NoTx, supersededBy |-> NoCred]

Anchors == [kind : {"certificate_hash", "credential_commitment"}, cred : Creds]

NoAnchor == [kind |-> "none", cred |-> NoCred]

Tx == [op : {"none", "issue", "revoke"}, anchor : Anchors \union {NoAnchor},
       state : {"unused", "pending", "success", "reverted"}]

NoTxSubmitted == [op |-> "none", anchor |-> NoAnchor, state |-> "unused"]

Steps == {"idle", "insert", "prepare", "upload", "submit", "confirm",
          "activate", "respond", "fail", "replacement", "mark"}

Request == [op : {"none", "issue", "revoke", "supersede"}, step : Steps,
            cred : Creds \union {NoCred}, other : Creds \union {NoCred},
            tx : TxIds \union {NoTx}]

Idle == [op |-> "none", step |-> "idle", cred |-> NoCred, other |-> NoCred, tx |-> NoTx]

Item == [cred : Creds, status : {"processing", "pending", "failed"}]

Script == [todo : SUBSET Item, cred : Creds \union {NoCred},
           event : TxIds \union {NoTx}]

RecIdle == [todo |-> {}, cred |-> NoCred, event |-> NoTx]

Unsettled == {"processing", "pending"}

ProofOf(c) == IF c \in Accredited THEN "structured-v2" ELSE "legacy-v1"

\* The digest a row's proof is stored under on chain.
AnchorOf(row, c) ==
  [kind |-> IF row.proof = "structured-v2" THEN "credential_commitment"
                                           ELSE "certificate_hash",
   cred |-> c]

Init == /\ rows = [c \in Creds |-> NoRow]
        /\ ledger = [a \in Anchors |-> "absent"]
        /\ accepting = TRUE
        /\ txs = [t \in TxIds |-> NoTxSubmitted]
        /\ requests = [w \in Workers |-> Idle]
        /\ rec = RecIdle

At(w, op, step) == requests[w].op = op /\ requests[w].step = step

Goto(w, step) == requests' = [requests EXCEPT ![w].step = step]

End(w) == requests' = [requests EXCEPT ![w] = Idle]

EndAll == requests' = [w \in Workers |-> Idle]

\* One UPDATE ... WHERE id = c AND guard, with its columns.
Update(c, guard, row) == guard /\ rows' = [rows EXCEPT ![c] = row]

TimedOutBug(c) ==             \* mutant: a status the column's CHECK does not know
  Update(c, rows[c].status \in Unsettled, [rows[c] EXCEPT !.status = "timed_out"])

MarkFailed(c) == Update(c, rows[c].status \in Unsettled,
                        [rows[c] EXCEPT !.status = "failed"])

Activate(c, t) == Update(c, rows[c].status \in Unsettled /\ rows[c].cid,
                         [rows[c] EXCEPT !.status = "active", !.tx = t])

\* Broadcast transaction t about anchor a; it is mined later, or never.
Broadcast(t, op, a) ==
  /\ accepting
  /\ txs[t].state = "unused"
  /\ txs' = [txs EXCEPT ![t] = [op |-> op, anchor |-> a, state |-> "pending"]]

-------------------------------------------------------------------------------
(* issueCredential.  A step that can throw also has the way to the catch    *)
(* block, "fail".                                                           *)

\* findCredentialByHash saw no row for this file.
IssueBegin(w, c) ==
  /\ requests[w] = Idle
  /\ rows[c].status = "absent"
  /\ requests' = [requests EXCEPT ![w] = [Idle EXCEPT !.op = "issue", !.step = "insert",
                                                      !.cred = c]]
  /\ UNCHANGED <<rows, ledger, accepting, txs, rec>>

InsertTwiceBug(w) ==          \* mutant: certificate_hash is not UNIQUE
  /\ At(w, "issue", "insert")
  /\ rows' = [rows EXCEPT ![requests[w].cred] = [NoRow EXCEPT !.status = "processing"]]
  /\ Goto(w, "prepare")
  /\ UNCHANGED <<ledger, accepting, txs, rec>>

\* createProcessingCredential.  When it throws, by the UNIQUE certificate_hash
\* or otherwise, there is no credential to mark failed.
IssueInsert(w) ==
  /\ At(w, "issue", "insert")
  /\ LET c == requests[w].cred
     IN \/ /\ Update(c, rows[c].status = "absent", [NoRow EXCEPT !.status = "processing"])
           /\ Goto(w, "prepare")
        \/ End(w) /\ UNCHANGED rows
  /\ UNCHANGED <<ledger, accepting, txs, rec>>

\* Semantic manifest, structured proof, and the audit entries around them: one
\* of them may still throw after setCredentialStructuredProof.
IssuePrepare(w) ==
  /\ At(w, "issue", "prepare")
  /\ LET c == requests[w].cred
     IN \/ /\ Update(c, rows[c].status = "processing",
                     [rows[c] EXCEPT !.proof = ProofOf(c)])
           /\ Goto(w, "upload") \/ Goto(w, "fail")
        \/ Goto(w, "fail") /\ UNCHANGED rows
  /\ UNCHANGED <<ledger, accepting, txs, rec>>

\* uploadFileToIPFS and updateCredentialIpfsData; the audit entry after the
\* UPDATE may still throw.
IssueUpload(w) ==
  /\ At(w, "issue", "upload")
  /\ LET c == requests[w].cred
     IN \/ /\ Update(c, rows[c].status \in Unsettled,
                     [rows[c] EXCEPT !.status = "pending", !.cid = TRUE])
           /\ Goto(w, "submit") \/ Goto(w, "fail")
        \/ Goto(w, "fail") /\ UNCHANGED rows
  /\ UNCHANGED <<ledger, accepting, txs, rec>>

\* issueCredentialOnChainInternal up to the submission.
IssueSubmit(w) ==
  /\ At(w, "issue", "submit")
  /\ LET a == AnchorOf(rows[requests[w].cred], requests[w].cred)
     IN \/ /\ ledger[a] = "absent"
           /\ \E t \in TxIds :
                /\ Broadcast(t, "issue", a)
                /\ \/ requests' = [requests EXCEPT ![w].step = "confirm", ![w].tx = t]
                   \/ Goto(w, "fail")
        \/ Goto(w, "fail") /\ UNCHANGED txs
  /\ UNCHANGED <<rows, ledger, accepting, rec>>

TrustSubmissionBug(w) ==      \* mutant: a timed-out wait is taken for success
  /\ At(w, "issue", "confirm")
  /\ Goto(w, "activate") \/ Goto(w, "fail")
  /\ UNCHANGED <<rows, ledger, accepting, txs, rec>>

WaitForeverBug(w) ==          \* mutant: waitWithTimeout never rejects
  /\ At(w, "issue", "confirm")
  /\ \/ txs[requests[w].tx].state = "success" /\ Goto(w, "activate")
     \/ txs[requests[w].tx].state = "reverted" /\ Goto(w, "fail")
  /\ UNCHANGED <<rows, ledger, accepting, txs, rec>>

\* The wait for the receipt, its recovery after a timeout, and the audit entry
\* "confirmed".  A timeout is possible at any time, also after the transaction
\* was mined, when the recovery cannot read the receipt or the proof.
IssueConfirm(w) ==
  /\ At(w, "issue", "confirm")
  /\ \/ txs[requests[w].tx].state = "success" /\ Goto(w, "activate")
     \/ Goto(w, "fail")
  /\ UNCHANGED <<rows, ledger, accepting, txs, rec>>

IssueActivate(w) ==
  /\ At(w, "issue", "activate")
  /\ \/ Activate(requests[w].cred, requests[w].tx) /\ Goto(w, "respond")
     \/ Goto(w, "fail") /\ UNCHANGED rows
  /\ UNCHANGED <<ledger, accepting, txs, rec>>

\* Status list and QR code swallow their errors; the audit entry
\* "credential_activated" does not.
IssueRespond(w) ==
  /\ At(w, "issue", "respond")
  /\ End(w) \/ Goto(w, "fail")
  /\ UNCHANGED <<rows, ledger, accepting, txs, rec>>

\* The catch block; its own database error is swallowed.
IssueFail(w) ==
  /\ At(w, "issue", "fail")
  /\ MarkFailed(requests[w].cred) \/ UNCHANGED rows
  /\ End(w)
  /\ UNCHANGED <<ledger, accepting, txs, rec>>

-------------------------------------------------------------------------------
(* revokeCredential: its catch block changes nothing.                       *)

RevokeBegin(w, c) ==
  /\ requests[w] = Idle
  /\ rows[c].status = "active"
  /\ requests' = [requests EXCEPT ![w] = [Idle EXCEPT !.op = "revoke", !.step = "submit",
                                                      !.cred = c]]
  /\ UNCHANGED <<rows, ledger, accepting, txs, rec>>

RevokeSubmit(w) ==
  /\ At(w, "revoke", "submit")
  /\ LET a == AnchorOf(rows[requests[w].cred], requests[w].cred)
     IN \/ /\ ledger[a] = "issued"
           /\ \E t \in TxIds :
                /\ Broadcast(t, "revoke", a)
                /\ \/ requests' = [requests EXCEPT ![w].step = "confirm", ![w].tx = t]
                   \/ End(w)
        \/ End(w) /\ UNCHANGED txs
  /\ UNCHANGED <<rows, ledger, accepting, rec>>

RevokeNoWaitBug(w) ==         \* mutant: the row is marked without the receipt
  /\ At(w, "revoke", "confirm")
  /\ Goto(w, "mark") \/ End(w)
  /\ UNCHANGED <<rows, ledger, accepting, txs, rec>>

\* revokeCredentialOnChain has no recovery after a timeout.
RevokeConfirm(w) ==
  /\ At(w, "revoke", "confirm")
  /\ \/ txs[requests[w].tx].state = "success" /\ Goto(w, "mark")
     \/ End(w)
  /\ UNCHANGED <<rows, ledger, accepting, txs, rec>>

\* markCredentialRevoked: no row when the credential is no longer active.
RevokeMark(w) ==
  /\ At(w, "revoke", "mark")
  /\ LET c == requests[w].cred
     IN \/ Update(c, rows[c].status = "active",
                  [rows[c] EXCEPT !.status = "revoked", !.revocationTx = requests[w].tx])
        \/ UNCHANGED rows
  /\ End(w)
  /\ UNCHANGED <<ledger, accepting, txs, rec>>

-------------------------------------------------------------------------------
(* supersedeCredential: two reads, then one guarded UPDATE.                 *)

SupersedeBegin(w, c) ==
  /\ requests[w] = Idle
  /\ rows[c].status = "active"
  /\ requests' = [requests EXCEPT ![w] = [Idle EXCEPT !.op = "supersede",
                                            !.step = "replacement", !.cred = c]]
  /\ UNCHANGED <<rows, ledger, accepting, txs, rec>>

UncheckedReplacementBug(w) ==  \* mutant: a replacement that has been replaced itself will do
  /\ At(w, "supersede", "replacement")
  /\ \/ \E r \in Creds \ {requests[w].cred} :
          /\ rows[r].status \in {"active", "superseded"}
          /\ requests' = [requests EXCEPT ![w].step = "mark", ![w].other = r]
     \/ End(w)
  /\ UNCHANGED <<rows, ledger, accepting, txs, rec>>

SupersedeRead(w) ==
  /\ At(w, "supersede", "replacement")
  /\ \/ \E r \in Creds \ {requests[w].cred} :
          /\ rows[r].status = "active"
          /\ requests' = [requests EXCEPT ![w].step = "mark", ![w].other = r]
     \/ End(w)
  /\ UNCHANGED <<rows, ledger, accepting, txs, rec>>

\* markCredentialSuperseded; superseded_by is UNIQUE.
SupersedeMark(w) ==
  /\ At(w, "supersede", "mark")
  /\ LET c == requests[w].cred
         r == requests[w].other
     IN \/ Update(c, /\ rows[c].status = "active"
                     /\ rows[c].supersededBy = NoCred
                     /\ \A d \in Creds : rows[d].supersededBy # r,
                  [rows[c] EXCEPT !.status = "superseded", !.supersededBy = r])
        \/ UNCHANGED rows
  /\ End(w)
  /\ UNCHANGED <<ledger, accepting, txs, rec>>

-------------------------------------------------------------------------------
(* The ledger.                                                              *)

PausedIssueBug(t) ==          \* mutant: issuance while paused or unauthorised
  CASE txs[t].op = "issue" /\ ledger[txs[t].anchor] = "absent" -> "issued"
    [] accepting /\ txs[t].op = "revoke" /\ ledger[txs[t].anchor] = "issued" -> "revoked"
    [] OTHER -> "none"

\* The contract's answer to transaction t: the proof it leaves and the receipt.
Effect(t) ==
  CASE accepting /\ txs[t].op = "issue" /\ ledger[txs[t].anchor] = "absent" -> "issued"
    [] accepting /\ txs[t].op = "revoke" /\ ledger[txs[t].anchor] = "issued" -> "revoked"
    [] OTHER -> "none"

Mine(t) ==
  /\ txs[t].state = "pending"
  /\ \/ /\ Effect(t) # "none"
        /\ ledger' = [ledger EXCEPT ![txs[t].anchor] = Effect(t)]
        /\ txs' = [txs EXCEPT ![t].state = "success"]
     \/ /\ Effect(t) = "none"
        /\ txs' = [txs EXCEPT ![t].state = "reverted"]
        /\ UNCHANGED ledger
  /\ UNCHANGED <<rows, accepting, requests, rec>>

\* The administrator pauses, unpauses, deactivates or authorises.
ToggleAccepting ==
  /\ accepting' = ~accepting
  /\ UNCHANGED <<rows, ledger, txs, requests, rec>>

-------------------------------------------------------------------------------
(* The API process dies: every handler is gone, transactions are not.       *)
Crash ==
  /\ \E w \in Workers : requests[w] # Idle
  /\ EndAll
  /\ UNCHANGED <<rows, ledger, accepting, txs, rec>>

-------------------------------------------------------------------------------
(* reconcileBlockchainCredentials.js.                                       *)

OnlyProcessingBug ==          \* mutant: the SELECT forgets 'pending'
  {i \in Item : /\ i.status # "pending"
               /\ rows[i.cred].status = i.status
               /\ rows[i.cred].cid}

\* getCredentialsRequiringReconciliation
Stale == {i \in Item : rows[i.cred].status = i.status /\ rows[i.cred].cid}

ReconcileStart ==
  /\ rec = RecIdle
  /\ Stale # {}
  /\ rec' = [RecIdle EXCEPT !.todo = Stale]
  /\ UNCHANGED <<rows, ledger, accepting, txs, requests>>

\* The proof of a live credential and its CredentialIssued event.
IssuanceEvent(a, t) == /\ ledger[a] = "issued"
                       /\ txs[t].op = "issue"
                       /\ txs[t].anchor = a
                       /\ txs[t].state = "success"

\* A failed row of the snapshot is reported and left alone; of any other, the
\* chain is read.
ReconcileExamine(i) ==
  /\ rec.cred = NoCred
  /\ i \in rec.todo
  /\ LET a == AnchorOf(rows[i.cred], i.cred)
         rest == [rec EXCEPT !.todo = @ \ {i}]
     IN \/ i.status = "failed" /\ rec' = rest
        \/ /\ i.status # "failed"
           /\ \/ \E t \in TxIds : /\ IssuanceEvent(a, t)
                                  /\ rec' = [rest EXCEPT !.cred = i.cred, !.event = t]
              \/ /\ ~ \E t \in TxIds : IssuanceEvent(a, t)
                 /\ rec' = [rest EXCEPT !.cred = i.cred]
  /\ UNCHANGED <<rows, ledger, accepting, txs, requests>>

ReconcileUnguardedBug ==      \* mutant: markCredentialFailed without its guard
  /\ rec.cred # NoCred
  /\ \/ /\ rec.event = NoTx
        /\ rows' = [rows EXCEPT ![rec.cred].status = "failed"]
     \/ /\ rec.event # NoTx
        /\ Activate(rec.cred, rec.event) \/ UNCHANGED rows
  /\ rec' = [rec EXCEPT !.cred = NoCred, !.event = NoTx]
  /\ UNCHANGED <<ledger, accepting, txs, requests>>

\* The row is settled by what was read; no row is updated when its lifecycle
\* moved on since.
ReconcileSettle ==
  /\ rec.cred # NoCred
  /\ LET c == rec.cred
     IN \/ /\ rec.event = NoTx
           /\ MarkFailed(c) \/ (rows[c].status \notin Unsettled /\ UNCHANGED rows)
        \/ /\ rec.event # NoTx
           /\ Activate(c, rec.event) \/ (rows[c].status \notin Unsettled /\ UNCHANGED rows)
  /\ rec' = [rec EXCEPT !.cred = NoCred, !.event = NoTx]
  /\ UNCHANGED <<ledger, accepting, txs, requests>>

\* The chain cannot be read or the UPDATE throws: the item is left unresolved.
ReconcileSkip ==
  /\ \/ /\ rec.cred # NoCred
        /\ rec' = [rec EXCEPT !.cred = NoCred, !.event = NoTx]
     \/ /\ rec.cred = NoCred
        /\ \E i \in rec.todo : rec' = [rec EXCEPT !.todo = @ \ {i}]
  /\ UNCHANGED <<rows, ledger, accepting, txs, requests>>

\* The audit entry before the try block throws, or the process dies.
ReconcileAbort ==
  /\ rec # RecIdle
  /\ rec' = RecIdle
  /\ UNCHANGED <<rows, ledger, accepting, txs, requests>>

-------------------------------------------------------------------------------
HandlerStep(w) ==
  \/ IssueInsert(w)
  \/ IssuePrepare(w)
  \/ IssueUpload(w)
  \/ IssueSubmit(w)
  \/ IssueConfirm(w)
  \/ IssueActivate(w)
  \/ IssueRespond(w)
  \/ IssueFail(w)
  \/ RevokeSubmit(w)
  \/ RevokeConfirm(w)
  \/ RevokeMark(w)
  \/ SupersedeRead(w)
  \/ SupersedeMark(w)

Arrive(w, c) ==
  \/ IssueBegin(w, c)
  \/ RevokeBegin(w, c)
  \/ SupersedeBegin(w, c)

Reconcile ==
  \/ ReconcileStart
  \/ \E i \in Item : ReconcileExamine(i)
  \/ ReconcileSettle
  \/ ReconcileSkip
  \/ ReconcileAbort

Next ==
  \/ \E w \in Workers, c \in Creds : Arrive(w, c)
  \/ \E w \in Workers : HandlerStep(w)
  \/ \E t \in TxIds : Mine(t)
  \/ ToggleAccepting
  \/ Crash
  \/ Reconcile

Spec == Init /\ [][Next]_vars

(* Handlers run to their end: every await has a timeout or an error.  The   *)
(* operator runs the reconciliation again and again, and its audit entries, *)
(* chain reads and updates do not fail for ever.  Nothing is assumed of the *)
(* ledger: a transaction may never be mined.                                *)
Fairness ==
  /\ \A w \in Workers : WF_vars(HandlerStep(w))
  /\ WF_vars(ReconcileStart)
  /\ \A i \in Item : SF_vars(ReconcileExamine(i))
  /\ SF_vars(ReconcileSettle)

FairSpec == Spec /\ Fairness

-------------------------------------------------------------------------------
TypeOK ==
  /\ rows \in [Creds -> Row]
  /\ ledger \in [Anchors -> {"absent", "issued", "revoked"}]
  /\ accepting \in BOOLEAN
  /\ txs \in [TxIds -> Tx]
  /\ requests \in [Workers -> Request]
  /\ rec \in Script

Accepted == {"active", "revoked", "superseded"}

\* A row that was ever activated, by its handler or by the reconciliation and
\* however late, names the transaction that did put its own anchor on chain,
\* and its file is pinned ("only then marks the record active",
\* docs/CREDENTIAL_MANAGEMENT.md:5).
ActiveIsAnchored ==
  \A c \in Creds : rows[c].status \in Accepted =>
    /\ rows[c].cid
    /\ ledger[AnchorOf(rows[c], c)] # "absent"
    /\ \E t \in TxIds : /\ rows[c].tx = t
                        /\ txs[t].op = "issue"
                        /\ txs[t].anchor = AnchorOf(rows[c], c)
                        /\ txs[t].state = "success"

\* A row says revoked only when the contract says so too, by the transaction
\* the row names ("Revocation becomes final only after blockchain
\* confirmation", docs/CREDENTIAL_MANAGEMENT.md:25).
RevokedIsRevokedOnChain ==
  \A c \in Creds : rows[c].status = "revoked" =>
    /\ ledger[AnchorOf(rows[c], c)] = "revoked"
    /\ \E t \in TxIds : /\ rows[c].revocationTx = t
                        /\ txs[t].op = "revoke"
                        /\ txs[t].anchor = AnchorOf(rows[c], c)
                        /\ txs[t].state = "success"

\* Whatever fails, crashes or is retried, no anchor is submitted for issuance
\* a second time ("never automatically resubmitted",
\* backend/services/blockchainService.js:43).
NeverResubmitted ==
  \A t, u \in TxIds : /\ txs[t].op = "issue"
                      /\ txs[u].op = "issue"
                      /\ txs[t].anchor = txs[u].anchor
                      => t = u

\* Evidence once stored is never overwritten ("No reactivation or evidence
\* overwrite", docs/RESEARCH_ALIGNMENT_IMPLEMENTATION_SPEC.md:32).
EvidenceWrittenOnce ==
  [][\A c \in Creds :
       /\ rows[c].cid => /\ rows'[c].cid
                         /\ AnchorOf(rows'[c], c) = AnchorOf(rows[c], c)
       /\ rows[c].tx # NoTx => rows'[c].tx = rows[c].tx
       /\ rows[c].revocationTx # NoTx => rows'[c].revocationTx = rows[c].revocationTx
       /\ rows[c].supersededBy # NoCred => rows'[c].supersededBy = rows[c].supersededBy
    ]_vars

-------------------------------------------------------------------------------
\* The life of one credential, seen from outside.
RecordOf(status) == CASE status = "absent"     -> "none"
                      [] status \in Unsettled  -> "issuing"
                      [] status = "active"     -> "valid"
                      [] OTHER                 -> status

Trust == INSTANCE CredentialTrust WITH
           record <- [c \in Creds |-> RecordOf(rows[c].status)],
           proof <- [c \in Creds |->
                       ledger[AnchorOf([NoRow EXCEPT !.proof = ProofOf(c)], c)]]

\* Every interleaving of handlers, crashes, late transactions and the
\* reconciliation is an execution of the promise: terminal records stay
\* terminal, a record is accepted only over a live proof and revoked only after
\* its proof.
ImplementsTrust == Trust!Spec

\* The ledger of this model makes only the contract's own transactions: the
\* administrator pauses, the institution's wallet issues and revokes.
Registry == INSTANCE CredentialRegistry WITH
  Addresses <- {"admin", "wallet", "zero"},
  ZeroAddress <- "zero",
  Administrator <- "admin",
  Digests <- Anchors \union {NoAnchor},
  ZeroDigest <- NoAnchor,
  MaxTime <- 1,
  TimestampModulus <- 2,
  admins <- {"admin"},
  institutions <- {"wallet"},
  paused <- ~accepting,
  credentials <-
    [a \in Anchors \union {NoAnchor} |->
       LET p == IF a \in Anchors THEN ledger[a] ELSE "absent"
           ever == p # "absent"
       IN [issuer |-> IF ever THEN "wallet" ELSE "zero",
           issuedAt |-> IF ever THEN 1 ELSE 0,
           revokedAt |-> IF p = "revoked" THEN 1 ELSE 0,
           exists |-> ever,
           revoked |-> p = "revoked"]],
  issuedLog <-
    [a \in Anchors \union {NoAnchor} |->
       IF a \in Anchors /\ ledger[a] # "absent" THEN <<[by |-> "wallet", at |-> 1]>>
                                                ELSE <<>>],
  revokedLog <-
    [a \in Anchors \union {NoAnchor} |->
       IF a \in Anchors /\ ledger[a] = "revoked" THEN <<[by |-> "wallet", at |-> 1]>>
                                                 ELSE <<>>],
  now <- 1

StepsOfRegistry == [][Registry!Next]_(Registry!vars)

-------------------------------------------------------------------------------
\* A handler always answers, though a transaction may never be mined.
HandlersAnswer == \A w \in Workers : requests[w] # Idle ~> requests[w] = Idle

\* A row with a CID does not stay unsettled: reconciliation, run repeatedly,
\* gives it the outcome the chain has, even when its handler died.
UnsettledIsSettled ==
  \A c \in Creds : rows[c].status \in Unsettled /\ rows[c].cid
                     ~> rows[c].status \notin Unsettled

\* "[T]he original becomes SUPERSEDED, the replacement remains independently
\* ACTIVE" (docs/RESEARCH_ALIGNMENT_IMPLEMENTATION_SPEC.md:69), as the handler's
\* own "The replacement credential must be active." means to ensure: when a
\* record is superseded, the record that replaces it is active.
ReplacementIsActive ==
  [][\A c \in Creds : rows[c].status # "superseded" /\ rows'[c].status = "superseded"
                        => rows'[rows'[c].supersededBy].status = "active"]_vars

\* The documentation's claim that reconciliation recovers a record left failed
\* after a successful issuance (docs/RECOVERY_AND_RECONCILIATION.md:8-19).
FailedIsRecovered ==
  \A c \in Creds :
    /\ rows[c].status = "failed"
    /\ rows[c].cid
    /\ ledger[AnchorOf(rows[c], c)] = "issued"
    ~> rows[c].status = "active"
===============================================================================
